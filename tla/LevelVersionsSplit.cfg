CONSTANTS
    Keys <- TwoKeys
    NumLevels = 3
    MaxMemCompactLevel = 1
    L0Trigger = 2
    LevelBytes = 4
    TargetFileSize = 2
    GrandparentBytes = 4
    ExpandedBytes = 10
    AllowedSeeks = 1
    ManualRanges <- NoRanges
    Writes <- SplitWrites
    Readers <- TwoKeys
    MaxSeq = 4
    MaxFiles = 6
    MaxSnapshots = 1
SPECIFICATION VersionSpec
INVARIANTS
    DeletedStaysDeleted
CHECK_DEADLOCK FALSE
