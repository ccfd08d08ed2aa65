CONSTANTS
    w1 = w1
    w2 = w2
    w3 = w3
    Writers <- AllWriters
    SyncWriters <- OneSync
    NullWriters <- OneNull
    WriteBuffer = 1
    MaxGroup = 2
    L0Trigger = 2
    L0Stop = 3
    Faults <- SomeFaults
    MaxFaults = 1
    MaxCrashes = 2
SPECIFICATION EitherSpec
INVARIANTS
    StoreInv
    SequenceFresh
PROPERTIES
    StoreKeepsPromise
    WritersReturn
CHECK_DEADLOCK FALSE
