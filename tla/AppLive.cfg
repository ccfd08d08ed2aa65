CONSTANTS
    alice = alice
    bob = bob
    cc1 = cc1
    cc2 = cc2
    f1 = f1
    f2 = f2
    Users <- TwoUsers
    NoUser = NoUser
    CostCenters <- TwoCostCenters
    NoEntry = NoEntry
    Tables <- ThreeTables
    NoTable = NoTable
    Fetches <- TwoFetches
    MaxCrashes = 1
    a1 = a1
    a2 = a2
    a3 = a3
    y1 = y1
    y2 = y2
    t1 = t1
    Assets <- ThreeAssets
    Years <- TwoYears
    ThisYear = y1
    UserTracks <- OneTrack
    BulkTrack = bulkTrack
    ChunkSize = 2
SPECIFICATION LiveSpec
INVARIANTS
    SessionInv
    NoPrivateTabDenied
    AllAccountedFor
    AuditedOfOneYear
PROPERTIES
    RightsSettle
    LoadsEnd
