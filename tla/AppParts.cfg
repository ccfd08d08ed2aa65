CONSTANTS
    p1 = p1
    p2 = p2
    n1 = n1
    n2 = n2
    d1 = d1
    d2 = d2
    k1 = k1
    k2 = k2
    l1 = l1
    l2 = l2
    Photos <- OnePhoto
    AssetNos <- TwoNos
    Devices <- TwoDevices
    Registered <- NoNos
    NoNumber = noNumber
    Tasks <- TwoTasks
    Loads <- OneLoad
    DeviceOf <- TaskEach
    MaxPictures = 2
    MaxFaults = 1
    alice = alice
    Users <- OneUser
    NoUser = noUser
    CostCenters <- TwoCostCenters
    NoEntry = noEntry
    Tables <- NobodyOrListed
    NoTable = noTable
    Fetches <- OneFetch
    MaxCrashes = 0
    ListLoads <- TwoListLoads
    NoList <- AbsentList
    a1 = a1
    a2 = a2
    y1 = y1
    y2 = y2
    t1 = t1
    Assets <- TwoAssets
    Years <- TwoYears
    ThisYear = y1
    UserTracks <- OneTrack
    BulkTrack = bulkTrack
    ChunkSize = 1
    NoStats = noStats
SPECIFICATION PartsSpec
SYMMETRY PartsSymmetry
INVARIANTS
    MergedHasAsset
    PictureIsThere
    ListInv
    FreshIsRecent
    StatsAreCurrent
PROPERTIES
    MergedStays
    DeletedStays
CHECK_DEADLOCK FALSE
