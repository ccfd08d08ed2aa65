CONSTANTS
    alice = alice
    bob = bob
    cc1 = cc1
    cc2 = cc2
    f1 = f1
    f2 = f2
    l1 = l1
    l2 = l2
    absent = absent
    Users <- OneUser
    NoUser = NoUser
    CostCenters <- OneCostCenter
    NoEntry = NoEntry
    Tables <- ListedOrNot
    NoTable = NoTable
    Fetches <- OneFetch
    MaxCrashes = 0
    ListLoads <- OneLoad
    NoList <- AbsentList
SPECIFICATION ListSpec
INVARIANTS
    CacheServesOwnRights
