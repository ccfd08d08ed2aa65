CONSTANTS
    Audits = {a1, a2}
    AssetOf <- OneAsset
    MaxFaults = 1
SPECIFICATION KotlinSpec
INVARIANTS
    SavedIsKeptOrLogged
