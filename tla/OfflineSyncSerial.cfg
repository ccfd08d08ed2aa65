CONSTANTS
    a1 = a1
    a2 = a2
    a3 = a3
    c1 = c1
    c2 = c2
    listener = listener
    none = none
    Audits <- ThreeAudits
    Uploadable <- ThreeAudits
    Callers <- TwoCallers
    Listener = listener
    NoAudit = none
    NoTask = none
    BatchSize = 2
    StatusEvery = 2
    Faults <- FaultKinds
    MaxFaults = 1
SPECIFICATION SerialSpec
SYMMETRY Symmetry
INVARIANTS
    DuplicatesPaidFor
    FailuresKept
PROPERTIES
    SyncedNeverDecreases
