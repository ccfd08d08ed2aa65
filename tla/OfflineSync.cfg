CONSTANTS
    a1 = a1
    a2 = a2
    a3 = a3
    c1 = c1
    c2 = c2
    listener = listener
    none = none
    Audits <- TwoAudits
    Uploadable <- TwoAudits
    Callers <- OneCaller
    Listener = listener
    NoAudit = none
    NoTask = none
    BatchSize = 1
    StatusEvery = 2
    Faults <- FaultKinds
    MaxFaults = 2
SPECIFICATION Spec
SYMMETRY Symmetry
INVARIANTS
    TypeOK
    NoAuditLost
PROPERTIES
    ImplementsOutbox
