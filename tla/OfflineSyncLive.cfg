CONSTANTS
    a1 = a1
    a2 = a2
    a3 = a3
    c1 = c1
    c2 = c2
    listener = listener
    none = none
    Audits <- TwoAudits
    Uploadable <- TwoAudits
    Callers <- OneCaller
    Listener = listener
    NoAudit = none
    NoTask = none
    BatchSize = 1
    StatusEvery = 2
    Faults <- FailedPuts
    MaxFaults = 1
SPECIFICATION FairSpec
PROPERTIES
    ActivitiesEnd
    EventuallyTried
