CONSTANTS
    Scanners = {job, manual}
    Clerks = {c1}
    Symbols = {EUR, GBP}
    NULL = NULL
    MaxPerSession = 2
    MaxFaults = 1
    MaxBlind = 1
SPECIFICATION FairSpec
INVARIANTS
    TypeOK
    OneOrderPerCycle
    SessionCap
PROPERTIES
    FailurePausesTrading
    TripStopsApprovals
    LockReleased
    StartupRetried
