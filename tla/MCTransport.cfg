CONSTANTS
    Callers = {scan, view}
    Writers = {scan}
    NULL = NULL
    MaxAttempts = 2
    FailureThreshold = 2
    ResetTicks = 1
    MaxResetTicks = 2
    MaxExponent = 1
    MinInterval = 1
    MaxInterval = 2
    RecoverySuccesses = 1
    RecoveryStep = 1
    MinCooldown = 1
    MaxRetryAfter = 1
    MaxOpens = 3
SPECIFICATION FairSpec
INVARIANTS
    TypeOK
    WriteSentOnce
    DefiniteMeansNotApplied
PROPERTIES
    SpacingKept
    RequestReturns
    CircuitRecovers
