CONSTANTS
    Callers = {scan, view}
    Writers = {scan}
    NULL = NULL
    MaxAttempts = 2
    FailureThreshold = 2
    ResetTicks = 1
    MaxResetTicks = 2
    MaxExponent = 2
    MinInterval = 1
    MaxInterval = 1
    RecoverySuccesses = 2
    RecoveryStep = 1
    MinCooldown = 1
    MaxRetryAfter = 1
    MaxOpens = 4
SPECIFICATION FairSpec
PROPERTIES
    RecoveredIsUsed
