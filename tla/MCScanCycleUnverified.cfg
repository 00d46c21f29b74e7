CONSTANTS
    Scanners = {job, manual}
    Clerks = {c1}
    Symbols = {EUR, GBP}
    NULL = NULL
    MaxPerSession = 2
    MaxFaults = 0
    MaxBlind = 1
SPECIFICATION FairSpec
PROPERTIES
    UnknownPausesTrading
