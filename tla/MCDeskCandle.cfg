CONSTANTS
    Modes = {"paper"}
    Bids = {80, 160, 260}
    Spread = 10
    WideSpread = 60
    EntrySlip = 10
    Plan <- Levels
    Lots = {2}
    BreakevenR = 3
    PartialR = 3
    TrailR = 3
    Poller = poller
    Readers = {scan}
    NULL = NULL
    MaxFaults = 0
SPECIFICATION Spec
PROPERTIES
    SettledMeansReached
CHECK_DEADLOCK FALSE
