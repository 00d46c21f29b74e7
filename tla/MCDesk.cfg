CONSTANTS
    Modes = {"paper", "live"}
    Bids = {80, 160, 400}
    Spread = 10
    WideSpread = 60
    EntrySlip = 10
    Plan <- WideLevels
    Lots = {2}
    BreakevenR = 4
    PartialR = 3
    TrailR = 8
    Poller = poller
    Readers = {scan}
    NULL = NULL
    MaxFaults = 1
SPECIFICATION Spec
INVARIANTS
    PartialOnce
    TypeOK
    LedgerExact
PROPERTIES
    KeepsLife
    NoInventedTrigger
CHECK_DEADLOCK FALSE
