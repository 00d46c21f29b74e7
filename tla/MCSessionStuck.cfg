SPECIFICATION Spec
CONSTANTS
    scan = scan
    poll = poll
    Threads <- MCThreads
    Scanner = scan
    Shapes <- MCShapes
    NULL = NULL
    MaxFaults = 1
PROPERTY HistoryRecovers
