SPECIFICATION MCSpec
CONSTANTS
    N = 2
    MaxFaults = 3
    Daemons = {d1, d2, d3, d4}
    None = None
    File = File
    Supervised = TRUE
INVARIANTS
    ResourcesSafe
    BusySocketKept
PROPERTIES
    LoopReturns
    CaptureEnds
    StaleSocketRecovered
CHECK_DEADLOCK FALSE
