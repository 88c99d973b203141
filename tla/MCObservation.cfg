SPECIFICATION MCSpec
CONSTANTS
    RingSize = 2
    MaxFired = 3
    Pids = {1}
    Paths = {"a", "b"}
    LongPaths = {"b"}
    Limit = 2
    Tick = 2
    MaxTime = 6
    MaxPending = 2
    Threshold = 2
    Close = 0
    Steps <- WallSteps
    MaxBoot = 6
    MaxSteps = 2
    Times = {0, 1, 2}
    Window = 1
    Processes = {0, 1}
    Cgroups = {1, 2}
    MaxEvents = 5
    Setups <- AllSetups
VIEW View
INVARIANTS
    DecodeTruthful
    MetadataTruthful
    CoincidenceExact
    VerdictSound
PROPERTIES
    ClockSound
CHECK_DEADLOCK FALSE
