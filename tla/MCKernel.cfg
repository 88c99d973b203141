SPECIFICATION MCSpec
CONSTANTS
    Slots = {c1, c2}
    Capacity = 1
    Threshold = 1
    CriticalThreshold = 2
    MaxTime = 3
    MaxAllocs = 2
    Tasks = {t1, t2, t3}
    Cores = {c1, c2}
    IdleTask = IdleTask
    MaxRunnable = 2
    SlowWait = 1
    CriticalWait = 2
    MaxClock = 2
    Cpus = {c1, c2}
    Rate = 2
    Divisor = 4
    BudgetSlots = 6
    Poll = 1
    Lag = 1
    MaxMissed = 1
    Word = 16
    LastSecond = 9
    MaxAnomalies = 1000
VIEW View
INVARIANTS
    LatencyTruthful
    WaitsTruthful
    BudgetsSound
    LossAccounted
    SlotsSuffice
CHECK_DEADLOCK FALSE
