SPECIFICATION MCSpec
CONSTANTS
    Sensors = {"oom", "block_io"}
    AutoSensors = {"oom", "block_io"}
    Before = 3
    After = 2
    Strict = TRUE
    RetryInterval = 1
    MaxTime = 7
    MaxCount = 1
    NoIncident = NoIncident
    NoJob = NoJob
    Off = Off
INVARIANTS
    TypeOK
    JobValid
    TriggersInWindow
    TriggersAccounted
    WakeupsSound
    OneIntervalOverlap
    EndsAtFirstPoll
    NoIntervalBetweenFiles
    SavedEndAdvances
