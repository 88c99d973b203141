SPECIFICATION MCSpec
CONSTANTS
    NumFamilies = 2
    History = 3
    MaxBytes = 12
    SegmentInterval = 1
    RollupInterval = 3
    SegmentCost = 1
    EventSize = 1
    MetricSize = 1
    EventText = 0
    FamilyText = 1
    EventCapacity = 1
    MetricCapacity = 2
    MaxTime = 5
    Delays = {0}
    MaxDrops = 1
    NoRollup = NoRollup
INVARIANTS
    HistorySound
    SnapshotSound
PROPERTY
    RollupsLast
