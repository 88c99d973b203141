SPECIFICATION Spec
CONSTANTS
    NumFamilies = 1
    History = 4
    MaxBytes = 8
    SegmentInterval = 2
    RollupInterval = 4
    SegmentCost = 1
    EventSize = 1
    MetricSize = 1
    EventText = 0
    FamilyText = 0
    EventCapacity = 1
    MetricCapacity = 1
    MaxTime = 7
    Delays = {0}
    MaxDrops = 1
    NoRollup = NoRollup
INVARIANT
    AggregatesSelectable
