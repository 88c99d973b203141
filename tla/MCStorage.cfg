SPECIFICATION MCSpec
CONSTANTS
    Daemons = {d1, d2}
    NoDaemon = NoDaemon
    MaxFiles = 2
    MaxStorage = 3
    MaxCaptureBytes = 9
    Sizes = {1, 3}
    Existing = 3
    MaxSaves = 2
    MaxFaults = 2
    Block = 2
    SegmentSizes = {2, 3}
    MaxSegments = 2
    Limits <- TransferLimits
SYMMETRY Symmetry
INVARIANTS
    StorageBounded
    PublicationDurable
    LimitsAgree
PROPERTIES
    TransferAtomic
