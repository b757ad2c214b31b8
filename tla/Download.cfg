CONSTANTS
    Mod = 8
    Isn = 6
    Mss = 3
    Overhead = 1
    DefaultSegment = 4
    MaxField = 1
    ScaleFactor = 2
    BufCap = 2
    StagingCap = 2
    ReadBuf = 1
    TotalBytes = 4
    MaxUploads = 1
    MaxQueued = 2
    AppMayClose = TRUE
    UpstreamMayFail = TRUE
SPECIFICATION FairSpec
INVARIANTS
    NoOverrun
    AckReconstruction
    StagingBounded
    NothingStranded
PROPERTIES
    ImplementsPipe
    EventuallyDelivered
CHECK_DEADLOCK FALSE
