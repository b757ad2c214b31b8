CONSTANTS
    MaxSessions = 3
    MaxDatagrams = 4
    MaxReplies = 1
    UpstreamMayFail = TRUE
    CreateMayFail = TRUE
SPECIFICATION FairSpec
INVARIANTS
    WrittenInOrder
    LiveIsTabled
PROPERTY
    QueuedIsWritten
CHECK_DEADLOCK FALSE
