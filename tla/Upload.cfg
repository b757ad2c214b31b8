CONSTANTS
    Half = 16
    ClientIsn = 20
    TotalBytes = 2
    MaxLen = 2
    MaxQueued = 2
    MaxExtras = 3
    SocketFills = TRUE
    KeepAlives = TRUE
    MayEnd = TRUE
    MayFin = TRUE
    FinPushes = TRUE
SPECIFICATION FairSpec
INVARIANTS
    IntactIsPrefix
    AckedIsTaken
PROPERTIES
    AllWritten
    WriterComesToRest
CHECK_DEADLOCK FALSE
