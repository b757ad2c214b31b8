CONSTANTS
    Half = 16
    ClientIsn = 20
    TotalBytes = 4
    MaxLen = 2
    MaxQueued = 2
    MaxExtras = 0
    SocketFills = TRUE
    KeepAlives = FALSE
    MayEnd = FALSE
    MayFin = FALSE
    FinPushes = TRUE
SPECIFICATION Spec
INVARIANT
    WrittenIsPrefix
CHECK_DEADLOCK FALSE
