CONSTANTS
    MaxConns = 2
    MaxSessions = 2
    MaxQueued = 2
    MaxPushes = 1
    ConnectMayFail = FALSE
    CreateMayFail = FALSE
    MayReset = FALSE
    BareFin = FALSE
SPECIFICATION FairSpec
INVARIANT
    NoZombie
PROPERTIES
    ConnectSettles
CHECK_DEADLOCK FALSE
