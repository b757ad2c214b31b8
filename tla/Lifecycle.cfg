CONSTANTS
    MaxConns = 2
    MaxSessions = 3
    MaxQueued = 2
    MaxPushes = 0
    ConnectMayFail = TRUE
    CreateMayFail = TRUE
    MayReset = TRUE
    BareFin = TRUE
SPECIFICATION Spec
INVARIANTS
    LiveIsTabled
    NeverCrossed
CHECK_DEADLOCK FALSE
