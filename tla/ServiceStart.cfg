CONSTANTS
    MaxLoops = 1
    MaxNetChanges = 0
    MaxChanges = 0
    Packets <- MCPackets
    Choices <- MCChoices
    EstablishMayFail = FALSE
    RegisterMayFail = FALSE
    TunMayEnd = FALSE
SPECIFICATION Spec
INVARIANT
    BlockedIsBlocked
CHECK_DEADLOCK FALSE
