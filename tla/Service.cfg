CONSTANTS
    MaxLoops = 2
    MaxNetChanges = 2
    MaxChanges = 1
    Packets <- MCPackets
    Choices <- MCChoices
    EstablishMayFail = TRUE
    RegisterMayFail = TRUE
    TunMayEnd = TRUE
SPECIFICATION FairSpec
INVARIANTS
    RunningIsWanted
    ServiceInv
    DecidesAsDocumented
PROPERTIES
    LoopsEnd
    RoutesFollow
CHECK_DEADLOCK FALSE
