CONSTANTS
    Sessions = {s1, s2, s3}
SPECIFICATION FairSpec
INVARIANTS
    NoRegisterWhileSelecting
    NoLostWakeup
    NoCircularWait
PROPERTIES
    EventsServed
    ShutdownStops
