CONSTANTS
    Flows = {1, 2}
    BatchSize = 1
    Apps = {a}
    Sessions = {1}
    Scans = {n}
    MaxTime = 2
    MaxChanges = 3
    MaxIds = 2
SPECIFICATION FairSpec
INVARIANTS
    SyncedIsUploaded
    DoneIsUploaded
PROPERTIES
    OncePerPass
    EverythingArrives
CHECK_DEADLOCK FALSE
