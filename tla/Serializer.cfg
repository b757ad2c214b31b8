CONSTANTS
    Callers <- MCCallers
    Reports <- MCReports
    MaxReports = 2


SPECIFICATION Spec

INVARIANTS
    JsonParses
    ClonesMatch
    CsvColumns

PROPERTIES
    FailedChangesNothing
    RollbackRestores

CHECK_DEADLOCK FALSE
