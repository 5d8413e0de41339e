CONSTANTS
    t1 = t1
    b1 = b1
    Tasks = {t1}
    Batches = {b1}
    RetryLimit = 1
    MaxItems = 1
    MaxFaults = 3
SPECIFICATION Spec
INVARIANTS
    TypeOK
    TasksRunOnce
    CancelHolds
    NothingForgotten
PROPERTIES
    EverythingEnds
CHECK_DEADLOCK FALSE
