SPECIFICATION Spec
CONSTANTS
    b1 = b1
    b2 = b2
    b3 = b3
    Records = {b1, b2, b3}
    OrgRecords = {b1}
    MaxQueue = 2
    MaxRetry = 2
    BatchSize = 2
    RetryLimit = 1
    MaxFaults = 3
INVARIANTS
    TypeOK
    NothingForgotten
    CountedOnce
PROPERTIES
    EventuallySettled
    RetriesRunDown
CHECK_DEADLOCK FALSE
