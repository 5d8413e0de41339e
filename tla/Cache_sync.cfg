SPECIFICATION Spec
CONSTANTS
    p1 = p1
    p2 = p2
    t1 = t1
    t2 = t2
    u1 = u1
    Procs = {p1, p2}
    Tasks = {t1, t2, u1}
    Owner <- MCOwner
    Boot <- MCBoot
    MaxChanges = 2
    MaxFaults = 1
INVARIANTS
    TypeOK
    QuietCachesAgree
PROPERTIES
    EventuallyAgree
    RefreshesRunDown
CHECK_DEADLOCK FALSE
