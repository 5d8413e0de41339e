SPECIFICATION Spec
CONSTANTS
    Keys = {k1}
    Requests = {r1, r2}
    None = None
    Tls = TRUE
    PlainFallback = TRUE
    Ttl = 2
    MaxChanges = 2
    MaxFaults = 2
INVARIANTS
    TypeOK
    CachedKeysAgree
PROPERTIES
    StaleKeysEnd
    ImplementsLink
CHECK_DEADLOCK FALSE
