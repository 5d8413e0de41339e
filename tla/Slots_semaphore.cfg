SPECIFICATION Spec
CONSTANTS
    r1 = r1
    r2 = r2
    r3 = r3
    c1 = c1
    c2 = c2
    k1 = k1
    k2 = k2
    l1 = l1
    l2 = l2
    NoLock = NoLock
    Requests = {r1, r2}
    Channels = {c1, c2}
    Keys = {k1, k2}
    Locks = {l1, l2}
    MaxKeys = 2
    Candidates <- MCOneChannel
    KeysOf <- MCKeysOf
    KeyLimit <- MCKeyLimit
    Sequential = {c1}
    LockOf <- MCNoPackage
    LockLimit <- MCLockLimit
    Markable = {}
INVARIANT
    SemaphoreHolds
CHECK_DEADLOCK FALSE
