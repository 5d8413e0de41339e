SPECIFICATION Spec
CONSTANTS
    p1 = p1
    p2 = p2
    k1 = k1
    k2 = k2
    c1 = c1
    c2 = c2
    h1 = h1
    Procs = {p1, p2}
    Keys = {k1, k2}
    Calls = {c1, c2}
    Admins = {c2}
    Probers = {c2}
    Checkers = {h1}
    ProcOf <- MCProcOf
    MinRequests = 2
    Recovery = 2
INVARIANT
    TypeOK
PROPERTY
    NotStuck
CHECK_DEADLOCK FALSE
