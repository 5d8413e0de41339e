CONSTANTS
    gold = gold
    silver = silver
    vip = vip
    base = base
    t1 = t1
    o1 = o1
    o2 = o2
    c1 = c1
    q1 = q1
    q2 = q2
    none = none
    UnitLength <- MCUnitLength
    HourLength = 1
    CycleCap = 1
    Requests = {q1, q2}
    Callbacks = {o1, o2}
    Packages = {gold, silver}
    Package <- MCPackage
    BaseGroup = base
    NoGroup = none
    MaxRows = 4
    MaxOps = 2
    MaxTime = 3
    Topups = {t1}
    PackageOf <- MCPackageOf
    Codes = {c1}
    Count <- MCCount
SPECIFICATION Spec
INVARIANTS
    TypeOK
    ClaimsAreCredited
    RefillsFollowCalendar
    BindingsHold
PROPERTIES
    PaidOrdersSettle
CHECK_DEADLOCK FALSE
