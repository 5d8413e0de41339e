SPECIFICATION Spec
CONSTANTS
    r1 = r1
    r2 = r2
    r3 = r3
    u1 = u1
    t1 = t1
    t2 = t2
    g1 = g1
    g2 = g2
    k1 = k1
    NoKey = NoKey
    Requests = {r1, r2}
    Users = {u1}
    Tokens = {t1, t2}
    Groups = {g1, g2}
    Keys = {k1}
    UserOf <- MCUserOf
    TokenOf <- MCTokenOf
    KeyOf <- MCKeyOf
    HomeGroup <- MCHomeGroup
    AutoTokens = {r2}
    AutoGroups <- MCAutoGroups
    Routes <- MCRoutes
    Unlimited = {}
    InitQuota <- MCQuota
    InitRemain <- MCMetered
    Estimate <- MCEstimate
    Costs = {1, 4}
    Faults = {"ledgerFail", "saveFail", "lateThrow"}
INVARIANTS
    TypeOK
    ChargedOnce
    AccountsHold
PROPERTIES
    RepeatIsReplayed
    EveryRequestEnds
    ChannelsRunOut
    ImplementsChargeLedger
CHECK_DEADLOCK FALSE
