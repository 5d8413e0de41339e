------------------------------ MODULE Payments ------------------------------
(***************************************************************************)
(* What credits the user of Subscriptions besides refills: payment orders, *)
(* which providers call back about as often as they like                   *)
(* (services/paymentCallback.ts, routes/payment.ts) and administrators may *)
(* complete by hand (routes/admin/newApiUserCompat.ts), and redemption     *)
(* codes, by the transaction of routes/redemptions.ts or the separate      *)
(* statements of routes/admin/userSelfService.ts.                          *)
(***************************************************************************)
EXTENDS Subscriptions

CONSTANTS
    Topups,          \* orders that buy quota
    PackageOf,
    Codes,
    Count            \* how often each code may be used

\* Orders the customer has paid: no provider calls back about another.  The row
\* of an order that buys a package is locked by the one transaction that has
\* claimed it, so the order stands for that transaction.
PackageOrders == Callbacks

Orders == Topups \union PackageOrders

\* What identifies a request, an order and a code is never the same thing, and
\* an order that buys a package names one.
ASSUME PaymentConstants ==
    /\ IsFiniteSet(Requests)
    /\ Requests \intersect Callbacks = {}
    /\ Topups \intersect Callbacks = {}
    /\ Codes \intersect Orders = {}
    /\ \A o \in PackageOrders : PackageOf[o] \in Packages

VARIABLES
    complete,  \* orders no longer pending
    used,      \* redemptions.used_count
    live,      \* codes whose status is 1
    credited,  \* history: how often each order was credited
    redeemed,  \* history: how often each code was credited
    lost       \* history: claims whose credit died with their request

payVars == <<complete, used, live, credited, redeemed, lost>>
orderVars == <<complete, credited>>
codeVars == <<used, live, redeemed>>

vars == <<subVars, payVars>>

Init ==
    /\ SubInit
    /\ complete = {}
    /\ used = [c \in Codes |-> 0]
    /\ live = Codes
    /\ credited = [o \in Orders |-> 0]
    /\ redeemed = [c \in Codes |-> 0]
    /\ lost = [x \in Orders \union Codes |-> 0]

Pending(o) == o \in Orders \ complete

\* mutant: the callback does not look at the status of the order
TopupCallbackAgain(o) ==
    /\ o \in Topups
    /\ credited[o] < 2
    /\ complete' = complete \union {o}
    /\ credited' = [credited EXCEPT ![o] = @ + 1]
    /\ UNCHANGED <<subVars, codeVars, lost>>

\* mutant: a callback that comes late is refused
TopupCallbackInTime(o) ==
    /\ o \in Topups
    /\ Pending(o) /\ now < MaxTime
    /\ complete' = complete \union {o}
    /\ credited' = [credited EXCEPT ![o] = @ + 1]
    /\ UNCHANGED <<subVars, codeVars, lost>>

\* One transaction claims the pending order and credits it; a callback about
\* any other order finds no row and changes nothing.
TopupCallback(o) ==
    /\ o \in Topups
    /\ Pending(o)
    /\ complete' = complete \union {o}
    /\ credited' = [credited EXCEPT ![o] = @ + 1]
    /\ UNCHANGED <<subVars, codeVars, lost>>

\* The transaction of a package order takes back its claim when binding throws.
PackageCallback(o) ==
    /\ job[o] = Idle
    /\ o \in PackageOrders
    /\ Pending(o)
    /\ MayBind(PackageOf[o])
    /\ BeginBind(o, PackageOf[o])
    /\ UNCHANGED <<now, group, sub, ops, calendarVars, tangled, payVars>>

PackagePaid(o) ==
    /\ CommitBind(o)
    /\ complete' = complete \union {o}
    /\ credited' = [credited EXCEPT ![o] = @ + 1]
    /\ UNCHANGED <<codeVars, lost>>

\* An administrator's completion claims and credits in two statements.
AdminComplete(q, o) ==
    /\ job[q] = Idle
    /\ Operation
    /\ o \in Topups /\ Pending(o)
    /\ complete' = complete \union {o}
    /\ job' = [job EXCEPT ![q] = [step |-> "credit", of |-> o]]
    /\ UNCHANGED <<now, group, sub, calendarVars, groupVars,
                   credited, codeVars, lost>>

AdminCredit(q) ==
    /\ job[q].step = "credit"
    /\ credited' = [credited EXCEPT ![job[q].of] = @ + 1]
    /\ job' = [job EXCEPT ![q] = Idle]
    /\ UNCHANGED <<now, group, sub, ops, calendarVars, groupVars,
                   complete, codeVars, lost>>

-----------------------------------------------------------------------------
(* Codes *)

\* One transaction claims one use of the code and credits it.
RedeemInTransaction(c) ==
    /\ Operation
    /\ c \in live
    /\ used' = [used EXCEPT ![c] = @ + 1]
    /\ live' = IF used'[c] >= Count[c] THEN live \ {c} ELSE live
    /\ redeemed' = [redeemed EXCEPT ![c] = @ + 1]
    /\ UNCHANGED <<now, group, sub, job, calendarVars, groupVars, orderVars, lost>>

RedeemRead(q, c) ==
    /\ Operation
    /\ job[q] = Idle
    /\ c \in live /\ used[c] < Count[c]
    /\ job' = [job EXCEPT ![q] = [step |-> "read", of |-> c]]
    /\ UNCHANGED <<now, group, sub, calendarVars, groupVars, payVars>>

RedeemUse(q) ==
    /\ job[q].step = "read"
    /\ used' = [used EXCEPT ![job[q].of] = @ + 1]
    /\ job' = [job EXCEPT ![q].step = "used"]
    /\ UNCHANGED <<now, group, sub, ops, calendarVars, groupVars,
                   orderVars, live, redeemed, lost>>

RedeemCredit(q) ==
    /\ job[q].step = "used"
    /\ redeemed' = [redeemed EXCEPT ![job[q].of] = @ + 1]
    /\ job' = [job EXCEPT ![q] = Idle]
    /\ UNCHANGED <<now, group, sub, ops, calendarVars, groupVars,
                   orderVars, used, live, lost>>

-----------------------------------------------------------------------------

\* A request dies between two of its statements, or one of them throws: an
\* open transaction is rolled back, what was committed stays.
Die(q) ==
    /\ Operation
    /\ job[q] # Idle
    /\ lost' = IF job[q].step \in {"credit", "used"}
               THEN [lost EXCEPT ![job[q].of] = @ + 1] ELSE lost
    /\ job' = [job EXCEPT ![q] = Idle]
    /\ UNCHANGED <<now, group, sub, calendarVars, groupVars,
                   orderVars, codeVars>>

Settle(q) ==
    \/ (AdminBound(q) \/ FinishRefill(q)) /\ UNCHANGED payVars
    \/ AdminCredit(q)
    \/ RedeemUse(q)
    \/ RedeemCredit(q)

Next ==
    \/ SubNext /\ UNCHANGED payVars
    \/ \E o \in Orders : TopupCallback(o)
    \/ \E o \in PackageOrders : PackageCallback(o) \/ PackagePaid(o)
    \/ \E c \in Codes : RedeemInTransaction(c)
    \/ \E q \in Requests :
          \/ \E o \in Topups : AdminComplete(q, o)
          \/ AdminCredit(q)
          \/ \E c \in Codes : RedeemRead(q, c)
          \/ RedeemUse(q)
          \/ RedeemCredit(q)
    \/ \E a \in Actors : Die(a)

\* Requests go on; providers repeat a callback until it succeeds.
Fairness ==
    /\ \A q \in Requests : WF_vars(Settle(q))
    /\ \A o \in Topups : WF_vars(TopupCallback(o))
    /\ \A o \in PackageOrders : WF_vars(PackageCallback(o)) /\ WF_vars(PackagePaid(o))

Spec == Init /\ [][Next]_vars /\ Fairness

-----------------------------------------------------------------------------
(* Properties *)

Jobs ==
    {Idle}
    \union [step : {"bind"}, pkg : Packages, group : Groups]
    \union [step : {"credit"}, of : Topups]
    \union [step : {"read", "used"}, of : Codes]

RefillJob(j) ==
    /\ DOMAIN j = {"step", "due"} /\ j.step = "refill"
    /\ \A r \in j.due : r.row \in Ids /\ r.cycles \in Nat \ {0}

Rows ==
    [status : {"active", "expired", "cancelled", "deleted"},
     pkg : Packages, start : Nat, end : Nat, last : Nat,
     prev : Groups \union {NoGroup}]

TypeOK ==
    /\ now \in Nat
    /\ group \in Groups
    /\ sub \in Seq(Rows)
    /\ \A q \in Actors : job[q] \in Jobs \/ RefillJob(job[q])
    /\ ops \in Nat
    /\ refilled \in [Ids -> Nat]
    /\ stale \subseteq Ids /\ tangled \in BOOLEAN /\ crowded \subseteq Packages
    /\ complete \subseteq Orders
    /\ used \in [Codes -> Nat] /\ redeemed \in [Codes -> Nat]
    /\ live \subseteq Codes
    /\ credited \in [Orders -> Nat]
    /\ lost \in [Orders \union Codes -> Nat]

InFlight(step, x) == {q \in Requests : job[q].step = step /\ job[q].of = x}

OrdersAreCredited ==
    \A o \in Orders :
        credited[o] + Cardinality(InFlight("credit", o)) + lost[o]
            = IF o \in complete THEN 1 ELSE 0

UsesAreCredited ==
    \A c \in Codes :
        used[c] = redeemed[c] + Cardinality(InFlight("used", c)) + lost[c]

\* An order is credited exactly once when it is no longer pending, and every
\* counted use of a code once, except for the credits still under way and those
\* that died between the two statements of an administrator's completion or of
\* /self/topup; callbacks repeat, overlap and fail.
ClaimsAreCredited == OrdersAreCredited /\ UsesAreCredited

\* Each refill is paid for the resets of the calendar between the start of
\* the subscription and its last_reset_at, once each, and for none after its
\* end; only a request that worked it out from a last_reset_at which another
\* one has moved meanwhile pays twice.
RefillsFollowCalendar ==
    \A s \in Ids \ stale :
        LET policy == ResolveResetPolicy(Package[sub[s].pkg])
        IN  sub[s].status # "deleted" =>
                /\ refilled[s] = Cardinality(
                       ResetInstants(sub[s].start, sub[s].last, policy))
                /\ sub[s].last <= sub[s].end

\* While a subscription that upgrades is active, the user is in the group of
\* one that is; when none is active any more, in the group before any.  It fails
\* only after a row that changed the group was outlived by a later one, deleted
\* while it ran or ended twice, or a binding read the group before it changed.
GroupFollowsSubscriptions ==
    LET upgrading == Active(sub) \intersect Upgraded(sub)
    IN  ~tangled =>
            IF upgrading = {} THEN group = BaseGroup
            ELSE group \in {Upgrade(sub[s].pkg) : s \in upgrading}

\* The purchase limit of a package holds, unless two transactions that bound it
\* overlapped: both may count the purchases before either inserts its own.
PurchaseLimit ==
    \A p \in Packages \ crowded :
        Package[p].limit > 0 => Cardinality(Purchases(p)) <= Package[p].limit

\* The rows of a user and what follows from them stay within the rules of the
\* packages, in whatever order they are bound, expire and are cancelled.
BindingsHold == GroupFollowsSubscriptions /\ PurchaseLimit

\* A paid order is settled although callbacks are lost and requests die, or
\* its package can no longer be bound to the user.
PaidOrdersSettle ==
    \A o \in Orders :
        <>(o \in complete \/ (o \in PackageOrders /\ ~MayBind(PackageOf[o])))
=============================================================================
