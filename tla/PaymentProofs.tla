--------------------------- MODULE PaymentProofs ----------------------------
(***************************************************************************)
(* For any number of requests, orders, packages and codes, and however     *)
(* often providers call back: every claim is credited once.  For any rows  *)
(* of any packages: types, every refill is paid once for each reset of the *)
(* calendar, which countResetCycles counts, and the purchase limit and the *)
(* user's group follow the rows.                                           *)
(***************************************************************************)
EXTENDS Payments, FiniteSetTheorems, TLAPS

\* What a request that credits something is doing.
CreditJob == [step : {"credit"}, of : Topups]

CodeJob == [step : {"read", "used"}, of : Codes]

Elsewhere(j) == j = Idle \/ j.step \in {"bind", "refill"}

PayTypes ==
    /\ complete \subseteq Orders
    /\ used \in [Codes -> Nat] /\ redeemed \in [Codes -> Nat]
    /\ credited \in [Orders -> Nat]
    /\ lost \in [Orders \union Codes -> Nat]

JobInv ==
    /\ job = [a \in Actors |-> job[a]]
    /\ \A q \in Requests :
          Elsewhere(job[q]) \/ job[q] \in CreditJob \/ job[q] \in CodeJob
    /\ \A o \in PackageOrders :
          job[o] = Idle \/ (job[o].step = "bind" /\ o \notin complete)

Doing(j, step, x) == j.step = step /\ j.of = x

InFlightOf(step, x) == Cardinality(InFlight(step, x))

\* The two halves of ClaimsAreCredited at one order and at one code.
OrderInv(o) ==
    credited[o] + InFlightOf("credit", o) + lost[o] = IF o \in complete THEN 1 ELSE 0

CodeInv(c) == used[c] = redeemed[c] + InFlightOf("used", c) + lost[c]

IInv ==
    /\ PayTypes
    /\ JobInv
    /\ \A o \in Orders : OrderInv(o)
    /\ \A c \in Codes : CodeInv(c)

-----------------------------------------------------------------------------
(* Who is under way with a credit.                                         *)

LEMMA FlightFinite ==
    ASSUME NEW s, NEW x
    PROVE  IsFiniteSet(InFlight(s, x)) /\ InFlightOf(s, x) \in Nat
<1>1. InFlight(s, x) \subseteq Requests BY DEF InFlight
<1>2. IsFiniteSet(InFlight(s, x)) BY <1>1, PaymentConstants, FS_Subset
<1>. QED BY <1>2, FS_CardinalityType DEF InFlightOf

\* A request that takes up j instead enters or leaves a flight.
FlightFollowsAt(q, j, s, x) ==
    /\ InFlightOf(s, x) \in Nat /\ InFlightOf(s, x)' \in Nat
    /\ (Doing(job[q], s, x) <=> Doing(j, s, x))
          => InFlightOf(s, x)' = InFlightOf(s, x)
    /\ ~Doing(job[q], s, x) /\ Doing(j, s, x)
          => InFlightOf(s, x)' = InFlightOf(s, x) + 1
    /\ Doing(job[q], s, x) /\ ~Doing(j, s, x)
          => InFlightOf(s, x) = InFlightOf(s, x)' + 1

FlightFollows(q, j) == \A s, x : FlightFollowsAt(q, j, s, x)

LEMMA FlightChanges ==
    ASSUME JobInv, NEW q \in Requests, NEW j, job' = [job EXCEPT ![q] = j]
    PROVE  FlightFollows(q, j)
<1>. SUFFICES ASSUME NEW s, NEW x PROVE FlightFollowsAt(q, j, s, x)
  BY DEF FlightFollows
<1> DEFINE F == InFlight(s, x)
<1> DEFINE was == Doing(job[q], s, x)
<1> DEFINE is == Doing(j, s, x)
<1>1. job'[q] = j /\ \A r \in Requests \ {q} : job'[r] = job[r]
  BY DEF JobInv, Actors
<1>2. IsFiniteSet(F) /\ Cardinality(F) \in Nat
  BY FlightFinite DEF InFlightOf
<1>3. q \in F <=> was BY DEF InFlight, Doing
<1>4. F' = IF is THEN F \union {q} ELSE F \ {q} BY <1>1 DEF InFlight, Doing
<1>5. InFlightOf(s, x) = Cardinality(F) /\ InFlightOf(s, x)' = Cardinality(F')
  BY DEF InFlightOf
<1>. HIDE DEF F, was, is
<1>6. CASE is
  <2>1. F' = F \union {q} BY <1>4, <1>6
  <2>2. Cardinality(F \union {q})
           = IF q \in F THEN Cardinality(F) ELSE Cardinality(F) + 1
    BY <1>2, FS_AddElement
  <2>. QED BY <1>2, <1>3, <1>5, <1>6, <2>1, <2>2 DEF was, is, FlightFollowsAt
<1>7. CASE ~is
  <2>1. F' = F \ {q} BY <1>4, <1>7
  <2>2. Cardinality(F \ {q})
           = IF q \in F THEN Cardinality(F) - 1 ELSE Cardinality(F)
    BY <1>2, FS_RemoveElement
  <2>3. Cardinality(F \ {q}) \in Nat
    BY <1>2, FS_RemoveElement, FS_CardinalityType
  <2>. QED BY <1>2, <1>3, <1>5, <1>7, <2>1, <2>2, <2>3 DEF was, is, FlightFollowsAt
<1>. QED BY <1>6, <1>7

\* The transaction of a callback is not a request.
LEMMA FlightStays ==
    ASSUME \A q \in Requests : job'[q] = job[q], NEW s, NEW x
    PROVE  InFlightOf(s, x)' = InFlightOf(s, x)
<1>1. InFlight(s, x)' = InFlight(s, x) BY DEF InFlight
<1>. QED BY <1>1 DEF InFlightOf

LEMMA JobsKeep ==
    ASSUME JobInv, NEW a \in Actors, NEW j, job' = [job EXCEPT ![a] = j],
           a \in Requests => Elsewhere(j) \/ j \in CreditJob \/ j \in CodeJob,
           a \in PackageOrders =>
              j = Idle \/ (j.step = "bind" /\ a \notin complete'),
           \A o \in PackageOrders \ {a} : o \in complete' => o \in complete
    PROVE  JobInv'
<1>1. job' = [b \in Actors |-> IF b = a THEN j ELSE job[b]] BY DEF JobInv
<1>2. job' = [b \in Actors |-> job'[b]] BY <1>1
<1>3. \A b \in Actors : job'[b] = IF b = a THEN j ELSE job[b] BY <1>1
<1>4. ASSUME NEW q \in Requests
      PROVE  Elsewhere(job'[q]) \/ job'[q] \in CreditJob \/ job'[q] \in CodeJob
  <2>1. q \in Actors BY DEF Actors
  <2>. QED BY <1>3, <2>1 DEF JobInv
<1>5. ASSUME NEW o \in PackageOrders
      PROVE  job'[o] = Idle \/ (job'[o].step = "bind" /\ o \notin complete')
  <2>1. o \in Actors BY DEF Actors, PackageOrders
  <2>. QED BY <1>3, <2>1 DEF JobInv
<1>. QED BY <1>2, <1>4, <1>5 DEF JobInv, Elsewhere, CreditJob, CodeJob, Idle

-----------------------------------------------------------------------------
(* The steps that credit nobody.                                           *)

LEMMA QuietKeeps ==
    ASSUME IInv, UNCHANGED payVars, JobInv',
           \A s \in {"credit", "used"} : \A x \in Orders \union Codes :
              InFlightOf(s, x)' = InFlightOf(s, x)
    PROVE  IInv'
<1>1. UNCHANGED <<complete, used, credited, redeemed, lost>> BY DEF payVars
<1>2. \A o \in Orders : OrderInv(o)' BY <1>1 DEF IInv, OrderInv
<1>3. \A c \in Codes : CodeInv(c)' BY <1>1 DEF IInv, CodeInv
<1>. QED BY <1>1, <1>2, <1>3 DEF IInv, PayTypes

LEMMA StillStep == ASSUME IInv, UNCHANGED payVars, job' = job PROVE IInv'
<1>1. JobInv' BY DEF IInv, JobInv, Elsewhere, CreditJob, CodeJob, payVars
<1>. QED BY <1>1, FlightStays, QuietKeeps

\* A request begins or ends something that is not about a credit.
LEMMA AsideStep ==
    ASSUME IInv, UNCHANGED payVars, NEW q \in Requests, NEW j,
           job' = [job EXCEPT ![q] = j],
           Elsewhere(job[q]) \/ job[q].step = "read",
           Elsewhere(j) \/ (j.step = "read" /\ j \in CodeJob)
    PROVE  IInv'
<1>1. q \in Actors /\ q \notin PackageOrders
  BY PaymentConstants DEF Actors, PackageOrders
<1>2. JobInv' BY <1>1, JobsKeep DEF IInv, payVars
<1>3. job[q].step \notin {"credit", "used"} /\ j.step \notin {"credit", "used"}
  BY DEF Elsewhere, Idle
<1>4. ASSUME NEW s \in {"credit", "used"}, NEW x \in Orders \union Codes
      PROVE  InFlightOf(s, x)' = InFlightOf(s, x)
  <2>1. JobInv BY DEF IInv
  <2>2. ~Doing(job[q], s, x) /\ ~Doing(j, s, x) BY <1>3 DEF Doing
  <2>3. FlightFollows(q, j) BY <2>1, FlightChanges
  <2>. QED BY <2>2, <2>3 DEF FlightFollows, FlightFollowsAt
<1>. QED BY <1>2, <1>4, QuietKeeps

LEMMA SubStep == ASSUME IInv, SubNext, UNCHANGED payVars PROVE IInv'
<1>1. CASE job' = job BY <1>1, StillStep
<1>2. ASSUME NEW q \in Requests, NEW p \in Packages, AdminBind(q, p) PROVE IInv'
  <2> DEFINE j == [step |-> "bind", pkg |-> p, group |-> group]
  <2>1. job' = [job EXCEPT ![q] = j] /\ job[q] = Idle
    BY <1>2 DEF AdminBind, BeginBind
  <2>2. Elsewhere(job[q]) /\ Elsewhere(j) BY <2>1 DEF Elsewhere
  <2>. HIDE DEF j
  <2>. QED BY <2>1, <2>2, AsideStep
<1>3. ASSUME NEW q \in Requests, AdminBound(q) \/ FinishRefill(q) PROVE IInv'
  <2>1. job' = [job EXCEPT ![q] = Idle] /\ job[q].step \in {"bind", "refill"}
    BY <1>3 DEF AdminBound, CommitBind, FinishRefill
  <2>2. Elsewhere(job[q]) /\ Elsewhere(Idle) BY <2>1 DEF Elsewhere
  <2>. QED BY <2>1, <2>2, AsideStep
<1>4. ASSUME NEW q \in Requests, StartRefill(q) PROVE IInv'
  <2> DEFINE j == [step |-> "refill", due |-> DueRefills]
  <2>1. job' = [job EXCEPT ![q] = j] /\ job[q] = Idle BY <1>4 DEF StartRefill
  <2>2. Elsewhere(job[q]) /\ Elsewhere(j) BY <2>1 DEF Elsewhere
  <2>. HIDE DEF j
  <2>. QED BY <2>1, <2>2, AsideStep
<1>5. Tick \/ SyncBatch \/ (\E s \in Ids : Cancel(s) \/ Delete(s)) => job' = job
  BY DEF Tick, SyncBatch, Cancel, Delete
<1>. QED BY <1>1, <1>2, <1>3, <1>4, <1>5 DEF SubNext

LEMMA ReadStep ==
    ASSUME IInv, NEW q \in Requests, NEW c \in Codes, RedeemRead(q, c) PROVE IInv'
<1> DEFINE j == [step |-> "read", of |-> c]
<1>1. job' = [job EXCEPT ![q] = j] /\ job[q] = Idle /\ UNCHANGED payVars
  BY DEF RedeemRead
<1>2. Elsewhere(job[q]) /\ j.step = "read" /\ j \in CodeJob
  BY <1>1 DEF Elsewhere, CodeJob
<1>. HIDE DEF j
<1>. QED BY <1>1, <1>2, AsideStep

\* The transaction of a package order begins or rolls back.
LEMMA CallbackStep ==
    ASSUME IInv, UNCHANGED payVars, NEW o \in PackageOrders, NEW j,
           job' = [job EXCEPT ![o] = j],
           j = Idle \/ (j.step = "bind" /\ o \notin complete)
    PROVE  IInv'
<1>1. o \in Actors /\ o \notin Requests
  BY PaymentConstants DEF Actors, PackageOrders
<1>2. JobInv' BY <1>1, JobsKeep DEF IInv, payVars
<1>3. \A q \in Requests : job'[q] = job[q] BY <1>1 DEF IInv, JobInv, Actors
<1>. QED BY <1>2, <1>3, FlightStays, QuietKeeps

LEMMA PackageStep ==
    ASSUME IInv, NEW o \in PackageOrders, PackageCallback(o) PROVE IInv'
<1> DEFINE j == [step |-> "bind", pkg |-> PackageOf[o], group |-> group]
<1>1. job' = [job EXCEPT ![o] = j] /\ o \notin complete /\ UNCHANGED payVars
  BY DEF PackageCallback, BeginBind, Pending
<1>2. j.step = "bind" OBVIOUS
<1>. HIDE DEF j
<1>. QED BY <1>1, <1>2, CallbackStep

-----------------------------------------------------------------------------
(* Orders.                                                                 *)

LEMMA OrderStep ==
    ASSUME IInv, NEW o \in Orders, NEW n \in Nat, NEW m \in Nat, JobInv',
           UNCHANGED <<used, redeemed>>,
           complete' \in {complete, complete \union {o}},
           credited' = [credited EXCEPT ![o] = @ + n],
           lost' = [lost EXCEPT ![o] = @ + m],
           OrderInv(o)',
           \A x \in Orders \ {o} : InFlightOf("credit", x)' = InFlightOf("credit", x),
           \A x \in Codes : InFlightOf("used", x)' = InFlightOf("used", x)
    PROVE  IInv'
<1>1. PayTypes /\ PayTypes'
  <2>1. PayTypes BY DEF IInv
  <2>2. credited' \in [Orders -> Nat] BY <2>1 DEF PayTypes
  <2>3. lost' \in [Orders \union Codes -> Nat] BY <2>1 DEF PayTypes
  <2>. QED BY <2>1, <2>2, <2>3 DEF PayTypes
<1>2. ASSUME NEW x \in Orders \ {o} PROVE OrderInv(x)'
  BY <1>1, <1>2 DEF IInv, OrderInv, PayTypes
<1>3. ASSUME NEW c \in Codes PROVE CodeInv(c)'
  <2>1. c # o BY PaymentConstants
  <2>. QED BY <1>1, <2>1 DEF IInv, CodeInv, PayTypes
<1>. QED BY <1>1, <1>2, <1>3 DEF IInv

LEMMA PaidStep ==
    ASSUME IInv, NEW o \in Orders, o \notin complete, job' = job \/
               (o \in PackageOrders /\ job' = [job EXCEPT ![o] = Idle]),
           complete' = complete \union {o},
           credited' = [credited EXCEPT ![o] = @ + 1],
           o \in PackageOrders => job' = [job EXCEPT ![o] = Idle],
           UNCHANGED <<used, redeemed, lost>>
    PROVE  IInv'
<1>1. PayTypes /\ JobInv /\ OrderInv(o) BY DEF IInv
<1>2. \A q \in Requests : job'[q] = job[q]
  <2>1. o \in PackageOrders => o \notin Requests
    BY PaymentConstants DEF PackageOrders
  <2>. QED BY <1>1, <2>1 DEF JobInv, Actors
<1>3. JobInv'
  <2>1. CASE o \in PackageOrders
    <3>1. o \in Actors /\ o \notin Requests
      BY <2>1, PaymentConstants DEF Actors, PackageOrders
    <3>. QED BY <1>1, <2>1, <3>1, JobsKeep
  <2>2. CASE o \notin PackageOrders
    BY <1>1, <2>2 DEF JobInv, Elsewhere, CreditJob, CodeJob, Idle
  <2>. QED BY <2>1, <2>2
<1>4. \A s, x : InFlightOf(s, x)' = InFlightOf(s, x) BY <1>2, FlightStays
<1>5. OrderInv(o)'
  <2>1. InFlightOf("credit", o) \in Nat BY FlightFinite
  <2>2. credited'[o] = credited[o] + 1 BY <1>1 DEF PayTypes
  <2>3. credited[o] \in Nat /\ lost[o] \in Nat BY <1>1 DEF PayTypes
  <2>. QED BY <1>1, <1>4, <2>1, <2>2, <2>3 DEF OrderInv
<1>6. lost' = [lost EXCEPT ![o] = @ + 0]
  BY <1>1 DEF PayTypes
<1>. QED BY <1>3, <1>4, <1>5, <1>6, OrderStep

LEMMA AdminCompleteStep ==
    ASSUME IInv, NEW q \in Requests, NEW o \in Topups, AdminComplete(q, o)
    PROVE  IInv'
<1> DEFINE j == [step |-> "credit", of |-> o]
<1>1. /\ job' = [job EXCEPT ![q] = j] /\ job[q] = Idle /\ o \notin complete
      /\ complete' = complete \union {o}
      /\ UNCHANGED <<credited, used, redeemed, lost>>
  BY DEF AdminComplete, Pending, codeVars
<1>2. PayTypes /\ JobInv /\ OrderInv(o) /\ o \in Orders BY DEF IInv, Orders
<1>3. j.step = "credit" /\ j.of = o /\ j \in CreditJob BY DEF CreditJob
<1>. HIDE DEF j
<1>4. q \in Actors /\ q \notin PackageOrders /\ o \notin PackageOrders
  BY PaymentConstants DEF Actors, PackageOrders
<1>5. JobInv' BY <1>1, <1>2, <1>3, <1>4, JobsKeep
<1>6. job[q].step = "idle" BY <1>1 DEF Idle
<1>7. FlightFollows(q, j) BY <1>1, <1>2, FlightChanges
<1>8. InFlightOf("credit", o)' = InFlightOf("credit", o) + 1
  BY <1>7, <1>1, <1>2, <1>3, <1>6 DEF FlightFollows, FlightFollowsAt, Doing
<1>9. \A x \in Orders \ {o} : InFlightOf("credit", x)' = InFlightOf("credit", x)
  BY <1>7, <1>1, <1>2, <1>3, <1>6 DEF FlightFollows, FlightFollowsAt, Doing
<1>10. \A x \in Codes : InFlightOf("used", x)' = InFlightOf("used", x)
  BY <1>7, <1>1, <1>2, <1>3, <1>6 DEF FlightFollows, FlightFollowsAt, Doing
<1>11. OrderInv(o)'
  <2>1. InFlightOf("credit", o) \in Nat BY FlightFinite
  <2>2. credited[o] \in Nat /\ lost[o] \in Nat BY <1>2 DEF PayTypes
  <2>. QED BY <1>1, <1>2, <1>8, <2>1, <2>2 DEF OrderInv
<1>12. credited' = [credited EXCEPT ![o] = @ + 0] /\ lost' = [lost EXCEPT ![o] = @ + 0]
  BY <1>1, <1>2 DEF PayTypes
<1>. QED BY <1>1, <1>2, <1>5, <1>9, <1>10, <1>11, <1>12, OrderStep

\* A request that has claimed an order credits it, or dies.
CreditSettles(q, n, m) ==
    /\ job' = [job EXCEPT ![q] = Idle]
    /\ credited' = [credited EXCEPT ![job[q].of] = @ + n]
    /\ lost' = [lost EXCEPT ![job[q].of] = @ + m]
    /\ UNCHANGED <<complete, used, redeemed>>

LEMMA CreditEnds ==
    ASSUME IInv, NEW q \in Requests, job[q].step = "credit",
           NEW n \in Nat, NEW m \in Nat, n + m = 1, CreditSettles(q, n, m)
    PROVE  IInv'
<1>. USE DEF CreditSettles
<1>1. PayTypes /\ JobInv BY DEF IInv
<1>2. job[q].of \in Topups
  BY <1>1 DEF JobInv, Elsewhere, Idle, CreditJob, CodeJob
<1>3. PICK o \in Topups : job[q].of = o BY <1>2
<1>4. o \in Orders /\ OrderInv(o) BY <1>2 DEF IInv, Orders
<1>5. q \in Actors /\ q \notin PackageOrders
  BY PaymentConstants DEF Actors, PackageOrders
<1>6. JobInv' BY <1>1, <1>5, JobsKeep DEF Elsewhere
<1>7. Idle.step = "idle" BY DEF Idle
<1>8. FlightFollows(q, Idle) BY <1>1, FlightChanges
<1>9. InFlightOf("credit", o) = InFlightOf("credit", o)' + 1
  BY <1>8, <1>1, <1>3, <1>7 DEF FlightFollows, FlightFollowsAt, Doing
<1>10. \A x \in Orders \ {o} : InFlightOf("credit", x)' = InFlightOf("credit", x)
  BY <1>8, <1>1, <1>3, <1>7 DEF FlightFollows, FlightFollowsAt, Doing
<1>11. \A x \in Codes : InFlightOf("used", x)' = InFlightOf("used", x)
  BY <1>8, <1>1, <1>7 DEF FlightFollows, FlightFollowsAt, Doing
<1>12. OrderInv(o)'
  <2>1. InFlightOf("credit", o) \in Nat /\ InFlightOf("credit", o)' \in Nat
    BY <1>8 DEF FlightFollows, FlightFollowsAt
  <2>2. credited[o] \in Nat /\ lost[o] \in Nat BY <1>1, <1>4 DEF PayTypes
  <2>3. credited'[o] = credited[o] + n /\ lost'[o] = lost[o] + m
    BY <1>1, <1>4, <1>3 DEF PayTypes
  <2>. QED BY <1>4, <1>9, <2>1, <2>2, <2>3 DEF OrderInv
<1>. QED BY <1>4, <1>3, <1>6, <1>10, <1>11, <1>12, OrderStep

-----------------------------------------------------------------------------
(* Codes.                                                                  *)

LEMMA CodeStep ==
    ASSUME IInv, NEW c \in Codes, NEW k \in Nat, NEW n \in Nat, NEW m \in Nat,
           JobInv', UNCHANGED <<complete, credited>>,
           used' = [used EXCEPT ![c] = @ + k],
           redeemed' = [redeemed EXCEPT ![c] = @ + n],
           lost' = [lost EXCEPT ![c] = @ + m],
           CodeInv(c)',
           \A x \in Orders : InFlightOf("credit", x)' = InFlightOf("credit", x),
           \A x \in Codes \ {c} : InFlightOf("used", x)' = InFlightOf("used", x)
    PROVE  IInv'
<1>1. PayTypes /\ PayTypes'
  <2>1. PayTypes BY DEF IInv
  <2>2. used' \in [Codes -> Nat] /\ redeemed' \in [Codes -> Nat]
    BY <2>1 DEF PayTypes
  <2>3. lost' \in [Orders \union Codes -> Nat] BY <2>1 DEF PayTypes
  <2>. QED BY <2>1, <2>2, <2>3 DEF PayTypes
<1>2. ASSUME NEW x \in Codes \ {c} PROVE CodeInv(x)'
  BY <1>1, <1>2 DEF IInv, CodeInv, PayTypes
<1>3. ASSUME NEW o \in Orders PROVE OrderInv(o)'
  <2>1. c # o BY PaymentConstants
  <2>. QED BY <1>1, <2>1 DEF IInv, OrderInv, PayTypes
<1>. QED BY <1>1, <1>2, <1>3 DEF IInv

LEMMA TransactionStep ==
    ASSUME IInv, NEW c \in Codes, RedeemInTransaction(c) PROVE IInv'
<1>1. PayTypes /\ JobInv /\ CodeInv(c) BY DEF IInv
<1>2. /\ used' = [used EXCEPT ![c] = @ + 1]
      /\ redeemed' = [redeemed EXCEPT ![c] = @ + 1]
      /\ UNCHANGED <<complete, credited, lost, job>>
  BY DEF RedeemInTransaction, orderVars
<1>3. JobInv'
  BY <1>1, <1>2 DEF JobInv, Elsewhere, CreditJob, CodeJob, Idle
<1>4. \A s, x : InFlightOf(s, x)' = InFlightOf(s, x) BY <1>2, FlightStays
<1>5. CodeInv(c)'
  <2>1. InFlightOf("used", c) \in Nat BY FlightFinite
  <2>2. used[c] \in Nat /\ redeemed[c] \in Nat /\ lost[c] \in Nat
    BY <1>1 DEF PayTypes
  <2>3. used'[c] = used[c] + 1 /\ redeemed'[c] = redeemed[c] + 1
    BY <1>1, <1>2 DEF PayTypes
  <2>. QED BY <1>1, <1>2, <1>4, <2>1, <2>2, <2>3 DEF CodeInv
<1>6. lost' = [lost EXCEPT ![c] = @ + 0] BY <1>1, <1>2 DEF PayTypes
<1>. QED BY <1>2, <1>3, <1>4, <1>5, <1>6, CodeStep

LEMMA UseStep == ASSUME IInv, NEW q \in Requests, RedeemUse(q) PROVE IInv'
<1> DEFINE j == [job[q] EXCEPT !.step = "used"]
<1>1. PayTypes /\ JobInv BY DEF IInv
<1>2. /\ job[q].step = "read" /\ used' = [used EXCEPT ![job[q].of] = @ + 1]
      /\ UNCHANGED <<complete, credited, redeemed, lost>>
      /\ job' = [job EXCEPT ![q].step = "used"]
  BY DEF RedeemUse, orderVars
<1>3. job[q] \in CodeJob
  BY <1>1, <1>2 DEF JobInv, Elsewhere, Idle, CreditJob, CodeJob
<1>4. PICK c \in Codes : job[q].of = c BY <1>3 DEF CodeJob
<1>5. CodeInv(c) /\ used' = [used EXCEPT ![c] = @ + 1] BY <1>2, <1>4 DEF IInv
<1>6. j.step = "used" /\ j.of = c /\ j \in CodeJob BY <1>3, <1>4 DEF CodeJob
<1>7. job' = [job EXCEPT ![q] = j] BY <1>2
<1>. HIDE DEF j
<1>8. q \in Actors /\ q \notin PackageOrders
  BY PaymentConstants DEF Actors, PackageOrders
<1>9. JobInv' BY <1>1, <1>2, <1>6, <1>7, <1>8, JobsKeep
<1>10. FlightFollows(q, j) BY <1>1, <1>7, FlightChanges
<1>11. InFlightOf("used", c)' = InFlightOf("used", c) + 1
  BY <1>10, <1>1, <1>2, <1>6, <1>7 DEF FlightFollows, FlightFollowsAt, Doing
<1>12. \A x \in Codes \ {c} : InFlightOf("used", x)' = InFlightOf("used", x)
  BY <1>10, <1>1, <1>2, <1>6, <1>7 DEF FlightFollows, FlightFollowsAt, Doing
<1>13. \A x \in Orders : InFlightOf("credit", x)' = InFlightOf("credit", x)
  BY <1>10, <1>1, <1>2, <1>6, <1>7 DEF FlightFollows, FlightFollowsAt, Doing
<1>14. CodeInv(c)'
  <2>1. InFlightOf("used", c) \in Nat BY FlightFinite
  <2>2. used[c] \in Nat /\ redeemed[c] \in Nat /\ lost[c] \in Nat
    BY <1>1, <1>5 DEF PayTypes
  <2>3. used'[c] = used[c] + 1 BY <1>1, <1>2, <1>5 DEF PayTypes
  <2>. QED BY <1>2, <1>5, <1>11, <2>1, <2>2, <2>3 DEF CodeInv
<1>15. redeemed' = [redeemed EXCEPT ![c] = @ + 0] /\ lost' = [lost EXCEPT ![c] = @ + 0]
  BY <1>1, <1>2 DEF PayTypes
<1>. QED BY <1>2, <1>5, <1>9, <1>12, <1>13, <1>14, <1>15, CodeStep

\* A request that has counted a use credits it, or dies.
UseSettles(q, n, m) ==
    /\ job' = [job EXCEPT ![q] = Idle]
    /\ redeemed' = [redeemed EXCEPT ![job[q].of] = @ + n]
    /\ lost' = [lost EXCEPT ![job[q].of] = @ + m]
    /\ UNCHANGED <<complete, credited, used>>

LEMMA UseEnds ==
    ASSUME IInv, NEW q \in Requests, job[q].step = "used",
           NEW n \in Nat, NEW m \in Nat, n + m = 1, UseSettles(q, n, m)
    PROVE  IInv'
<1>. USE DEF UseSettles
<1>1. PayTypes /\ JobInv BY DEF IInv
<1>2. job[q].of \in Codes
  BY <1>1 DEF JobInv, Elsewhere, Idle, CreditJob, CodeJob
<1>3. PICK c \in Codes : job[q].of = c BY <1>2
<1>4. CodeInv(c) BY DEF IInv
<1>5. q \in Actors /\ q \notin PackageOrders
  BY PaymentConstants DEF Actors, PackageOrders
<1>6. JobInv' BY <1>1, <1>5, JobsKeep DEF Elsewhere
<1>7. Idle.step = "idle" BY DEF Idle
<1>8. FlightFollows(q, Idle) BY <1>1, FlightChanges
<1>9. InFlightOf("used", c) = InFlightOf("used", c)' + 1
  BY <1>8, <1>1, <1>3, <1>7 DEF FlightFollows, FlightFollowsAt, Doing
<1>10. \A x \in Codes \ {c} : InFlightOf("used", x)' = InFlightOf("used", x)
  BY <1>8, <1>1, <1>3, <1>7 DEF FlightFollows, FlightFollowsAt, Doing
<1>11. \A x \in Orders : InFlightOf("credit", x)' = InFlightOf("credit", x)
  BY <1>8, <1>1, <1>7 DEF FlightFollows, FlightFollowsAt, Doing
<1>12. CodeInv(c)'
  <2>1. InFlightOf("used", c) \in Nat /\ InFlightOf("used", c)' \in Nat
    BY <1>8 DEF FlightFollows, FlightFollowsAt
  <2>2. used[c] \in Nat /\ redeemed[c] \in Nat /\ lost[c] \in Nat
    BY <1>1 DEF PayTypes
  <2>3. redeemed'[c] = redeemed[c] + n /\ lost'[c] = lost[c] + m
    BY <1>1, <1>3 DEF PayTypes
  <2>. QED BY <1>4, <1>9, <2>1, <2>2, <2>3 DEF CodeInv
<1>13. used' = [used EXCEPT ![c] = @ + 0] BY <1>1 DEF PayTypes
<1>. QED BY <1>2, <1>3, <1>6, <1>10, <1>11, <1>12, <1>13, CodeStep

-----------------------------------------------------------------------------
(* Requests and transactions that die.                                     *)

LEMMA DieStep == ASSUME IInv, NEW a \in Actors, Die(a) PROVE IInv'
<1>1. PayTypes /\ JobInv BY DEF IInv
<1>2. /\ job' = [job EXCEPT ![a] = Idle]
      /\ UNCHANGED <<complete, used, credited, redeemed>>
      /\ lost' = IF job[a].step \in {"credit", "used"}
                 THEN [lost EXCEPT ![job[a].of] = @ + 1] ELSE lost
  BY DEF Die, orderVars, codeVars
<1>3. CASE a \in PackageOrders
  <2>1. job[a].step \notin {"credit", "used"} BY <1>1, <1>3 DEF JobInv, Idle
  <2>2. UNCHANGED payVars BY <1>2, <2>1 DEF Die, payVars, orderVars, codeVars
  <2>. QED BY <1>2, <1>3, <2>2, CallbackStep
<1>4. CASE a \in Requests
  <2>1. CASE job[a].step = "credit"
    <3>1. PICK o \in Topups : job[a].of = o
      BY <1>1, <1>4, <2>1 DEF JobInv, Elsewhere, Idle, CreditJob, CodeJob
    <3>2. lost' = [lost EXCEPT ![job[a].of] = @ + 1] BY <1>2, <2>1
    <3>3. o \in Orders BY DEF Orders
    <3>4. credited' = [credited EXCEPT ![job[a].of] = @ + 0]
      BY <1>1, <1>2, <3>1, <3>3 DEF PayTypes
    <3>5. CreditSettles(a, 0, 1) BY <1>2, <3>2, <3>4 DEF CreditSettles
    <3>. QED BY <1>4, <2>1, <3>5, CreditEnds
  <2>2. CASE job[a].step = "used"
    <3>1. PICK c \in Codes : job[a].of = c
      BY <1>1, <1>4, <2>2 DEF JobInv, Elsewhere, Idle, CreditJob, CodeJob
    <3>2. lost' = [lost EXCEPT ![job[a].of] = @ + 1] BY <1>2, <2>2
    <3>3. redeemed' = [redeemed EXCEPT ![job[a].of] = @ + 0]
      BY <1>1, <1>2, <3>1 DEF PayTypes
    <3>4. UseSettles(a, 0, 1) BY <1>2, <3>2, <3>3 DEF UseSettles
    <3>. QED BY <1>4, <2>2, <3>4, UseEnds
  <2>3. CASE job[a].step \notin {"credit", "used"}
    <3>1. UNCHANGED payVars BY <1>2, <2>3 DEF Die, payVars, orderVars, codeVars
    <3>2. Elsewhere(job[a]) \/ job[a].step = "read"
      BY <1>1, <1>4, <2>3 DEF JobInv, CreditJob, CodeJob
    <3>3. Elsewhere(Idle) BY DEF Elsewhere
    <3>. QED BY <1>2, <1>4, <3>1, <3>2, <3>3, AsideStep
  <2>. QED BY <2>1, <2>2, <2>3
<1>. QED BY <1>3, <1>4 DEF Actors, PackageOrders

LEMMA PackagePaidStep ==
    ASSUME IInv, NEW o \in PackageOrders, PackagePaid(o) PROVE IInv'
<1>1. /\ job[o].step = "bind" /\ job' = [job EXCEPT ![o] = Idle]
      /\ complete' = complete \union {o}
      /\ credited' = [credited EXCEPT ![o] = @ + 1]
      /\ UNCHANGED <<used, redeemed, lost>>
  BY DEF PackagePaid, CommitBind, codeVars
<1>2. o \notin complete BY <1>1 DEF IInv, JobInv, Idle
<1>. QED BY <1>1, <1>2, PaidStep DEF Orders

LEMMA TopupStep == ASSUME IInv, NEW o \in Orders, TopupCallback(o) PROVE IInv'
<1>1. /\ o \in Topups /\ o \notin complete /\ job' = job
      /\ complete' = complete \union {o}
      /\ credited' = [credited EXCEPT ![o] = @ + 1]
      /\ UNCHANGED <<used, redeemed, lost>>
  BY DEF TopupCallback, Pending, subVars, codeVars
<1>2. o \notin PackageOrders BY <1>1, PaymentConstants DEF PackageOrders
<1>. QED BY <1>1, <1>2, PaidStep

LEMMA AdminCreditStep == ASSUME IInv, NEW q \in Requests, AdminCredit(q) PROVE IInv'
<1>1. /\ job[q].step = "credit" /\ job' = [job EXCEPT ![q] = Idle]
      /\ credited' = [credited EXCEPT ![job[q].of] = @ + 1]
      /\ UNCHANGED <<complete, used, redeemed, lost>>
  BY DEF AdminCredit, codeVars
<1>2. PICK o \in Topups : job[q].of = o
  BY <1>1 DEF IInv, JobInv, Elsewhere, Idle, CreditJob, CodeJob
<1>3. lost' = [lost EXCEPT ![job[q].of] = @ + 0]
  BY <1>1, <1>2 DEF IInv, PayTypes, Orders
<1>4. CreditSettles(q, 1, 0) BY <1>1, <1>3 DEF CreditSettles
<1>. QED BY <1>1, <1>4, CreditEnds

LEMMA RedeemCreditStep ==
    ASSUME IInv, NEW q \in Requests, RedeemCredit(q) PROVE IInv'
<1>1. /\ job[q].step = "used" /\ job' = [job EXCEPT ![q] = Idle]
      /\ redeemed' = [redeemed EXCEPT ![job[q].of] = @ + 1]
      /\ UNCHANGED <<complete, used, credited, lost>>
  BY DEF RedeemCredit, orderVars
<1>2. PICK c \in Codes : job[q].of = c
  BY <1>1 DEF IInv, JobInv, Elsewhere, Idle, CreditJob, CodeJob
<1>3. lost' = [lost EXCEPT ![job[q].of] = @ + 0]
  BY <1>1, <1>2 DEF IInv, PayTypes
<1>4. UseSettles(q, 1, 0) BY <1>1, <1>3 DEF UseSettles
<1>. QED BY <1>1, <1>4, UseEnds

-----------------------------------------------------------------------------
LEMMA InitInv == Init => IInv
<1>. SUFFICES ASSUME Init PROVE IInv
  OBVIOUS
<1>1. PayTypes BY DEF Init, PayTypes
<1>2. \A a \in Actors : job[a] = Idle BY DEF Init, SubInit
<1>3. JobInv
  BY <1>2 DEF Init, SubInit, JobInv, Elsewhere, Actors, PackageOrders
<1>4. ASSUME NEW s \in {"credit", "used"}, NEW x PROVE InFlightOf(s, x) = 0
  <2>1. InFlight(s, x) = {} BY <1>2 DEF InFlight, Idle, Actors
  <2>. QED BY <2>1, FS_EmptySet DEF InFlightOf
<1>5. \A o \in Orders : OrderInv(o) BY <1>4 DEF Init, OrderInv
<1>6. \A c \in Codes : CodeInv(c) BY <1>4 DEF Init, CodeInv
<1>. QED BY <1>1, <1>3, <1>5, <1>6 DEF IInv

LEMMA StepInv == IInv /\ [Next]_vars => IInv'
<1>. SUFFICES ASSUME IInv, [Next]_vars PROVE IInv'
  OBVIOUS
<1>1. CASE UNCHANGED vars
  <2>1. UNCHANGED payVars /\ job' = job BY <1>1 DEF vars, subVars
  <2>. QED BY <2>1, StillStep
<1>2. CASE SubNext /\ UNCHANGED payVars BY <1>2, SubStep
<1>3. CASE \E o \in Orders : TopupCallback(o) BY <1>3, TopupStep
<1>4. CASE \E o \in PackageOrders : PackageCallback(o) \/ PackagePaid(o)
  BY <1>4, PackageStep, PackagePaidStep
<1>5. CASE \E c \in Codes : RedeemInTransaction(c) BY <1>5, TransactionStep
<1>6. CASE \E q \in Requests :
               \/ \E o \in Topups : AdminComplete(q, o)
               \/ AdminCredit(q)
               \/ \E c \in Codes : RedeemRead(q, c)
               \/ RedeemUse(q)
               \/ RedeemCredit(q)
  BY <1>6, AdminCompleteStep, AdminCreditStep, ReadStep, UseStep, RedeemCreditStep
<1>7. CASE \E a \in Actors : Die(a) BY <1>7, DieStep
<1>. QED BY <1>1, <1>2, <1>3, <1>4, <1>5, <1>6, <1>7 DEF Next

\* What is claimed is credited, under way or lost, after every callback,
\* completion, redemption and death of a request.
THEOREM Invariance == Spec => []IInv
BY InitInv, StepInv, PTL DEF Spec

\* A complete order was credited once, or is about to be, or its credit died
\* with the request that had claimed it; a pending one was not credited.  So
\* with every counted use of a code.
THEOREM CreditedOnce == Spec => []ClaimsAreCredited
<1>1. IInv => ClaimsAreCredited
  BY DEF IInv, OrderInv, CodeInv, InFlightOf,
         ClaimsAreCredited, OrdersAreCredited, UsesAreCredited
<1>. QED BY <1>1, Invariance, PTL

-----------------------------------------------------------------------------
(* Induction, and definitions by recursion, in the form the provers can use. *)

LEMMA LeastNatural ==
    ASSUME NEW S \in SUBSET Nat, S # {}
    PROVE  \E n \in S : \A m \in S : n <= m
<1> DEFINE below == {ss \in Nat \X Nat : ss[1] < ss[2]}
<1>1. IsWellFoundedOn(below, Nat) BY NatLessThanWellFounded DEF OpToRel
<1>2. ASSUME NEW m \in Nat, NEW n \in Nat, m < n PROVE <<m, n>> \in below
  <2>1. <<m, n>> \in Nat \X Nat /\ <<m, n>>[1] = m /\ <<m, n>>[2] = n OBVIOUS
  <2>. QED BY <2>1, <1>2
<1>. HIDE DEF below
<1>3. PICK n \in S : \A m \in S : ~(<<m, n>> \in below) BY <1>1, WFMin
<1>4. ASSUME NEW m \in S PROVE n <= m
  <2>1. m \in Nat /\ n \in Nat OBVIOUS
  <2>2. ~(m < n) BY <1>2, <1>3, <2>1
  <2>. QED BY <2>1, <2>2
<1>. QED BY <1>4

\* A set that has 0, and every successor up to k, has 0 .. k.
LEMMA UpTo ==
    ASSUME NEW G, NEW k \in Nat, 0 \in G,
           \A n \in 0 .. k : n # k /\ n \in G => n + 1 \in G
    PROVE  \A n \in 0 .. k : n \in G
<1> DEFINE Bad == {n \in 0 .. k : n \notin G}
<1>. SUFFICES ASSUME Bad # {} PROVE FALSE OBVIOUS
<1>1. PICK n \in Bad : \A m \in Bad : n <= m
  <2>1. Bad \in SUBSET Nat OBVIOUS
  <2>. HIDE DEF Bad
  <2>. QED BY <2>1, LeastNatural
<1>2. n \in Nat /\ n # 0 /\ n <= k BY <1>1
<1>3. n - 1 \in 0 .. k /\ n - 1 # k BY <1>2
<1>4. n - 1 \in G BY <1>1, <1>2, <1>3
<1>5. (n - 1) + 1 = n BY <1>2
<1>. QED BY <1>1, <1>3, <1>4, <1>5

\* step[<<i, y>>] is what the i-th step of an iteration makes of y.
Iteration(f, k, x, step) ==
    f = [i \in 0 .. k |-> IF i = 0 THEN x ELSE step[<<i, f[i - 1]>>]]

LEMMA IterationExists ==
    ASSUME NEW S, NEW x \in S, NEW k \in Nat, NEW step \in [(1 .. k) \X S -> S]
    PROVE  \E f \in [0 .. k -> S] : Iteration(f, k, x, step)
<1> DEFINE Runs(f, m) ==
             f[0] = x /\ \A i \in 1 .. m : f[i] = step[<<i, f[i - 1]>>]
<1> DEFINE G == {m \in 0 .. k : \E f \in [0 .. m -> S] : Runs(f, m)}
<1>1. 0 \in G
  <2> DEFINE f == [i \in 0 .. 0 |-> x]
  <2>1. f \in [0 .. 0 -> S] OBVIOUS
  <2>2. Runs(f, 0) OBVIOUS
  <2>3. 0 \in 0 .. k OBVIOUS
  <2>. HIDE DEF f, Runs
  <2>. QED BY <2>1, <2>2, <2>3
<1>2. ASSUME NEW m \in 0 .. k, m # k, m \in G PROVE m + 1 \in G
  <2>1. PICK f \in [0 .. m -> S] : Runs(f, m) BY <1>2
  <2> DEFINE h == [i \in 0 .. m + 1 |->
                      IF i <= m THEN f[i] ELSE step[<<m + 1, f[m]>>]]
  <2>2. m \in Nat /\ m + 1 \in 1 .. k BY <1>2
  <2>3. <<m + 1, f[m]>> \in (1 .. k) \X S BY <2>2
  <2>4. step[<<m + 1, f[m]>>] \in S BY <2>3
  <2>5. h \in [0 .. m + 1 -> S] BY <2>4, <2>2
  <2>6. \A i \in 0 .. m : h[i] = f[i] BY <2>2
  <2>7. h[m + 1] = step[<<m + 1, h[m]>>]
    <3>1. m + 1 \in 0 .. m + 1 /\ ~(m + 1 <= m) /\ m \in 0 .. m BY <2>2
    <3>2. h[m + 1] = step[<<m + 1, f[m]>>] BY <3>1
    <3>3. h[m] = f[m] BY <2>6, <3>1
    <3>. QED BY <3>2, <3>3
  <2>8. h[0] = x BY <2>1, <2>2, <2>6
  <2>9. ASSUME NEW i \in 1 .. m + 1 PROVE h[i] = step[<<i, h[i - 1]>>]
    <3>1. CASE i = m + 1
      <4>1. i - 1 = m BY <3>1, <2>2
      <4>. QED BY <3>1, <4>1, <2>7
    <3>2. CASE i # m + 1
      <4>1. i \in 1 .. m /\ i \in 0 .. m /\ i - 1 \in 0 .. m BY <3>2, <2>2
      <4>. QED BY <4>1, <2>1, <2>6
    <3>. QED BY <3>1, <3>2
  <2>10. Runs(h, m + 1) BY <2>8, <2>9
  <2>11. m + 1 \in 0 .. k BY <2>2
  <2>. HIDE DEF h, Runs
  <2>. QED BY <2>5, <2>10, <2>11
<1>3. k \in G
  <2>. HIDE DEF G
  <2>. QED BY <1>1, <1>2, UpTo
<1>4. PICK f \in [0 .. k -> S] : Runs(f, k) BY <1>3
<1>5. f = [i \in 0 .. k |-> f[i]] OBVIOUS
<1>6. \A i \in 0 .. k : f[i] = IF i = 0 THEN x ELSE step[<<i, f[i - 1]>>]
  BY <1>4
<1>7. Iteration(f, k, x, step) BY <1>5, <1>6 DEF Iteration
<1>. QED BY <1>7

-----------------------------------------------------------------------------
(* The calendar of resets.                                                 *)

LEMMA Division ==
    ASSUME NEW t \in Nat, NEW u \in Nat \ {0}
    PROVE  /\ t \div u \in Nat /\ t % u \in 0 .. u - 1
           /\ t = (t \div u) * u + (t % u)
<1>1. t \div u \in Nat OBVIOUS
<1>2. t % u \in 0 .. u - 1 OBVIOUS
<1>3. t = (t \div u) * u + (t % u) OBVIOUS
<1>. QED BY <1>1, <1>2, <1>3

LEMMA Multiples ==
    ASSUME NEW k \in Nat, NEW u \in Nat \ {0}
    PROVE  k * u \in Nat /\ (k * u) \div u = k /\ (k * u) % u = 0
<1>1. k * u \in Nat OBVIOUS
<1>2. (k * u) \div u = k OBVIOUS
<1>3. (k * u) % u = 0 OBVIOUS
<1>. QED BY <1>1, <1>2, <1>3

LEMMA ProductsGrow ==
    ASSUME NEW a \in Nat, NEW b \in Nat, NEW u \in Nat \ {0}
    PROVE  (a < b <=> a * u < b * u) /\ (a * u + u = (a + 1) * u)
<1>1. a * u + u = (a + 1) * u OBVIOUS
<1>2. a < b => a * u < b * u OBVIOUS
<1>3. a * u < b * u => a < b OBVIOUS
<1>. QED BY <1>1, <1>2, <1>3

\* What resolveResetPolicy makes of the row of a package.
PolicyOK(policy) ==
    /\ policy.period \in Calendars \union {"custom", "never"}
    /\ policy.interval \in Nat \ {0}
    /\ policy.period = "custom" => policy.length \in Nat \ {0}

LEMMA PolicyTyped ==
    ASSUME NEW pkg, PackageRow(pkg)
    PROVE  PolicyOK(ResolveResetPolicy(pkg))
<1> DEFINE interval == AtLeast(pkg.cycleInterval, 1)
<1> DEFINE policy == ResolveResetPolicy(pkg)
<1>1. interval \in Nat \ {0} BY DEF PackageRow, AtLeast
<1>2. AtLeast(pkg.resetLength, 1) \in Nat \ {0} BY DEF PackageRow, AtLeast
<1>3. interval * HourLength \in Nat \ {0} BY <1>1, UnitsAssumption
<1>4. CASE pkg.resetPeriod \in Calendars
  BY <1>4 DEF ResolveResetPolicy, PolicyOK, Calendars
<1>5. CASE pkg.resetPeriod = "custom"
  BY <1>1, <1>2, <1>5 DEF ResolveResetPolicy, PolicyOK, Calendars
<1>6. CASE pkg.resetPeriod = "never" /\ pkg.cycleUnit \in {"day", "week", "month"}
  <2>1. policy = [period |-> OfCycleUnit[pkg.cycleUnit],
                  interval |-> interval, length |-> 0]
    BY <1>6 DEF ResolveResetPolicy, Calendars, OfCycleUnit
  <2>2. OfCycleUnit[pkg.cycleUnit] \in Calendars BY <1>6 DEF OfCycleUnit, Calendars
  <2>. QED BY <1>1, <2>1, <2>2 DEF PolicyOK, Calendars
<1>7. CASE pkg.resetPeriod = "never" /\ pkg.cycleUnit = "hour"
  BY <1>1, <1>3, <1>7 DEF ResolveResetPolicy, PolicyOK, Calendars, OfCycleUnit
<1>8. CASE pkg.resetPeriod = "never" /\ pkg.cycleUnit = "none"
  BY <1>8 DEF ResolveResetPolicy, PolicyOK, Calendars, OfCycleUnit
<1>. QED BY <1>4, <1>5, <1>6, <1>7, <1>8 DEF PackageRow

LEMMA UnitsPositive ==
    ASSUME NEW policy, policy.period \in Calendars
    PROVE  UnitLength[policy.period] \in Nat \ {0}
BY UnitsAssumption

\* The n-th reset after base, without the recursion.
After(base, policy, n) ==
    IF n = 0 THEN base
    ELSE IF policy.period = "custom" THEN base + n * policy.length
    ELSE LET unit == UnitLength[policy.period]
         IN  (base \div unit + n * policy.interval) * unit

LEMMA AfterTyped ==
    ASSUME NEW policy, PolicyOK(policy), policy.period # "never",
           NEW base \in Nat, NEW n \in Nat
    PROVE  After(base, policy, n) \in Nat
<1>1. CASE policy.period = "custom" BY <1>1 DEF PolicyOK, After
<1>2. CASE policy.period \in Calendars
  <2>1. PICK u : u = UnitLength[policy.period] OBVIOUS
  <2>2. u \in Nat \ {0} BY <1>2, <2>1, UnitsPositive
  <2>3. base \div u \in Nat BY <2>2, Division
  <2>4. n * policy.interval \in Nat BY DEF PolicyOK
  <2>5. base \div u + n * policy.interval \in Nat BY <2>3, <2>4
  <2>6. (base \div u + n * policy.interval) * u \in Nat BY <2>2, <2>5
  <2>. QED BY <1>2, <2>1, <2>6 DEF After, Calendars
<1>. QED BY <1>1, <1>2 DEF PolicyOK

\* Resets follow each other: the m-th after the n-th is the (n + m)-th.
LEMMA AfterAfter ==
    ASSUME NEW policy, PolicyOK(policy), policy.period # "never",
           NEW base \in Nat, NEW n \in Nat, NEW m \in Nat
    PROVE  After(After(base, policy, n), policy, m) = After(base, policy, n + m)
<1>1. CASE n = 0 \/ m = 0 BY <1>1 DEF After
<1>2. CASE n # 0 /\ m # 0 /\ policy.period = "custom"
  <2>1. PICK l \in Nat : l = policy.length BY <1>2 DEF PolicyOK
  <2>2. (base + n * l) + m * l = base + (n + m) * l OBVIOUS
  <2>3. n + m # 0 BY <1>2
  <2>. QED BY <1>2, <2>1, <2>2, <2>3 DEF After
<1>3. CASE n # 0 /\ m # 0 /\ policy.period \in Calendars
  <2>1. PICK u : u = UnitLength[policy.period] OBVIOUS
  <2>2. u \in Nat \ {0} BY <1>3, <2>1, UnitsPositive
  <2>3. PICK b : b = base \div u OBVIOUS
  <2>4. b \in Nat BY <2>2, <2>3, Division
  <2>5. PICK i \in Nat : i = policy.interval BY DEF PolicyOK
  <2>6. b + n * i \in Nat BY <2>4
  <2>7. ((b + n * i) * u) \div u = b + n * i BY <2>2, <2>6, Multiples
  <2>8. (b + n * i) + m * i = b + (n + m) * i BY <2>4
  <2>9. n + m # 0 BY <1>3
  <2>10. policy.period # "custom" BY <1>3 DEF Calendars
  <2>11. After(base, policy, n) = (b + n * i) * u
    BY <1>3, <2>1, <2>3, <2>5, <2>10 DEF After
  <2>12. After((b + n * i) * u, policy, m) = ((b + n * i) + m * i) * u
    BY <1>3, <2>1, <2>5, <2>7, <2>10 DEF After
  <2>13. After(base, policy, n + m) = (b + (n + m) * i) * u
    BY <2>1, <2>3, <2>5, <2>9, <2>10 DEF After
  <2>. QED BY <2>8, <2>11, <2>12, <2>13
<1>. QED BY <1>1, <1>2, <1>3 DEF PolicyOK

LEMMA FollowingIsAfter ==
    ASSUME NEW policy, PolicyOK(policy), policy.period # "never",
           NEW base \in Nat
    PROVE  FollowingReset(base, policy) = After(base, policy, 1)
<1>1. CASE policy.period = "custom"
  <2>1. 1 * policy.length = policy.length BY <1>1 DEF PolicyOK
  <2>. QED BY <1>1, <2>1 DEF After, FollowingReset
<1>2. CASE policy.period # "custom"
  <2>1. 1 * policy.interval = policy.interval BY DEF PolicyOK
  <2>. QED BY <1>2, <2>1 DEF After, FollowingReset
<1>. QED BY <1>1, <1>2

LEMMA AfterNext ==
    ASSUME NEW policy, PolicyOK(policy), policy.period # "never",
           NEW base \in Nat, NEW n \in Nat
    PROVE  FollowingReset(After(base, policy, n), policy)
               = After(base, policy, n + 1)
<1>1. After(base, policy, n) \in Nat BY AfterTyped
<1>2. FollowingReset(After(base, policy, n), policy)
         = After(After(base, policy, n), policy, 1)
  BY <1>1, FollowingIsAfter
<1>. QED BY <1>2, AfterAfter

LEMMA NthIsAfter ==
    ASSUME NEW policy, PolicyOK(policy), policy.period # "never",
           NEW base \in Nat, NEW n \in Nat
    PROVE  NthReset(base, policy, n) = After(base, policy, n)
<1> DEFINE Resets(f) == [i \in 0 .. n |->
               IF i = 0 THEN base ELSE FollowingReset(f[i - 1], policy)]
<1> DEFINE g == [i \in 0 .. n |-> After(base, policy, i)]
<1> DEFINE reset == CHOOSE f : f = Resets(f)
<1>1. NthReset(base, policy, n) = reset[n] BY DEF NthReset
<1>2. g = Resets(g)
  <2>1. ASSUME NEW i \in 0 .. n PROVE g[i] = Resets(g)[i]
    <3>1. CASE i = 0 BY <3>1 DEF After
    <3>2. CASE i # 0
      <4>1. i - 1 \in 0 .. n /\ i - 1 \in Nat /\ (i - 1) + 1 = i BY <3>2
      <4>2. g[i - 1] = After(base, policy, i - 1) BY <4>1
      <4>3. FollowingReset(g[i - 1], policy) = After(base, policy, i)
        BY <4>1, <4>2, AfterNext
      <4>. QED BY <3>2, <4>3
    <3>. QED BY <3>1, <3>2
  <2>. QED BY <2>1
<1>3. reset = Resets(reset) BY <1>2
<1>. HIDE DEF reset, g
<1> DEFINE Same == {i \in 0 .. n : reset[i] = After(base, policy, i)}
<1>4. 0 \in Same
  <2>1. 0 \in 0 .. n OBVIOUS
  <2>2. reset[0] = base BY <1>3, <2>1
  <2>. QED BY <2>1, <2>2 DEF After
<1>5. ASSUME NEW i \in 0 .. n, i # n, i \in Same PROVE i + 1 \in Same
  <2>1. i + 1 \in 0 .. n /\ i + 1 # 0 /\ (i + 1) - 1 = i /\ i \in Nat BY <1>5
  <2>2. reset[i + 1] = FollowingReset(reset[i], policy) BY <1>3, <2>1
  <2>3. reset[i + 1] = After(base, policy, i + 1) BY <1>5, <2>1, <2>2, AfterNext
  <2>. QED BY <2>1, <2>3
<1>6. n \in Same
  <2>1. n \in 0 .. n OBVIOUS
  <2>. HIDE DEF Same
  <2>. QED BY <1>4, <1>5, <2>1, UpTo
<1>. QED BY <1>1, <1>6

LEMMA AfterLater ==
    ASSUME NEW policy, PolicyOK(policy), policy.period # "never",
           NEW base \in Nat, NEW k \in Nat \ {0}
    PROVE  base < After(base, policy, k)
<1>1. CASE policy.period = "custom"
  <2>1. PICK l \in Nat \ {0} : l = policy.length BY <1>1 DEF PolicyOK
  <2>2. k * l > 0 OBVIOUS
  <2>3. base < base + k * l BY <2>2
  <2>. QED BY <1>1, <2>1, <2>3 DEF After
<1>2. CASE policy.period \in Calendars
  <2>1. PICK u : u = UnitLength[policy.period] OBVIOUS
  <2>2. u \in Nat \ {0} BY <1>2, <2>1, UnitsPositive
  <2>3. PICK b : b = base \div u OBVIOUS
  <2>4. b \in Nat /\ base % u \in 0 .. u - 1 /\ base = b * u + (base % u)
    BY <2>2, <2>3, Division
  <2>5. base < b * u + u BY <2>2, <2>4
  <2>6. PICK i \in Nat \ {0} : i = policy.interval BY DEF PolicyOK
  <2>7. k * i \in Nat \ {0} OBVIOUS
  <2>8. PICK c \in Nat \ {0} : c = k * i BY <2>7
  <2>9. b * u < (b + c) * u BY <2>2, <2>4, ProductsGrow
  <2>10. b * u + u = (b + 1) * u BY <2>2, <2>4, ProductsGrow
  <2>11. (b + 1) * u <= (b + c) * u
    <3>1. CASE c = 1 BY <3>1, <2>2, <2>4
    <3>2. CASE c # 1
      <4>1. b + 1 < b + c /\ b + 1 \in Nat /\ b + c \in Nat BY <3>2, <2>4
      <4>2. (b + 1) * u < (b + c) * u BY <4>1, <2>2, ProductsGrow
      <4>3. (b + 1) * u \in Nat /\ (b + c) * u \in Nat BY <4>1, <2>2
      <4>. QED BY <4>2, <4>3
    <3>. QED BY <3>1, <3>2
  <2>12. base < (b + c) * u
    <3>1. b * u + u \in Nat /\ (b + c) * u \in Nat BY <2>2, <2>4
    <3>. QED BY <2>5, <2>10, <2>11, <3>1
  <2>13. After(base, policy, k) = (b + c) * u
    BY <1>2, <2>1, <2>3, <2>6, <2>8 DEF After, Calendars
  <2>. QED BY <2>12, <2>13
<1>. QED BY <1>1, <1>2 DEF PolicyOK

LEMMA AfterOrdered ==
    ASSUME NEW policy, PolicyOK(policy), policy.period # "never",
           NEW base \in Nat, NEW n \in Nat, NEW m \in Nat
    PROVE  /\ n < m => After(base, policy, n) < After(base, policy, m)
           /\ After(base, policy, n) \in Nat
<1>1. After(base, policy, n) \in Nat BY AfterTyped
<1>2. ASSUME n < m PROVE After(base, policy, n) < After(base, policy, m)
  <2>1. m - n \in Nat \ {0} /\ m = n + (m - n) BY <1>2
  <2> DEFINE k == m - n
  <2>. HIDE DEF k
  <2>2. k \in Nat \ {0} /\ m = n + k BY <2>1 DEF k
  <2>3. After(After(base, policy, n), policy, k) = After(base, policy, m)
    BY <2>2, AfterAfter
  <2>. QED BY <1>1, <2>2, <2>3, AfterLater
<1>. QED BY <1>1, <1>2

\* The cursor of a refill that ends in time moves by all its cycles.
LEMMA CursorIsAfter ==
    ASSUME NEW policy, PolicyOK(policy), policy.period # "never",
           NEW last \in Nat, NEW cycles \in Nat, NEW end \in Nat,
           After(last, policy, cycles) <= end
    PROVE  AdvanceCursor(last, cycles, policy, end) = After(last, policy, cycles)
<1> DEFINE Move(x) == IF CalculateNextReset(x, policy, end) = NoReset THEN x
                      ELSE FollowingReset(x, policy)
<1> DEFINE Moves(f) == [i \in 0 .. cycles |->
               IF i = 0 THEN last
               ELSE IF CalculateNextReset(f[i - 1], policy, end) = NoReset
                    THEN f[i - 1]
                    ELSE FollowingReset(f[i - 1], policy)]
<1> DEFINE g == [i \in 0 .. cycles |-> After(last, policy, i)]
<1> DEFINE cursor == CHOOSE f : f = Moves(f)
<1>1. AdvanceCursor(last, cycles, policy, end) = cursor[cycles]
  BY DEF AdvanceCursor
<1>2. ASSUME NEW i \in 0 .. cycles, i # cycles
      PROVE  Move(After(last, policy, i)) = After(last, policy, i + 1)
  <2>1. i \in Nat /\ i + 1 \in Nat /\ (i + 1 < cycles \/ i + 1 = cycles) BY <1>2
  <2>2. After(last, policy, i + 1) <= end
    BY <2>1, AfterOrdered
  <2>3. FollowingReset(After(last, policy, i), policy) = After(last, policy, i + 1)
    BY <2>1, AfterNext
  <2>4. After(last, policy, i + 1) \in Nat BY <2>1, AfterTyped
  <2>5. CalculateNextReset(After(last, policy, i), policy, end)
           = After(last, policy, i + 1)
    BY <2>2, <2>3, <2>4 DEF CalculateNextReset
  <2>. QED BY <2>3, <2>4, <2>5 DEF NoReset
<1>3. g = Moves(g)
  <2>1. ASSUME NEW i \in 0 .. cycles PROVE g[i] = Moves(g)[i]
    <3>1. CASE i = 0 BY <3>1 DEF After
    <3>2. CASE i # 0
      <4>1. i - 1 \in 0 .. cycles /\ i - 1 # cycles /\ (i - 1) + 1 = i BY <3>2
      <4>2. g[i - 1] = After(last, policy, i - 1) BY <4>1
      <4>3. Move(g[i - 1]) = After(last, policy, i) BY <1>2, <4>1, <4>2
      <4>4. Moves(g)[i] = Move(g[i - 1]) BY <3>2
      <4>. QED BY <4>3, <4>4
    <3>. QED BY <3>1, <3>2
  <2>. QED BY <2>1
<1>4. cursor = Moves(cursor) BY <1>3
<1>. HIDE DEF cursor, g
<1> DEFINE Same == {i \in 0 .. cycles : cursor[i] = After(last, policy, i)}
<1>5. 0 \in Same
  <2>1. 0 \in 0 .. cycles OBVIOUS
  <2>2. cursor[0] = last BY <1>4, <2>1
  <2>. QED BY <2>1, <2>2 DEF After
<1>6. ASSUME NEW i \in 0 .. cycles, i # cycles, i \in Same PROVE i + 1 \in Same
  <2>1. i + 1 \in 0 .. cycles /\ i + 1 # 0 /\ (i + 1) - 1 = i /\ i \in Nat BY <1>6
  <2>2. cursor[i + 1] = Move(cursor[i]) BY <1>4, <2>1
  <2>3. cursor[i + 1] = After(last, policy, i + 1) BY <1>2, <1>6, <2>2
  <2>. QED BY <2>1, <2>3
<1>7. cycles \in Same
  <2>1. cycles \in 0 .. cycles OBVIOUS
  <2>. HIDE DEF Same
  <2>. QED BY <1>5, <1>6, <2>1, UpTo
<1>. QED BY <1>1, <1>7

\* The loop of countResetCycles stops at the last reset that is not in the
\* future, or beyond its cap.
StopsAt(c, last, t, policy) ==
    /\ c \in 0 .. CycleCap + 1
    /\ c # 0 => After(last, policy, c) <= t
    /\ c = CycleCap + 1 \/ After(last, policy, c + 1) > t

LEMMA LoopStops ==
    ASSUME NEW policy, PolicyOK(policy), policy.period \in Calendars,
           NEW last \in Nat, NEW t \in Nat
    PROVE  StopsAt(CountResetCycles(last, t, policy), last, t, policy)
<1> DEFINE N == CycleCap + 1
<1> DEFINE Stops(n) == n = N \/ NthReset(last, policy, n + 1) > t
<1> DEFINE Walks(f) == [n \in 0 .. CycleCap + 1 |->
               IF n = CycleCap + 1 \/ NthReset(last, policy, n + 1) > t
               THEN n ELSE f[n + 1]]
<1> DEFINE Next1(n) == {m \in n .. N : Stops(m)}
<1> DEFINE First(n, m) == m \in Next1(n) /\ \A o \in Next1(n) : m <= o
<1> DEFINE g == [n \in 0 .. N |-> CHOOSE m : First(n, m)]
<1> DEFINE walk == CHOOSE f : f = Walks(f)
<1>1. CountResetCycles(last, t, policy) = walk[0]
  BY DEF CountResetCycles, Calendars
<1>2. N \in Nat /\ 0 \in 0 .. N BY UnitsAssumption
<1>. HIDE DEF N
<1>3. ASSUME NEW n \in 0 .. N PROVE \E m : First(n, m)
  <2>1. Next1(n) \in SUBSET Nat BY <1>2, <1>3
  <2>2. N \in Next1(n) BY <1>2, <1>3
  <2>. HIDE DEF Next1
  <2>. QED BY <2>1, <2>2, LeastNatural
<1>4. \A n \in 0 .. N : First(n, g[n])
  BY <1>3
<1>5. g = Walks(g)
  <2>1. ASSUME NEW n \in 0 .. N PROVE g[n] = IF Stops(n) THEN n ELSE g[n + 1]
    <3>. HIDE DEF g
    <3>1. First(n, g[n]) BY <1>4
    <3>2. n \in Nat BY <1>2
    <3>3. CASE Stops(n)
      <4>1. n \in Next1(n) BY <1>2, <3>2, <3>3
      <4>2. g[n] \in n .. N /\ g[n] <= n
        <5>. HIDE DEF Stops
        <5>. QED BY <3>1, <4>1
      <4>3. g[n] = n BY <4>2, <3>2, <1>2
      <4>. QED BY <3>3, <4>3
    <3>4. CASE ~Stops(n)
      <4>1. n # N BY <3>4
      <4>2. n + 1 \in 0 .. N BY <4>1, <3>2, <1>2
      <4>. HIDE DEF Stops
      <4>3. First(n + 1, g[n + 1]) BY <1>4, <4>2
      <4>4. Next1(n) = Next1(n + 1)
        <5>1. \A m \in n .. N : m = n \/ m \in n + 1 .. N BY <3>2, <1>2
        <5>2. \A m \in n + 1 .. N : m \in n .. N BY <3>2, <1>2
        <5>. QED BY <5>1, <5>2, <3>4
      <4>5. g[n] \in Nat /\ g[n + 1] \in Nat
        BY <3>1, <4>3, <3>2, <4>2, <1>2
      <4>6. g[n] <= g[n + 1] /\ g[n + 1] <= g[n] BY <3>1, <4>3, <4>4
      <4>7. g[n] = g[n + 1] BY <4>5, <4>6
      <4>. QED BY <3>4, <4>7
    <3>. QED BY <3>3, <3>4
  <2>2. g = [n \in 0 .. N |-> g[n]] OBVIOUS
  <2>. HIDE DEF g
  <2>3. g = [n \in 0 .. N |-> IF Stops(n) THEN n ELSE g[n + 1]] BY <2>1, <2>2
  <2>. QED BY <2>3 DEF N
<1>6. walk = Walks(walk) BY <1>5
<1>. HIDE DEF walk, g
<1>7. PICK c : First(0, c) BY <1>2, <1>3
<1>8. c \in Nat /\ c \in 0 .. N /\ Stops(c) BY <1>7, <1>2
<1>9. \A n \in 0 .. N : n < c => ~Stops(n)
  <2>. HIDE DEF Stops
  <2>. QED BY <1>7, <1>8
<1> DEFINE Goes == {n \in 0 .. c : walk[n] = walk[0]}
<1>10. 0 \in Goes BY <1>8
<1>11. ASSUME NEW n \in 0 .. c, n # c, n \in Goes PROVE n + 1 \in Goes
  <2>1. n + 1 \in 0 .. c /\ n \in 0 .. N /\ n < c BY <1>8, <1>11, <1>2
  <2>2. ~Stops(n) BY <1>9, <2>1
  <2>3. walk[n] = walk[n + 1] BY <1>6, <2>1, <2>2 DEF N
  <2>. QED BY <1>11, <2>1, <2>3
<1>12. walk[c] = walk[0]
  <2>1. c \in 0 .. c BY <1>8
  <2>. HIDE DEF Goes
  <2>2. c \in Goes BY <1>8, <1>10, <1>11, <2>1, UpTo
  <2>. QED BY <2>2 DEF Goes
<1>13. walk[c] = c BY <1>6, <1>8 DEF N
<1>14. policy.period # "never" BY DEF Calendars
<1>15. ASSUME c # 0 PROVE After(last, policy, c) <= t
  <2>1. c - 1 \in 0 .. N /\ c - 1 < c /\ (c - 1) + 1 = c BY <1>8, <1>15, <1>2
  <2>2. ~(NthReset(last, policy, c) > t) BY <1>9, <2>1
  <2>3. NthReset(last, policy, c) = After(last, policy, c)
        /\ After(last, policy, c) \in Nat
    BY <1>8, <1>14, NthIsAfter, AfterTyped
  <2>. QED BY <2>2, <2>3
<1>16. c = N \/ After(last, policy, c + 1) > t
  <2>1. c + 1 \in Nat BY <1>8
  <2>2. NthReset(last, policy, c + 1) = After(last, policy, c + 1)
    BY <1>14, <2>1, NthIsAfter
  <2>. QED BY <1>8, <2>2
<1>17. StopsAt(c, last, t, policy) BY <1>8, <1>15, <1>16 DEF StopsAt, N
<1>. QED BY <1>1, <1>12, <1>13, <1>17

LEMMA CyclesInThePast ==
    ASSUME NEW policy, PolicyOK(policy), NEW last \in Nat, NEW t \in Nat, last <= t
    PROVE  /\ CountResetCycles(last, t, policy) \in Nat
           /\ policy.period = "never" => CountResetCycles(last, t, policy) = 0
           /\ policy.period # "never" =>
                 After(last, policy, CountResetCycles(last, t, policy)) <= t
<1>1. CASE policy.period = "never"
  BY <1>1 DEF CountResetCycles, Calendars
<1>2. CASE policy.period = "custom"
  <2>1. PICK l : l = policy.length OBVIOUS
  <2>2. l \in Nat \ {0} BY <1>2, <2>1 DEF PolicyOK
  <2>3. PICK d : d = t - last OBVIOUS
  <2>4. d \in Nat /\ last + d = t BY <2>3
  <2>5. d \div l \in Nat /\ d = (d \div l) * l + (d % l) /\ d % l \in 0 .. l - 1
    BY <2>2, <2>4, Division
  <2>6. (d \div l) * l <= d
    <3>1. (d \div l) * l \in Nat BY <2>2, <2>5
    <3>. QED BY <2>4, <2>5, <3>1
  <2>7. CountResetCycles(last, t, policy) = d \div l
    BY <1>2, <2>1, <2>3 DEF CountResetCycles, Calendars
  <2>8. After(last, policy, d \div l) <= t
    <3>1. (d \div l) * l \in Nat BY <2>2, <2>5
    <3>2. last + (d \div l) * l <= t BY <2>4, <2>6, <3>1
    <3>3. last <= t OBVIOUS
    <3>. QED BY <1>2, <2>1, <3>2, <3>3 DEF After
  <2>. QED BY <1>2, <2>5, <2>7, <2>8
<1>3. CASE policy.period \in Calendars
  <2>1. StopsAt(CountResetCycles(last, t, policy), last, t, policy)
    BY <1>3, LoopStops
  <2>2. After(last, policy, 0) = last BY DEF After
  <2>. QED BY <1>3, <2>1, <2>2, UnitsAssumption DEF StopsAt, Calendars
<1>. QED BY <1>1, <1>2, <1>3 DEF PolicyOK

\* The last reset of so many is one, and the resets up to it are so many.
Walked(start, last, n, policy) ==
    /\ n \in Nat
    /\ last = After(start, policy, n)
    /\ policy.period = "never" => n = 0

\* The two kinds of instants, marked and reached.
CustomMark(start, n, l, t) ==
    (\E j \in 1 .. n : t = start + j * l)
       <=> (t \in start + 1 .. start + n * l /\ (t - start) % l = 0)

CalendarMark(start, n, i, u, t) ==
    (\E j \in 1 .. n : t = (start \div u + j * i) * u)
       <=> (t \in start + 1 .. (start \div u + n * i) * u
            /\ t % u = 0 /\ (t \div u - start \div u) % i = 0)

LEMMA CustomInstants ==
    ASSUME NEW start \in Nat, NEW n \in Nat, NEW l \in Nat \ {0},
           NEW t \in Nat
    PROVE  CustomMark(start, n, l, t)
<1>1. ASSUME t \in start + 1 .. start + n * l, (t - start) % l = 0
      PROVE  \E j \in 1 .. n : t = start + j * l
  <2>1. PICK d : d = t - start OBVIOUS
  <2>2. n * l \in Nat OBVIOUS
  <2>3. d \in Nat /\ d >= 1 /\ d <= n * l /\ t = start + d BY <1>1, <2>1, <2>2
  <2>4. d = (d \div l) * l + (d % l) /\ d \div l \in Nat BY <2>3, Division
  <2>5. PICK j \in Nat : j = d \div l BY <2>4
  <2>6. d = j * l
    <3>1. d % l = 0 BY <1>1, <2>1
    <3>2. (d \div l) * l \in Nat BY <2>4
    <3>. QED BY <2>4, <2>5, <3>1, <3>2
  <2>7. j # 0 BY <2>3, <2>6
  <2>8. ~(n < j)
    <3>1. n < j => n * l < j * l BY ProductsGrow
    <3>. QED BY <2>2, <2>3, <2>6, <3>1
  <2>. QED BY <2>3, <2>6, <2>7, <2>8
<1>2. ASSUME NEW j \in 1 .. n, t = start + j * l
      PROVE  t \in start + 1 .. start + n * l /\ (t - start) % l = 0
  <2>1. j \in Nat \ {0} /\ (j < n \/ j = n) OBVIOUS
  <2>2. j * l \in Nat \ {0} /\ n * l \in Nat BY <2>1
  <2>3. j < n => j * l < n * l BY <2>1, ProductsGrow
  <2>4. (j * l) % l = 0 BY <2>1, Multiples
  <2>5. PICK d \in Nat \ {0} : d = j * l BY <2>2
  <2>6. d <= n * l BY <2>1, <2>2, <2>3, <2>5
  <2>7. t - start = d BY <1>2, <2>5
  <2>8. (t - start) % l = 0 BY <2>4, <2>5, <2>7
  <2>. QED BY <1>2, <2>2, <2>5, <2>6, <2>8
<1>. QED BY <1>1, <1>2 DEF CustomMark

LEMMA CalendarInstants ==
    ASSUME NEW start \in Nat, NEW n \in Nat, NEW i \in Nat \ {0},
           NEW u \in Nat \ {0}, NEW t \in Nat, n # 0
    PROVE  CalendarMark(start, n, i, u, t)
<1>1. PICK b \in Nat : b = start \div u BY Division
<1>2. start = b * u + (start % u) /\ start % u \in 0 .. u - 1 BY <1>1, Division
<1>3. b * u <= start /\ start < b * u + u
  <2>1. b * u \in Nat BY <1>1
  <2>. QED BY <1>2, <2>1
<1>4. ASSUME t \in start + 1 .. (b + n * i) * u, t % u = 0, (t \div u - b) % i = 0
      PROVE  \E j \in 1 .. n : t = (b + j * i) * u
  <2>1. PICK a \in Nat : a = t \div u BY Division
  <2>2. t = a * u
    <3>1. a * u \in Nat BY <2>1
    <3>. QED BY <1>4, <2>1, <3>1, Division
  <2>3. b * u \in Nat /\ (b + n * i) * u \in Nat /\ a * u \in Nat BY <1>1, <2>1
  <2>4. b * u < a * u BY <1>3, <1>4, <2>2, <2>3
  <2>5. b < a BY <2>1, <2>4, ProductsGrow
  <2>6. n * i \in Nat OBVIOUS
  <2>7. ~(b + n * i < a)
    <3>1. b + n * i \in Nat BY <1>1, <2>6
    <3>2. b + n * i < a => (b + n * i) * u < a * u BY <3>1, <2>1, ProductsGrow
    <3>. QED BY <1>4, <2>2, <2>3, <3>2
  <2> DEFINE d == a - b
  <2>8. d \in Nat \ {0} /\ d = a - b BY <1>1, <2>1, <2>5
  <2>. HIDE DEF d
  <2>9. a = b + d /\ d <= n * i BY <2>7, <2>8, <2>6, <2>1, <1>1
  <2>10. d % i = 0 BY <1>4, <2>1, <2>8
  <2>11. PICK j \in Nat : j = d \div i BY <2>8, Division
  <2>12. d = j * i
    <3>1. j * i \in Nat BY <2>11
    <3>. QED BY <2>8, <2>10, <2>11, <3>1, Division
  <2>13. j # 0 BY <2>8, <2>12
  <2>14. ~(n < j)
    <3>1. n < j => n * i < j * i BY ProductsGrow
    <3>. QED BY <2>6, <2>9, <2>12, <3>1
  <2>15. t = (b + j * i) * u BY <2>2, <2>9, <2>12
  <2>. QED BY <2>13, <2>14, <2>15
<1>5. ASSUME NEW j \in 1 .. n, t = (b + j * i) * u
      PROVE  t \in start + 1 .. (b + n * i) * u /\ t % u = 0 /\ (t \div u - b) % i = 0
  <2>1. j \in Nat \ {0} /\ (j < n \/ j = n) OBVIOUS
  <2>2. j * i \in Nat /\ n * i \in Nat BY <2>1
  <2>3. PICK d \in Nat : d = j * i BY <2>2
  <2>4. d # 0 BY <2>1, <2>3
  <2>5. b + d \in Nat /\ t = (b + d) * u BY <1>1, <1>5, <2>3
  <2>6. t \div u = b + d /\ t % u = 0 BY <2>5, Multiples
  <2>7. t \div u - b = d BY <2>6, <1>1, <2>3
  <2>8. (t \div u - b) % i = 0 BY <2>1, <2>3, <2>7, Multiples
  <2>9. start < t
    <3>1. (b + 1) * u = b * u + u BY <1>1, ProductsGrow
    <3>2. b + 1 < b + d \/ b + 1 = b + d BY <1>1, <2>3, <2>4
    <3>3. b + 1 < b + d => (b + 1) * u < (b + d) * u BY <1>1, <2>5, ProductsGrow
    <3>4. (b + 1) * u \in Nat /\ (b + d) * u \in Nat BY <1>1, <2>5
    <3>. QED BY <1>3, <2>5, <3>1, <3>2, <3>3, <3>4
  <2>10. t <= (b + n * i) * u
    <3>1. CASE j = n BY <3>1, <1>5
    <3>2. CASE j < n
      <4>1. j * i < n * i BY <3>2, <2>1, ProductsGrow
      <4>2. b + j * i < b + n * i /\ b + j * i \in Nat /\ b + n * i \in Nat
        BY <4>1, <2>2, <1>1
      <4>3. (b + j * i) * u < (b + n * i) * u BY <4>2, ProductsGrow
      <4>4. (b + n * i) * u \in Nat BY <4>2
      <4>. QED BY <1>5, <4>3, <4>4
    <3>. QED BY <2>1, <3>1, <3>2
  <2>11. (b + n * i) * u \in Int BY <1>1, <2>2
  <2>. QED BY <2>6, <2>8, <2>9, <2>10, <2>11
<1>6. (\E j \in 1 .. n : t = (b + j * i) * u)
         <=> (t \in start + 1 .. (b + n * i) * u
              /\ t % u = 0 /\ (t \div u - b) % i = 0)
  BY <1>4, <1>5
<1>. QED BY <1>1, <1>6 DEF CalendarMark

\* The instants up to the n-th reset are the first n resets.
LEMMA InstantsAreAfter ==
    ASSUME NEW policy, PolicyOK(policy), policy.period # "never",
           NEW start \in Nat, NEW n \in Nat \ {0}, NEW t \in Nat
    PROVE  t \in ResetInstants(start, After(start, policy, n), policy)
               <=> \E j \in 1 .. n : t = After(start, policy, j)
<1> DEFINE last == After(start, policy, n)
           Instants == ResetInstants(start, last, policy)
<1>1. CASE policy.period = "custom"
  <2>1. PICK l \in Nat \ {0} : l = policy.length BY <1>1 DEF PolicyOK
  <2>2. last = start + n * l BY <1>1, <2>1 DEF After
  <2>3. t \in Instants
           <=> t \in start + 1 .. start + n * l /\ (t - start) % l = 0
    BY <1>1, <2>1, <2>2 DEF ResetInstants, Calendars, IsReset
  <2>4. \A j \in 1 .. n : After(start, policy, j) = start + j * l
    BY <1>1, <2>1 DEF After
  <2>5. (\E j \in 1 .. n : t = After(start, policy, j))
           <=> \E j \in 1 .. n : t = start + j * l
    BY <2>4
  <2>6. CustomMark(start, n, l, t) BY CustomInstants
  <2>. QED BY <2>3, <2>5, <2>6 DEF CustomMark
<1>2. CASE policy.period \in Calendars
  <2>1. PICK u : u = UnitLength[policy.period] OBVIOUS
  <2>2. u \in Nat \ {0} BY <1>2, <2>1, UnitsPositive
  <2>3. PICK i \in Nat \ {0} : i = policy.interval BY DEF PolicyOK
  <2>4. policy.period # "custom" BY <1>2 DEF Calendars
  <2>5. last = (start \div u + n * i) * u BY <2>1, <2>3, <2>4 DEF After
  <2>6. t \in Instants
           <=> (t \in start + 1 .. (start \div u + n * i) * u
                /\ t % u = 0 /\ (t \div u - start \div u) % i = 0)
    BY <1>2, <2>1, <2>3, <2>4, <2>5 DEF ResetInstants, IsReset
  <2>7. \A j \in 1 .. n : After(start, policy, j) = (start \div u + j * i) * u
    BY <2>1, <2>3, <2>4 DEF After
  <2>8. (\E j \in 1 .. n : t = After(start, policy, j))
           <=> \E j \in 1 .. n : t = (start \div u + j * i) * u
    BY <2>7
  <2>9. CalendarMark(start, n, i, u, t) BY <2>2, CalendarInstants
  <2>. QED BY <2>6, <2>8, <2>9 DEF CalendarMark
<1>. QED BY <1>1, <1>2 DEF PolicyOK

LEMMA InstantsCounted ==
    ASSUME NEW policy, PolicyOK(policy), NEW start \in Nat, NEW last, NEW n,
           Walked(start, last, n, policy)
    PROVE  n = Cardinality(ResetInstants(start, last, policy))
<1> DEFINE Instants == ResetInstants(start, last, policy)
<1>1. n \in Nat /\ last = After(start, policy, n) BY DEF Walked
<1>2. CASE n = 0
  <2>1. last = start BY <1>1, <1>2 DEF After
  <2>2. start + 1 .. last = {} BY <2>1
  <2>3. Instants = {} BY <2>2 DEF ResetInstants
  <2>. QED BY <1>2, <2>3, FS_EmptySet
<1>3. CASE n # 0
  <2>1. policy.period # "never" BY <1>3 DEF Walked
  <2>2. last \in Nat BY <1>1, <2>1, AfterTyped
  <2>3. \A t \in Nat :
           t \in Instants <=> \E j \in 1 .. n : t = After(start, policy, j)
    BY <1>1, <1>3, <2>1, InstantsAreAfter
  <2>4. Instants \subseteq Nat
    <3>1. Instants \subseteq start + 1 .. last BY DEF ResetInstants
    <3>2. start + 1 .. last \subseteq Nat BY <2>2
    <3>. HIDE DEF Instants
    <3>. QED BY <3>1, <3>2
  <2> DEFINE f == [j \in 1 .. n |-> After(start, policy, j)]
  <2>. HIDE DEF Instants
  <2>5. ASSUME NEW j \in 1 .. n PROVE After(start, policy, j) \in Nat
    <3>1. j \in Nat OBVIOUS
    <3>. QED BY <2>1, <3>1, AfterTyped
  <2>6. f \in [1 .. n -> Instants] BY <2>3, <2>5
  <2>7. \A t \in Instants : \E j \in 1 .. n : f[j] = t BY <2>3, <2>4
  <2>8. ASSUME NEW j \in 1 .. n, NEW k \in 1 .. n, f[j] = f[k] PROVE j = k
    <3>1. j \in Nat /\ k \in Nat /\ After(start, policy, j) = After(start, policy, k)
      BY <2>8
    <3>2. j < k \/ k < j \/ j = k BY <3>1
    <3>3. j < k => After(start, policy, j) < After(start, policy, k)
      BY <2>1, <3>1, AfterOrdered
    <3>4. k < j => After(start, policy, k) < After(start, policy, j)
      BY <2>1, <3>1, AfterOrdered
    <3>. QED BY <2>5, <3>1, <3>2, <3>3, <3>4
  <2>9. f \in Bijection(1 .. n, Instants)
    BY <2>6, <2>7, <2>8 DEF Bijection, Injection, Surjection, IsInjective
  <2>10. ExistsBijection(1 .. n, Instants) BY <2>9 DEF ExistsBijection
  <2>. QED BY <1>1, <2>10, FS_CountingElements DEF Instants
<1>. QED BY <1>2, <1>3

\* Between two resets no instant is marked.
LEMMA InstantsBetween ==
    ASSUME NEW policy, PolicyOK(policy), policy.period # "never",
           NEW start \in Nat, NEW n \in Nat, NEW t \in Nat,
           n # 0 => After(start, policy, n) <= t,
           After(start, policy, n + 1) > t
    PROVE  /\ IsFiniteSet(ResetInstants(start, t, policy))
           /\ Cardinality(ResetInstants(start, t, policy)) = n
<1> DEFINE a == After(start, policy, n)
           b == After(start, policy, n + 1)
<1>1. a \in Nat /\ b \in Nat /\ n + 1 \in Nat \ {0}
      /\ (n = 0 => a = start)
  BY AfterTyped DEF After
<1>2. ResetInstants(start, t, policy) = ResetInstants(start, a, policy)
  <2>1. ASSUME NEW x \in Nat
        PROVE  x \in ResetInstants(start, t, policy)
                   <=> x \in ResetInstants(start, a, policy)
    <3>1. ASSUME x \in ResetInstants(start, t, policy)
          PROVE  x \in ResetInstants(start, a, policy)
      <4>1. x \in start + 1 .. t BY <3>1 DEF ResetInstants
      <4>. HIDE DEF a, b
      <4>2. x <= b BY <4>1, <1>1 DEF b
      <4>3. x \in ResetInstants(start, b, policy)
        BY <3>1, <4>1, <4>2, <1>1 DEF ResetInstants
      <4>4. PICK j \in 1 .. n + 1 : x = After(start, policy, j)
        BY <4>3, <1>1, InstantsAreAfter DEF b
      <4>5. j # n + 1 BY <4>1, <4>4, <1>1 DEF b
      <4>6. j \in Nat /\ (j < n \/ j = n) BY <4>5
      <4>7. x <= a
        <5>1. j < n => After(start, policy, j) < a
          BY <4>6, AfterOrdered DEF a
        <5>. QED BY <4>4, <4>6, <5>1, <1>1 DEF a
      <4>. QED BY <3>1, <4>1, <4>7, <1>1 DEF ResetInstants
    <3>2. ASSUME x \in ResetInstants(start, a, policy)
          PROVE  x \in ResetInstants(start, t, policy)
      <4>1. x \in start + 1 .. a BY <3>2 DEF ResetInstants
      <4>. HIDE DEF a, b
      <4>2. n # 0 /\ x <= t BY <4>1, <1>1 DEF a
      <4>. QED BY <3>2, <4>1, <4>2 DEF ResetInstants
    <3>. QED BY <3>1, <3>2
  <2>2. ResetInstants(start, t, policy) \subseteq Nat
        /\ ResetInstants(start, a, policy) \subseteq Nat
    <3>1. ResetInstants(start, t, policy) \subseteq start + 1 .. t
          /\ ResetInstants(start, a, policy) \subseteq start + 1 .. a
      BY DEF ResetInstants
    <3>. HIDE DEF a, b
    <3>2. start + 1 .. t \subseteq Nat /\ start + 1 .. a \subseteq Nat
      OBVIOUS
    <3>. QED BY <3>1, <3>2
  <2>. HIDE DEF a, b
  <2>. QED BY <2>1, <2>2
<1>3. Cardinality(ResetInstants(start, a, policy)) = n
  <2>1. Walked(start, a, n, policy) BY DEF Walked
  <2>. HIDE DEF a
  <2>. QED BY <2>1, InstantsCounted
<1>4. IsFiniteSet(ResetInstants(start, t, policy))
  <2>1. ResetInstants(start, t, policy) \subseteq start + 1 .. t
    BY DEF ResetInstants
  <2>. QED BY <2>1, FS_Interval, FS_Subset
<1>. QED BY <1>2, <1>3, <1>4

\* countResetCycles counts the resets of the calendar: for every row of the
\* table of packages, every last_reset_at and every clock, its division and its
\* loop give the number of instants marked since then, unless that number is
\* beyond the cap of the loop, which then gives one more than the cap.
THEOREM CyclesAreCounted ==
    ASSUME NEW pkg, PackageRow(pkg), NEW last \in Nat, NEW t \in Nat
    PROVE  CountsResets(last, t, ResolveResetPolicy(pkg))
<1>1. PICK policy : policy = ResolveResetPolicy(pkg) OBVIOUS
<1>2. PolicyOK(policy) BY <1>1, PolicyTyped
<1> DEFINE cycles == CountResetCycles(last, t, policy)
           instants == ResetInstants(last, t, policy)
<1>3. CASE policy.period = "never"
  <2>1. instants = {} BY <1>3 DEF ResetInstants, IsReset, Calendars
  <2>2. cycles = 0 BY <1>3 DEF CountResetCycles, Calendars
  <2>3. policy.period \notin Calendars BY <1>3 DEF Calendars
  <2>. QED BY <1>1, <2>1, <2>2, <2>3, FS_EmptySet DEF CountsResets
<1>4. CASE policy.period = "custom" /\ t < last
  <2>1. instants = {}
    <3>1. instants \subseteq last + 1 .. t BY DEF ResetInstants
    <3>2. last + 1 .. t = {} BY <1>4
    <3>. QED BY <3>1, <3>2
  <2>2. cycles = 0 BY <1>4 DEF CountResetCycles, Calendars
  <2>3. policy.period \notin Calendars BY <1>4 DEF Calendars
  <2>. QED BY <1>1, <2>1, <2>2, <2>3, FS_EmptySet DEF CountsResets
<1>5. CASE policy.period = "custom" /\ ~(t < last)
  <2>1. PICK l \in Nat \ {0} : l = policy.length BY <1>2, <1>5 DEF PolicyOK
  <2>2. PICK d \in Nat : d = t - last BY <1>5
  <2>3. PICK c \in Nat : c = d \div l BY <2>1, <2>2, Division
  <2>4. d = c * l + (d % l) /\ d % l \in 0 .. l - 1 BY <2>3, Division
  <2>5. c * l \in Nat /\ (c + 1) * l = c * l + l BY <2>1, ProductsGrow
  <2>6. cycles = c
    BY <1>5, <2>1, <2>2, <2>3 DEF CountResetCycles, Calendars
  <2>7. c # 0 => After(last, policy, c) <= t
    <3>1. c * l <= d BY <2>4, <2>5
    <3>2. last + c * l <= t BY <2>2, <2>5, <3>1
    <3>. QED BY <1>5, <2>1, <3>2 DEF After
  <2>8. After(last, policy, c + 1) > t
    <3>1. d < (c + 1) * l /\ (c + 1) * l \in Nat BY <2>4, <2>5
    <3>2. last + (c + 1) * l > t BY <2>2, <3>1
    <3>. QED BY <1>5, <2>1, <3>2 DEF After
  <2>9. Cardinality(instants) = c
    BY <1>2, <1>5, <2>7, <2>8, InstantsBetween
  <2>10. policy.period \notin Calendars BY <1>5 DEF Calendars
  <2>. QED BY <1>1, <2>6, <2>9, <2>10 DEF CountsResets
<1>6. CASE policy.period \in Calendars
  <2>1. PICK c : c = cycles OBVIOUS
  <2>2. StopsAt(c, last, t, policy) BY <1>2, <1>6, <2>1, LoopStops
  <2>3. c \in Nat /\ CycleCap \in Nat /\ policy.period # "never"
    BY <1>6, <2>2, UnitsAssumption DEF StopsAt, Calendars
  <2>4. CASE c # CycleCap + 1
    <3>1. Cardinality(instants) = c
      BY <1>2, <2>2, <2>3, <2>4, InstantsBetween DEF StopsAt
    <3>2. c <= CycleCap BY <2>2, <2>3, <2>4 DEF StopsAt
    <3>. QED BY <1>1, <2>1, <2>3, <3>1, <3>2 DEF CountsResets
  <2>5. CASE c = CycleCap + 1
    <3> DEFINE past == ResetInstants(last, After(last, policy, c), policy)
    <3>1. After(last, policy, c) \in Nat /\ After(last, policy, c) <= t
      <4>1. c # 0 BY <2>3, <2>5
      <4>2. After(last, policy, c) <= t BY <2>2, <4>1 DEF StopsAt
      <4>. QED BY <1>2, <2>3, <4>2, AfterTyped
    <3>2. past \subseteq instants
      <4>1. last + 1 .. After(last, policy, c) \subseteq last + 1 .. t
        BY <3>1
      <4>. QED BY <4>1 DEF ResetInstants
    <3>3. Cardinality(past) = c
      <4>1. Walked(last, After(last, policy, c), c, policy)
        BY <2>3 DEF Walked
      <4>. QED BY <1>2, <4>1, InstantsCounted
    <3>4. IsFiniteSet(instants)
      <4>1. instants \subseteq last + 1 .. t BY DEF ResetInstants
      <4>. QED BY <4>1, FS_Interval, FS_Subset
    <3>5. Cardinality(past) <= Cardinality(instants)
          /\ Cardinality(instants) \in Nat
      BY <3>2, <3>4, FS_Subset, FS_CardinalityType
    <3>6. Cardinality(instants) > CycleCap BY <2>3, <2>5, <3>3, <3>5
    <3>. QED BY <1>1, <1>6, <2>1, <2>3, <2>5, <3>5, <3>6 DEF CountsResets
  <2>. QED BY <2>4, <2>5
<1>. QED BY <1>2, <1>3, <1>4, <1>5, <1>6 DEF PolicyOK

-----------------------------------------------------------------------------
(* Rows, and the refills that are under way.                               *)

PolicyOf(s) == ResolveResetPolicy(Package[sub[s].pkg])

\* A refill that was worked out from some last_reset_at of the row.
RefillOK(r) ==
    /\ r.row \in Ids /\ r.cycles \in Nat \ {0} /\ r.seen \in Nat
    /\ PolicyOf(r.row).period # "never"
    /\ r.last = After(r.seen, PolicyOf(r.row), r.cycles)
    /\ r.last <= now /\ r.last <= sub[r.row].end

DueOK(due) ==
    /\ \A r \in due : RefillOK(r)
    /\ \A r, x \in due : r.row = x.row => r = x

JobOK(j) == j \in Jobs \/ (RefillJob(j) /\ DueOK(j.due))

RowOK(s) ==
    /\ sub[s].last <= now /\ sub[s].last <= sub[s].end
    /\ s \notin stale /\ sub[s].status # "deleted"
          => Walked(sub[s].start, sub[s].last, refilled[s], PolicyOf(s))

SubTypes ==
    /\ now \in Nat /\ ops \in Nat
    /\ group \in Groups
    /\ sub \in Seq(Rows)
    /\ refilled \in [Ids -> Nat]
    /\ stale \subseteq Ids /\ tangled \in BOOLEAN /\ crowded \subseteq Packages

CalendarInv ==
    /\ SubTypes
    /\ \A s \in Ids : RowOK(s)
    /\ \A a \in Actors : JobOK(job[a])
    /\ live \subseteq Codes

LEMMA RowTypes ==
    ASSUME sub \in Seq(Rows)
    PROVE  /\ Len(sub) \in Nat /\ Ids = 1 .. Len(sub) /\ IsFiniteSet(Ids)
           /\ \A s \in Ids : sub[s] \in Rows
           /\ [Ids -> Rows] \subseteq Seq(Rows)
<1>1. Len(sub) \in Nat /\ Ids = 1 .. Len(sub) BY DEF Ids
<1>2. IsFiniteSet(Ids) BY <1>1, FS_Interval
<1>3. \A s \in Ids : sub[s] \in Rows BY <1>1
<1>4. [Ids -> Rows] \subseteq Seq(Rows) BY <1>1
<1>. QED BY <1>1, <1>2, <1>3, <1>4

LEMMA PolicyOfOK ==
    ASSUME sub \in Seq(Rows), NEW s \in Ids
    PROVE  PolicyOK(PolicyOf(s))
<1>1. sub[s].pkg \in Packages BY RowTypes DEF Rows
<1>. QED BY <1>1, SubscriptionConstants, PolicyTyped DEF PolicyOf

LEMMA DurationTyped ==
    ASSUME NEW p \in Packages, NEW t \in Nat
    PROVE  DurationEnd(Package[p], t) \in Nat /\ t <= DurationEnd(Package[p], t)
<1> DEFINE pkg == Package[p]
<1> DEFINE times == AtLeast(pkg.durationValue, 1)
<1> DEFINE days == AtLeast(pkg.durationDays, 1)
<1> DEFINE length == AtLeast(pkg.customLength, 1)
<1>1. PackageRow(pkg) BY SubscriptionConstants
<1>2. times \in Nat /\ days \in Nat /\ length \in Nat
  BY <1>1 DEF PackageRow, AtLeast
<1>3. AtLeast(times, days) \in Nat BY <1>2 DEF AtLeast
<1>4. /\ UnitLength["daily"] \in Nat /\ UnitLength["monthly"] \in Nat
      /\ HourLength \in Nat
  BY UnitsAssumption DEF Calendars
<1>. HIDE DEF times, days, length
<1>5. /\ 12 * times * UnitLength["monthly"] \in Nat
      /\ times * UnitLength["monthly"] \in Nat
      /\ AtLeast(times, days) * UnitLength["daily"] \in Nat
      /\ times * HourLength \in Nat /\ days * UnitLength["daily"] \in Nat
  <2>1. 12 * times \in Nat BY <1>2
  <2>. QED BY <1>2, <1>3, <1>4, <2>1
<1>6. pkg.durationUnit \in {"year", "month", "day", "hour", "custom", "other"}
  BY <1>1 DEF PackageRow
<1>7. \E d \in Nat : DurationEnd(pkg, t) = t + d
  <2>. HIDE DEF pkg
  <2>1. CASE pkg.durationUnit = "year"
    BY <2>1, <1>5 DEF DurationEnd, times
  <2>2. CASE pkg.durationUnit = "month"
    BY <2>2, <1>5 DEF DurationEnd, times
  <2>3. CASE pkg.durationUnit = "day"
    BY <2>3, <1>5 DEF DurationEnd, times, days
  <2>4. CASE pkg.durationUnit = "hour"
    BY <2>4, <1>5 DEF DurationEnd, times
  <2>5. CASE pkg.durationUnit = "custom"
    BY <2>5, <1>2 DEF DurationEnd, length
  <2>6. CASE pkg.durationUnit = "other"
    BY <2>6, <1>5 DEF DurationEnd, days
  <2>. QED BY <1>6, <2>1, <2>2, <2>3, <2>4, <2>5, <2>6
<1>. QED BY <1>7

LEMMA DowngradedTyped ==
    ASSUME NEW g \in Groups, NEW rows \in Seq(Rows), NEW s \in DOMAIN rows
    PROVE  Downgraded(g, s, rows) \in Groups
<1>1. rows[s] \in Rows OBVIOUS
<1>. QED BY <1>1 DEF Downgraded, Rows

\* A transaction that expires rows: in which order, and the group after each.
SyncRun(n, order, after) ==
    /\ n = Cardinality(Expired) /\ order \in [1 .. n -> Expired]
    /\ \A i, k \in 1 .. n : order[i] = order[k] => i = k
    /\ after[0] = group
    /\ \A i \in 1 .. n : after[i] = Downgraded(after[i - 1], order[i], sub)
    /\ group' = after[n]

LEMMA SyncUnfolds ==
    ASSUME group \in Groups, sub \in Seq(Rows), Cardinality(Expired) \in Nat,
           SyncExpired
    PROVE  \E n \in Nat : \E order, after : SyncRun(n, order, after)
<1>1. PICK n \in Nat : n = Cardinality(Expired) OBVIOUS
<1> DEFINE Body(f, order) == [i \in 0 .. n |->
               IF i = 0 THEN group ELSE Downgraded(f[i - 1], order[i], sub)]
<1>2. PICK order \in [1 .. n -> Expired] :
         /\ \A i, k \in 1 .. n : order[i] = order[k] => i = k
         /\ group' = (CHOOSE f : f = Body(f, order))[n]
  BY <1>1 DEF SyncExpired
<1> DEFINE step ==
      [ix \in (1 .. n) \X Groups |-> Downgraded(ix[2], order[ix[1]], sub)]
<1> DEFINE after == CHOOSE f : f = Body(f, order)
<1>3. step \in [(1 .. n) \X Groups -> Groups]
  <2>1. \A i \in 1 .. n : order[i] \in DOMAIN sub
    BY <1>2 DEF Expired, Active
  <2>2. \A i \in 1 .. n : \A g \in Groups : Downgraded(g, order[i], sub) \in Groups
    BY <2>1, DowngradedTyped
  <2>. QED BY <2>2
<1>4. PICK f \in [0 .. n -> Groups] : Iteration(f, n, group, step)
  <2>. HIDE DEF step
  <2>. QED BY <1>1, <1>3, IterationExists
<1>5. f = Body(f, order)
  <2>1. ASSUME NEW i \in 0 .. n, i # 0
        PROVE  step[<<i, f[i - 1]>>] = Downgraded(f[i - 1], order[i], sub)
    <3>1. i \in 1 .. n /\ i - 1 \in 0 .. n BY <1>1, <2>1
    <3>2. f[i - 1] \in Groups BY <3>1
    <3>. QED BY <3>1, <3>2
  <2>. HIDE DEF step
  <2>. QED BY <1>4, <2>1 DEF Iteration
<1>6. after = Body(after, order) BY <1>5
<1>7. group' = after[n] BY <1>2
<1>. HIDE DEF after
<1>8. \A i \in 0 .. n :
         after[i] = IF i = 0 THEN group ELSE Downgraded(after[i - 1], order[i], sub)
  BY <1>6
<1>9. 0 \in 0 .. n /\ \A i \in 1 .. n : i \in 0 .. n /\ i # 0 BY <1>1
<1>10. after[0] = group
       /\ \A i \in 1 .. n : after[i] = Downgraded(after[i - 1], order[i], sub)
  BY <1>8, <1>9
<1>11. SyncRun(n, order, after)
  <2>1. \A i, k \in 1 .. n : order[i] = order[k] => i = k BY <1>2
  <2>. HIDE DEF Body, step
  <2>. QED BY <1>1, <1>7, <1>10, <2>1 DEF SyncRun
<1>. HIDE DEF Body, step
<1>. QED BY <1>11

LEMMA SyncTyped ==
    ASSUME group \in Groups, sub \in Seq(Rows), Cardinality(Expired) \in Nat,
           SyncExpired
    PROVE  group' \in Groups
<1>1. PICK n \in Nat : \E order, after : SyncRun(n, order, after) BY SyncUnfolds
<1>2. PICK order, after : SyncRun(n, order, after) BY <1>1
<1> DEFINE Good == {i \in 0 .. n : after[i] \in Groups}
<1>3. 0 \in Good
  <2>1. 0 \in 0 .. n OBVIOUS
  <2>. QED BY <2>1, <1>2 DEF SyncRun
<1>4. ASSUME NEW i \in 0 .. n, i # n, i \in Good PROVE i + 1 \in Good
  <2>1. i + 1 \in 0 .. n /\ (i + 1) - 1 = i /\ i + 1 \in 1 .. n BY <1>4
  <2>2. after[i + 1] = Downgraded(after[i], order[i + 1], sub)
    BY <1>2, <2>1 DEF SyncRun
  <2>3. order[i + 1] \in DOMAIN sub BY <1>2, <2>1 DEF SyncRun, Expired, Active
  <2>. QED BY <1>4, <2>1, <2>2, <2>3, DowngradedTyped
<1>5. n \in Good
  <2>1. n \in 0 .. n OBVIOUS
  <2>. HIDE DEF Good
  <2>. QED BY <1>3, <1>4, <2>1, UpTo
<1>. QED BY <1>2, <1>5 DEF SyncRun

\* What a step may do to the rows a refill is under way for, and to the others.
RowsMove ==
    /\ now' \in Nat /\ now <= now'
    /\ \A s \in Ids : /\ s \in Ids' /\ sub'[s].pkg = sub[s].pkg
                      /\ sub'[s].end = sub[s].end \/ sub'[s].end = now

RowKept(s) ==
    /\ s \in Ids
    /\ sub'[s].start = sub[s].start /\ sub'[s].last = sub[s].last
    /\ refilled'[s] = refilled[s]
    /\ s \in stale => s \in stale'
    /\ sub[s].status = "deleted" => sub'[s].status = "deleted"

LEMMA JobsMove ==
    ASSUME CalendarInv, RowsMove, NEW CONSTANT j, JobOK(j)
    PROVE  JobOK(j)'
<1>1. CASE j \in Jobs BY <1>1 DEF JobOK, Jobs
<1>2. CASE RefillJob(j) /\ DueOK(j.due)
  <2>1. ASSUME NEW r \in j.due PROVE RefillOK(r)' /\ r.row \in Ids'
    <3>1. RefillOK(r) BY <1>2 DEF DueOK
    <3>2. PICK s \in Ids : s = r.row BY <3>1 DEF RefillOK
    <3>3. s \in Ids' /\ sub'[s].pkg = sub[s].pkg BY DEF RowsMove
    <3>4. PolicyOf(s)' = PolicyOf(s) BY <3>3 DEF PolicyOf
    <3>5. r.last \in Nat
      <4>1. PolicyOK(PolicyOf(s)) BY PolicyOfOK DEF CalendarInv, SubTypes
      <4>. QED BY <3>1, <3>2, <4>1, AfterTyped DEF RefillOK
    <3>6. r.last <= now' /\ r.last <= sub'[s].end
      <4>1. now \in Nat /\ now' \in Nat /\ now <= now'
        BY DEF CalendarInv, SubTypes, RowsMove
      <4>. QED BY <3>1, <3>2, <3>5, <4>1 DEF RefillOK, RowsMove
    <3>. QED BY <3>1, <3>2, <3>3, <3>4, <3>6 DEF RefillOK
  <2>. QED BY <1>2, <2>1 DEF JobOK, RefillJob, DueOK
<1>. QED BY <1>1, <1>2 DEF JobOK

LEMMA RowKeeps ==
    ASSUME CalendarInv, RowsMove, NEW s, RowKept(s)
    PROVE  RowOK(s)'
<1>1. s \in Ids /\ sub'[s].pkg = sub[s].pkg BY DEF RowKept, RowsMove
<1>2. PolicyOf(s)' = PolicyOf(s) BY <1>1 DEF PolicyOf
<1>3. sub[s] \in Rows BY <1>1, RowTypes DEF CalendarInv, SubTypes
<1>4. sub[s].last \in Nat BY <1>3 DEF Rows
<1>5. now \in Nat /\ now' \in Nat /\ now <= now'
  BY DEF CalendarInv, SubTypes, RowsMove
<1>6. RowOK(s) BY <1>1 DEF CalendarInv
<1>7. sub'[s].last <= now' /\ sub'[s].last <= sub'[s].end
  BY <1>1, <1>4, <1>5, <1>6 DEF RowOK, RowKept, RowsMove
<1>8. ASSUME s \notin stale', sub'[s].status # "deleted"
      PROVE  Walked(sub'[s].start, sub'[s].last, refilled'[s], PolicyOf(s)')
  BY <1>2, <1>6, <1>8 DEF RowOK, RowKept
<1>. QED BY <1>7, <1>8 DEF RowOK

LEMMA CalendarKeeps ==
    ASSUME CalendarInv, RowsMove, SubTypes', \A s \in Ids' : RowOK(s)',
           live' \subseteq live, NEW a \in Actors, NEW CONSTANT j, JobInv,
           job' = job \/ (job' = [job EXCEPT ![a] = j] /\ JobOK(j)')
    PROVE  CalendarInv'
<1>1. ASSUME NEW b \in Actors PROVE JobOK(job[b])'
  <2>1. PICK k : k = job[b] OBVIOUS
  <2>2. JobOK(k)
    BY <2>1 DEF CalendarInv
  <2>3. JobOK(k)' BY <2>2, JobsMove
  <2>4. PICK k2 : k2 = job'[b] OBVIOUS
  <2>5. k2 = k \/ (k2 = j /\ JobOK(j)')
    BY <2>1, <2>4 DEF JobInv
  <2>. QED BY <2>3, <2>4, <2>5
<1>. QED BY <1>1 DEF CalendarInv

-----------------------------------------------------------------------------
(* The steps of CalendarInv.                                               *)

\* The rows stay as they are, whatever the jobs do.
LEMMA RowsStay ==
    ASSUME CalendarInv, UNCHANGED <<sub, refilled, stale>>, now' \in Nat, now <= now'
    PROVE  RowsMove /\ \A s \in Ids' : RowOK(s)'
<1>1. RowsMove BY DEF RowsMove, Ids
<1>2. \A s \in Ids : RowKept(s) BY DEF RowKept
<1>. QED BY <1>1, <1>2, RowKeeps DEF Ids

LEMMA JobStep ==
    ASSUME CalendarInv, JobInv, NEW a \in Actors, NEW CONSTANT j,
           job' = job \/ (job' = [job EXCEPT ![a] = j] /\ JobOK(j)'),
           ops' \in Nat, crowded' \subseteq Packages,
           UNCHANGED <<now, group, sub, calendarVars, tangled>>,
           live' \subseteq live
    PROVE  CalendarInv'
<1>1. now' \in Nat /\ now <= now' BY DEF CalendarInv, SubTypes
<1>2. RowsMove /\ \A s \in Ids' : RowOK(s)' BY <1>1, RowsStay DEF calendarVars
<1>3. SubTypes' BY DEF CalendarInv, SubTypes, calendarVars, Ids
<1>. QED BY <1>2, <1>3, CalendarKeeps

LEMMA TickCalendar ==
    ASSUME CalendarInv, JobInv, Tick, UNCHANGED payVars PROVE CalendarInv'
<1>1. /\ now' = now + 1 /\ job' = job /\ live' = live
      /\ UNCHANGED <<group, sub, ops, refilled, stale, tangled, crowded>>
  BY DEF Tick, payVars, calendarVars, groupVars
<1>2. now \in Nat BY DEF CalendarInv, SubTypes
<1>3. now' \in Nat /\ now <= now' BY <1>1, <1>2
<1>4. RowsMove /\ \A s \in Ids' : RowOK(s)' BY <1>1, <1>3, RowsStay
<1>5. SubTypes' BY <1>1, <1>3 DEF CalendarInv, SubTypes, Ids
<1>6. CASE Actors = {}
  BY <1>1, <1>4, <1>5, <1>6 DEF CalendarInv
<1>7. CASE Actors # {} BY <1>1, <1>4, <1>5, <1>7, CalendarKeeps
<1>. QED BY <1>6, <1>7

\* A step that ends rows and tells the history nothing.
RowsEnd ==
    /\ sub' \in [Ids -> Rows]
    /\ group' \in Groups
    /\ now' = now /\ ops' \in Nat /\ tangled' \in BOOLEAN
    /\ UNCHANGED <<calendarVars, crowded>> /\ live' = live
    /\ \A s \in Ids :
          /\ sub'[s].pkg = sub[s].pkg
          /\ sub'[s].end = sub[s].end \/ sub'[s].end = now
          /\ sub'[s].start = sub[s].start /\ sub'[s].last = sub[s].last
          /\ sub[s].status = "deleted" => sub'[s].status = "deleted"

LEMMA RowsEndTyped ==
    ASSUME CalendarInv, RowsEnd
    PROVE  SubTypes' /\ RowsMove /\ (\A s \in Ids' : RowOK(s)') /\ Ids' = Ids
<1>1. SubTypes BY DEF CalendarInv
<1>2. Ids' = Ids /\ sub' \in Seq(Rows) BY <1>1, RowTypes DEF RowsEnd, Ids, SubTypes
<1>3. SubTypes' BY <1>1, <1>2 DEF RowsEnd, SubTypes, calendarVars
<1>4. RowsMove BY <1>1, <1>2 DEF RowsEnd, RowsMove, SubTypes
<1>5. \A s \in Ids : RowKept(s) BY DEF RowsEnd, RowKept, calendarVars
<1>. QED BY <1>2, <1>3, <1>4, <1>5, RowKeeps

LEMMA ExpiredFinite ==
    ASSUME sub \in Seq(Rows)
    PROVE  Expired \subseteq Ids /\ Cardinality(Expired) \in Nat
<1>1. Expired \subseteq Ids BY DEF Expired, Active, Ids
<1>. QED BY <1>1, RowTypes, FS_Subset, FS_CardinalityType

LEMMA SyncCalendar ==
    ASSUME CalendarInv, SyncExpired, now' = now, ops' \in Nat,
           UNCHANGED <<calendarVars, crowded>>, live' = live
    PROVE  RowsEnd
<1>1. SubTypes BY DEF CalendarInv
<1>2. sub \in Seq(Rows) /\ group \in Groups BY <1>1 DEF SubTypes
<1>3. Cardinality(Expired) \in Nat /\ Expired \subseteq Ids BY <1>2, ExpiredFinite
<1>5. group' \in Groups BY <1>2, <1>3, SyncTyped
<1>6. sub' = SyncedRows BY DEF SyncExpired
<1>7. \A s \in Ids : sub'[s] = IF s \in Expired
                               THEN [sub[s] EXCEPT !.status = "expired"] ELSE sub[s]
  BY <1>6 DEF SyncedRows
<1>8. ASSUME NEW s \in Ids PROVE sub[s] \in Rows /\ sub'[s] \in Rows
  <2>1. sub[s] \in Rows BY <1>2, RowTypes
  <2>. QED BY <1>7, <2>1 DEF Rows
<1>9. sub' \in [Ids -> Rows] BY <1>6, <1>8 DEF SyncedRows
<1>10. ASSUME NEW s \in Ids
       PROVE  /\ sub'[s].pkg = sub[s].pkg /\ sub'[s].end = sub[s].end
              /\ sub'[s].start = sub[s].start /\ sub'[s].last = sub[s].last
              /\ sub[s].status = "deleted" => sub'[s].status = "deleted"
  <2>1. s \in Expired => sub[s].status = "active" BY DEF Expired, Active
  <2>. QED BY <1>7, <1>8, <2>1 DEF Rows
<1>11. tangled' \in BOOLEAN BY DEF SyncExpired
<1>. QED BY <1>5, <1>9, <1>10, <1>11 DEF RowsEnd

LEMMA CancelCalendar ==
    ASSUME CalendarInv, NEW s \in Ids, Cancel(s), UNCHANGED payVars
    PROVE  RowsEnd /\ job' = job
<1>1. /\ sub \in Seq(Rows) /\ group \in Groups /\ ops \in Nat /\ now \in Nat
      /\ sub[s] \in Rows
  BY RowTypes DEF CalendarInv, SubTypes
<1>2. sub' = [sub EXCEPT ![s] =
                 [sub[s] EXCEPT !.status = "cancelled", !.end = now]]
  BY DEF Cancel
<1>3. [sub[s] EXCEPT !.status = "cancelled", !.end = now] \in Rows BY <1>1 DEF Rows
<1>4. sub' \in [Ids -> Rows] /\ sub' \in Seq(Rows) /\ s \in DOMAIN sub'
  BY <1>1, <1>2, <1>3, RowTypes DEF Ids
<1>5. group' \in Groups
  <2>1. Downgraded(group, s, sub') \in Groups BY <1>1, <1>4, DowngradedTyped
  <2>. QED BY <2>1 DEF Cancel
<1>6. sub[s].status # "deleted" BY DEF Cancel
<1>7. ASSUME NEW t \in Ids
      PROVE  /\ sub'[t].pkg = sub[t].pkg
             /\ sub'[t].end = sub[t].end \/ sub'[t].end = now
             /\ sub'[t].start = sub[t].start /\ sub'[t].last = sub[t].last
             /\ sub[t].status = "deleted" => sub'[t].status = "deleted"
  <2>1. CASE t = s
    <3>1. sub'[t] = [sub[s] EXCEPT !.status = "cancelled", !.end = now]
      BY <1>1, <1>2, <2>1 DEF Ids
    <3>. QED BY <1>1, <1>6, <2>1, <3>1 DEF Rows
  <2>2. CASE t # s
    <3>1. sub'[t] = sub[t] BY <1>1, <1>2, <2>2 DEF Ids
    <3>. QED BY <3>1
  <2>. QED BY <2>1, <2>2
<1>8. ops' \in Nat /\ tangled' \in BOOLEAN BY <1>1 DEF Cancel, Operation
<1>9. now' = now /\ UNCHANGED <<calendarVars, crowded>> /\ live' = live /\ job' = job
  BY DEF Cancel, payVars
<1>. QED BY <1>4, <1>5, <1>7, <1>8, <1>9 DEF RowsEnd

LEMMA DeleteCalendar ==
    ASSUME CalendarInv, NEW s \in Ids, Delete(s), UNCHANGED payVars
    PROVE  RowsEnd /\ job' = job
<1>1. /\ sub \in Seq(Rows) /\ group \in Groups /\ ops \in Nat
      /\ sub[s] \in Rows
  BY RowTypes DEF CalendarInv, SubTypes
<1>2. sub' = [sub EXCEPT ![s] = [sub[s] EXCEPT !.status = "deleted"]]
  BY DEF Delete
<1>3. [sub[s] EXCEPT !.status = "deleted"] \in Rows BY <1>1 DEF Rows
<1>4. sub' \in [Ids -> Rows]
  BY <1>1, <1>2, <1>3, RowTypes DEF Ids
<1>5. group' \in Groups
  <2>1. Downgraded(group, s, sub) \in Groups BY <1>1, DowngradedTyped DEF Ids
  <2>. QED BY <2>1 DEF Delete
<1>6. ASSUME NEW t \in Ids
      PROVE  /\ sub'[t].pkg = sub[t].pkg /\ sub'[t].end = sub[t].end
             /\ sub'[t].start = sub[t].start /\ sub'[t].last = sub[t].last
             /\ sub[t].status = "deleted" => sub'[t].status = "deleted"
  <2>1. CASE t = s
    <3>1. sub'[t] = [sub[s] EXCEPT !.status = "deleted"]
      BY <1>1, <1>2, <2>1 DEF Ids
    <3>. QED BY <1>1, <2>1, <3>1 DEF Rows
  <2>2. CASE t # s
    <3>1. sub'[t] = sub[t] BY <1>1, <1>2, <2>2 DEF Ids
    <3>. QED BY <3>1
  <2>. QED BY <2>1, <2>2
<1>7. ops' \in Nat /\ tangled' \in BOOLEAN BY <1>1 DEF Delete, Operation
<1>8. now' = now /\ UNCHANGED <<calendarVars, crowded>> /\ live' = live /\ job' = job
  BY DEF Delete, payVars
<1>. QED BY <1>4, <1>5, <1>6, <1>7, <1>8 DEF RowsEnd

LEMMA BindBegins ==
    ASSUME CalendarInv, JobInv, NEW a \in Actors, NEW p \in Packages, BeginBind(a, p),
           ops' \in Nat, UNCHANGED <<now, group, sub, calendarVars, tangled>>,
           live' = live
    PROVE  CalendarInv'
<1> DEFINE j == [step |-> "bind", pkg |-> p, group |-> group]
<1>1. PICK k : k = j OBVIOUS
<1>2. job' = [job EXCEPT ![a] = k] BY <1>1 DEF BeginBind
<1>3. k \in Jobs BY <1>1 DEF Jobs, CalendarInv, SubTypes
<1>4. JobOK(k)' BY <1>3 DEF JobOK, Jobs
<1>5. crowded' \subseteq Packages BY DEF BeginBind, CalendarInv, SubTypes
<1>. HIDE DEF j
<1>. QED BY <1>2, <1>4, <1>5, JobStep

LEMMA BindCommits ==
    ASSUME CalendarInv, JobInv, NEW a \in Actors, CommitBind(a), live' = live
    PROVE  CalendarInv'
<1>1. /\ sub \in Seq(Rows) /\ group \in Groups /\ now \in Nat
      /\ refilled \in [Ids -> Nat] /\ stale \subseteq Ids
      /\ Len(sub) \in Nat /\ Ids = 1 .. Len(sub)
  BY RowTypes DEF CalendarInv, SubTypes
<1>2. job[a].step = "bind" BY DEF CommitBind
<1>3. job[a] \in Jobs /\ job[a].pkg \in Packages /\ job[a].group \in Groups
  <2>1. JobOK(job[a]) BY DEF CalendarInv
  <2>. QED BY <1>2, <2>1 DEF JobOK, RefillJob, Jobs, Idle
<1>4. PICK p \in Packages : p = job[a].pkg BY <1>3
<1>5. PICK moves : moves = (Upgrade(p) \notin {NoGroup, job[a].group}) OBVIOUS
<1> DEFINE row == [status |-> "active", pkg |-> p, start |-> now,
                   end |-> DurationEnd(Package[p], now), last |-> now,
                   prev |-> IF moves THEN job[a].group ELSE NoGroup]
<1>6. /\ sub' = Append(sub, row) /\ refilled' = Append(refilled, 0)
      /\ group' = IF moves THEN Upgrade(p) ELSE group
      /\ job' = [job EXCEPT ![a] = Idle] /\ tangled' \in BOOLEAN
      /\ UNCHANGED <<now, ops, stale, crowded>>
  BY <1>4, <1>5 DEF CommitBind
<1>7. DurationEnd(Package[p], now) \in Nat /\ now <= DurationEnd(Package[p], now)
  BY <1>1, DurationTyped
<1>8. row \in Rows
  BY <1>1, <1>3, <1>7 DEF Rows
<1>9. row.last = now /\ row.start = now /\ row.end = DurationEnd(Package[p], now)
      /\ row.pkg = p
  OBVIOUS
<1>. HIDE DEF row
<1>10. PICK n \in Nat : n = Len(sub) BY <1>1
<1>11. /\ sub' \in Seq(Rows) /\ Ids' = 1 .. n + 1 /\ sub'[n + 1] = row
       /\ \A s \in Ids : s \in Ids' /\ sub'[s] = sub[s]
  BY <1>1, <1>6, <1>8, <1>10 DEF Ids
<1>12. /\ refilled' \in [Ids' -> Nat] /\ refilled'[n + 1] = 0
       /\ \A s \in Ids : refilled'[s] = refilled[s]
  <2>1. refilled \in Seq(Nat) /\ Len(refilled) = n BY <1>1, <1>10
  <2>2. /\ refilled' \in Seq(Nat) /\ Len(refilled') = n + 1
        /\ refilled'[n + 1] = 0 /\ \A s \in 1 .. n : refilled'[s] = refilled[s]
    BY <1>6, <2>1
  <2>3. refilled' \in [1 .. n + 1 -> Nat] BY <2>2
  <2>. QED BY <1>1, <1>10, <1>11, <2>2, <2>3
<1>13. group' \in Groups BY <1>1, <1>5, <1>6 DEF Groups
<1>14. SubTypes'
  BY <1>1, <1>6, <1>11, <1>12, <1>13 DEF CalendarInv, SubTypes
<1>15. RowsMove BY <1>1, <1>6, <1>11 DEF RowsMove
<1>16. ASSUME NEW s \in Ids' PROVE RowOK(s)'
  <2>1. CASE s \in Ids
    <3>1. RowKept(s) BY <1>6, <1>11, <1>12, <2>1 DEF RowKept
    <3>. QED BY <1>15, <3>1, RowKeeps
  <2>2. CASE s = n + 1
    <3>1. Walked(now, now, 0, PolicyOf(s)') BY <1>1 DEF Walked, After
    <3>. QED BY <1>1, <1>6, <1>7, <1>9, <1>11, <1>12, <2>2, <3>1 DEF RowOK
  <2>. QED BY <1>1, <1>10, <1>11, <2>1, <2>2
<1>17. JobOK(Idle)' BY DEF JobOK, Jobs
<1>. QED BY <1>6, <1>14, <1>15, <1>16, <1>17, CalendarKeeps

\* What a request works out for a row it finds running.
LEMMA RefillWorks ==
    ASSUME CalendarInv, NEW s \in Running(sub), Refill(s).cycles > 0
    PROVE  RefillOK(Refill(s)) /\ Refill(s).row = s /\ Refill(s).seen = sub[s].last
<1>1. s \in Ids /\ sub \in Seq(Rows) /\ now \in Nat
  BY DEF Running, Active, Ids, CalendarInv, SubTypes
<1>2. sub[s] \in Rows /\ sub[s].end > now /\ RowOK(s)
  BY <1>1, RowTypes DEF Running, CalendarInv
<1>3. PICK last \in Nat : last = sub[s].last BY <1>2 DEF Rows
<1>4. PICK end \in Nat : end = sub[s].end BY <1>2 DEF Rows
<1>5. PICK policy : policy = PolicyOf(s) OBVIOUS
<1>6. PolicyOK(policy) BY <1>1, <1>5, PolicyOfOK
<1>7. PICK cycles : cycles = CountResetCycles(last, now, policy) OBVIOUS
<1>8. Refill(s) = [row |-> s, seen |-> last, cycles |-> cycles,
                   last |-> AdvanceCursor(last, cycles, policy, end)]
  BY <1>3, <1>4, <1>5, <1>7 DEF Refill, PolicyOf
<1>9. last <= now BY <1>2, <1>3 DEF RowOK
<1>10. /\ cycles \in Nat
       /\ policy.period = "never" => cycles = 0
       /\ policy.period # "never" => After(last, policy, cycles) <= now
  BY <1>1, <1>6, <1>7, <1>9, CyclesInThePast
<1>11. cycles > 0 BY <1>8
<1>12. policy.period # "never" /\ cycles # 0 BY <1>10, <1>11
<1>13. After(last, policy, cycles) \in Nat /\ After(last, policy, cycles) <= end
  <2>1. After(last, policy, cycles) \in Nat BY <1>6, <1>10, <1>12, AfterTyped
  <2>. QED BY <1>1, <1>2, <1>4, <1>10, <1>12, <2>1
<1>14. AdvanceCursor(last, cycles, policy, end) = After(last, policy, cycles)
  BY <1>6, <1>10, <1>12, <1>13, CursorIsAfter
<1>. QED BY <1>1, <1>3, <1>4, <1>5, <1>8, <1>10, <1>12, <1>13, <1>14 DEF RefillOK

LEMMA RefillBegins ==
    ASSUME CalendarInv, JobInv, NEW q \in Requests, StartRefill(q), live' = live
    PROVE  CalendarInv'
<1>1. PICK due : due = DueRefills OBVIOUS
<1>2. PICK j : j = [step |-> "refill", due |-> due] OBVIOUS
<1>3. job' = [job EXCEPT ![q] = j] /\ SyncExpired /\ now' = now /\ ops' \in Nat
      /\ UNCHANGED <<calendarVars, crowded>>
  BY <1>1, <1>2 DEF StartRefill, Operation, CalendarInv, SubTypes
<1>4. q \in Actors BY DEF Actors
<1>5. JobOK(j)
  <2>1. ASSUME NEW r \in due
        PROVE  \E s \in Running(sub) : r = Refill(s) /\ RefillOK(r) /\ r.row = s
    <3>1. PICK s \in Running(sub) : r = Refill(s) /\ r.cycles > 0
      BY <1>1, <2>1 DEF DueRefills
    <3>2. RefillOK(Refill(s)) /\ Refill(s).row = s BY <3>1, RefillWorks
    <3>. QED BY <3>1, <3>2
  <2>2. DueOK(due) BY <2>1 DEF DueOK
  <2>3. \A r \in due : r.row \in Ids /\ r.cycles \in Nat \ {0}
    BY <2>1 DEF RefillOK
  <2>4. RefillJob(j) BY <1>2, <2>3 DEF RefillJob
  <2>. QED BY <1>2, <2>2, <2>4 DEF JobOK
<1>6. RowsEnd BY <1>3, SyncCalendar
<1>7. SubTypes' /\ RowsMove /\ (\A s \in Ids' : RowOK(s)')
  BY <1>6, RowsEndTyped
<1>8. JobOK(j)' BY <1>5, <1>7, JobsMove
<1>. QED BY <1>3, <1>4, <1>7, <1>8, CalendarKeeps

LEMMA RefillEnds ==
    ASSUME CalendarInv, JobInv, NEW q \in Requests, FinishRefill(q), live' = live
    PROVE  CalendarInv'
<1>1. /\ sub \in Seq(Rows) /\ now \in Nat /\ refilled \in [Ids -> Nat]
      /\ stale \subseteq Ids
  BY DEF CalendarInv, SubTypes
<1>2. q \in Actors /\ job[q].step = "refill" BY DEF Actors, FinishRefill
<1>3. PICK due : due = job[q].due OBVIOUS
<1>4. DueOK(due)
  <2>1. JobOK(job[q]) BY <1>2 DEF CalendarInv
  <2>. QED BY <1>2, <1>3, <2>1 DEF JobOK, Jobs, Idle
<1> DEFINE RefillOf(s) == CHOOSE r \in due : r.row = s
<1> DEFINE hit == {r.row : r \in due}
<1>5. /\ refilled' = [s \in Ids |->
             refilled[s] + IF s \in hit THEN RefillOf(s).cycles ELSE 0]
      /\ sub' = [s \in Ids |->
             IF s \in hit /\ sub[s].status # "deleted"
             THEN [sub[s] EXCEPT !.last = RefillOf(s).last] ELSE sub[s]]
      /\ stale' = stale \union {r.row : r \in {x \in due :
                                                  x.seen # sub[x.row].last}}
      /\ job' = [job EXCEPT ![q] = Idle]
      /\ UNCHANGED <<now, group, ops, tangled, crowded>>
  BY <1>3 DEF FinishRefill, groupVars
<1>6. ASSUME NEW s \in hit
      PROVE  /\ RefillOf(s) \in due /\ RefillOf(s).row = s
             /\ RefillOK(RefillOf(s))
  BY <1>4 DEF DueOK
<1>7. ASSUME NEW s \in hit
      PROVE  /\ RefillOf(s).cycles \in Nat /\ RefillOf(s).last \in Nat
             /\ RefillOf(s).last <= now /\ RefillOf(s).last <= sub[s].end
  <2>1. PICK r : r = RefillOf(s) OBVIOUS
  <2>2. RefillOK(r) /\ r.row = s /\ s \in Ids BY <1>6, <2>1 DEF RefillOK
  <2>3. PolicyOK(PolicyOf(s)) BY <1>1, <2>2, PolicyOfOK
  <2>4. r.last \in Nat BY <2>2, <2>3, AfterTyped DEF RefillOK
  <2>. QED BY <2>1, <2>2, <2>4 DEF RefillOK
<1>. HIDE DEF RefillOf, hit
<1>8. refilled' \in [Ids -> Nat] BY <1>1, <1>5, <1>7
<1>9. ASSUME NEW s \in Ids
      PROVE  /\ sub'[s] \in Rows
             /\ sub'[s].pkg = sub[s].pkg /\ sub'[s].end = sub[s].end
             /\ sub'[s].start = sub[s].start /\ sub'[s].status = sub[s].status
             /\ sub'[s].last = IF s \in hit /\ sub[s].status # "deleted"
                               THEN RefillOf(s).last ELSE sub[s].last
  <2>1. sub[s] \in Rows BY <1>1, RowTypes
  <2>. QED BY <1>5, <1>7, <2>1 DEF Rows
<1>10. sub' \in [Ids -> Rows]
  <2>1. \A s \in Ids : sub'[s] \in Rows BY <1>9
  <2>. QED BY <1>5, <2>1
<1>11. sub' \in Seq(Rows) /\ Ids' = Ids
  BY <1>1, <1>10, RowTypes DEF Ids
<1>12. stale' \subseteq Ids
  <2>1. \A r \in due : r.row \in Ids BY <1>4 DEF DueOK, RefillOK
  <2>. QED BY <1>1, <1>5, <2>1
<1>13. SubTypes'
  BY <1>5, <1>8, <1>11, <1>12 DEF CalendarInv, SubTypes
<1>14. RowsMove BY <1>1, <1>5, <1>9, <1>11 DEF RowsMove
<1>15. ASSUME NEW s \in Ids, s \notin stale', sub'[s].status # "deleted"
       PROVE  Walked(sub'[s].start, sub'[s].last, refilled'[s], PolicyOf(s)')
  <2>1. s \notin stale /\ sub[s].status # "deleted" BY <1>5, <1>9, <1>15
  <2>2. Walked(sub[s].start, sub[s].last, refilled[s], PolicyOf(s))
    BY <2>1 DEF CalendarInv, RowOK
  <2>3. PolicyOf(s)' = PolicyOf(s) BY <1>9 DEF PolicyOf
  <2>4. sub[s] \in Rows BY <1>1, RowTypes
  <2>5. CASE s \notin hit
    <3>1. refilled'[s] = refilled[s] BY <1>1, <1>5, <2>5
    <3>. QED BY <1>9, <2>2, <2>3, <2>5, <3>1
  <2>6. CASE s \in hit
    <3>1. PICK r \in due : r = RefillOf(s) /\ r.row = s /\ RefillOK(r)
      BY <1>6, <2>6
    <3>2. r.seen = sub[s].last BY <1>5, <1>15, <3>1
    <3>3. sub'[s].last = r.last BY <1>9, <2>1, <2>6, <3>1
    <3>4. refilled'[s] = refilled[s] + r.cycles BY <1>5, <2>6, <3>1
    <3>5. PICK policy : policy = PolicyOf(s) OBVIOUS
    <3>6. PolicyOK(policy) /\ policy.period # "never"
      BY <1>1, <3>1, <3>5, PolicyOfOK DEF RefillOK
    <3>7. PICK start \in Nat : start = sub[s].start BY <2>4 DEF Rows
    <3>8. PICK n \in Nat : n = refilled[s] BY <1>1
    <3>9. r.cycles \in Nat /\ r.last = After(r.seen, policy, r.cycles)
      BY <3>1, <3>5 DEF RefillOK
    <3>10. r.seen = After(start, policy, n)
      BY <2>2, <3>2, <3>5, <3>7, <3>8 DEF Walked
    <3>11. r.last = After(start, policy, n + r.cycles)
      <4>1. PICK m \in Nat : m = r.cycles BY <3>9
      <4>2. After(After(start, policy, n), policy, m) = After(start, policy, n + m)
        BY <3>6, AfterAfter
      <4>3. r.last = After(r.seen, policy, m) BY <3>9, <4>1
      <4>. QED BY <3>10, <4>1, <4>2, <4>3
    <3>12. n + r.cycles \in Nat BY <3>9
    <3>. QED BY <1>9, <2>3, <3>3, <3>4, <3>5, <3>6, <3>7, <3>8, <3>11, <3>12
         DEF Walked
  <2>. QED BY <2>5, <2>6
<1>16. ASSUME NEW s \in Ids' PROVE RowOK(s)'
  <2>1. s \in Ids /\ RowOK(s) BY <1>11 DEF CalendarInv
  <2>2. sub'[s].last <= now' /\ sub'[s].last <= sub'[s].end
    BY <1>5, <1>7, <1>9, <2>1 DEF RowOK
  <2>. QED BY <1>15, <2>1, <2>2 DEF RowOK
<1>17. JobOK(Idle)' BY DEF JobOK, Jobs
<1>. QED BY <1>2, <1>5, <1>13, <1>14, <1>16, <1>17, CalendarKeeps

LEMMA EndCalendar ==
    ASSUME CalendarInv, JobInv, RowsEnd, job' = job PROVE CalendarInv'
<1>1. SubTypes' /\ RowsMove /\ (\A s \in Ids' : RowOK(s)') BY RowsEndTyped
<1>2. CASE Actors = {} BY <1>1, <1>2 DEF CalendarInv, RowsEnd
<1>3. CASE Actors # {} BY <1>1, <1>3, CalendarKeeps DEF RowsEnd
<1>. QED BY <1>2, <1>3

LEMMA SubCalendar ==
    ASSUME CalendarInv, JobInv, SubNext, UNCHANGED payVars PROVE CalendarInv'
<1>1. live' = live BY DEF payVars
<1>2. CASE Tick BY <1>2, TickCalendar
<1>3. CASE SyncBatch
  <2>1. /\ SyncExpired /\ now' = now /\ ops' \in Nat /\ job' = job
        /\ UNCHANGED <<calendarVars, crowded>>
    BY <1>3 DEF SyncBatch, CalendarInv, SubTypes
  <2>2. RowsEnd BY <1>1, <2>1, SyncCalendar
  <2>. QED BY <2>1, <2>2, EndCalendar
<1>4. CASE \E s \in Ids : Cancel(s) \/ Delete(s)
  BY <1>4, CancelCalendar, DeleteCalendar, EndCalendar
<1>5. ASSUME NEW q \in Requests, NEW p \in Packages, AdminBind(q, p)
      PROVE  CalendarInv'
  <2>1. /\ BeginBind(q, p) /\ UNCHANGED <<now, group, sub, calendarVars, tangled>>
        /\ ops' \in Nat
    BY <1>5 DEF AdminBind, Operation, CalendarInv, SubTypes
  <2>. QED BY <1>1, <2>1, BindBegins DEF Actors
<1>6. ASSUME NEW q \in Requests, AdminBound(q) PROVE CalendarInv'
  BY <1>1, <1>6, BindCommits DEF AdminBound, Actors
<1>7. ASSUME NEW q \in Requests, StartRefill(q) PROVE CalendarInv'
  BY <1>1, <1>7, RefillBegins
<1>8. ASSUME NEW q \in Requests, FinishRefill(q) PROVE CalendarInv'
  BY <1>1, <1>8, RefillEnds
<1>. QED BY <1>2, <1>3, <1>4, <1>5, <1>6, <1>7, <1>8 DEF SubNext

LEMMA StillCalendar ==
    ASSUME CalendarInv, JobInv, UNCHANGED subVars, live' \subseteq live
    PROVE  CalendarInv'
<1>1. CASE Actors = {}
  <2>1. now' \in Nat /\ now <= now' BY DEF CalendarInv, SubTypes, subVars
  <2>2. \A s \in Ids' : RowOK(s)' BY <2>1, RowsStay DEF subVars
  <2>3. SubTypes' BY DEF CalendarInv, SubTypes, subVars, Ids
  <2>. QED BY <1>1, <2>2, <2>3 DEF CalendarInv
<1>2. CASE Actors # {}
  <2>1. PICK a \in Actors : TRUE BY <1>2
  <2>2. /\ job' = job /\ ops' \in Nat /\ crowded' \subseteq Packages
        /\ UNCHANGED <<now, group, sub, calendarVars, tangled>>
    BY DEF CalendarInv, SubTypes, subVars, calendarVars
  <2>. QED BY <2>1, <2>2, JobStep
<1>. QED BY <1>1, <1>2

\* A job that is about a credit, or none, begins or ends.
LEMMA AsideCalendar ==
    ASSUME CalendarInv, JobInv, NEW a \in Actors, NEW CONSTANT j, j \in Jobs,
           job' = [job EXCEPT ![a] = j], ops' \in Nat, live' = live,
           UNCHANGED <<now, group, sub, calendarVars, groupVars>>
    PROVE  CalendarInv'
<1>1. JobOK(j)' BY DEF JobOK, Jobs
<1>2. crowded' \subseteq Packages /\ tangled' = tangled
  BY DEF CalendarInv, SubTypes, groupVars
<1>. QED BY <1>1, <1>2, JobStep

LEMMA CreditCalendar ==
    ASSUME CalendarInv, JobInv, NEW q \in Requests,
           \/ \E o \in Topups : AdminComplete(q, o)
           \/ AdminCredit(q)
           \/ \E c \in Codes : RedeemRead(q, c)
           \/ RedeemUse(q)
           \/ RedeemCredit(q)
           \/ Die(q)
    PROVE  CalendarInv'
<1>1. q \in Actors BY DEF Actors
<1>2. ops \in Nat /\ ops + 1 \in Nat BY DEF CalendarInv, SubTypes
<1>3. Idle \in Jobs BY DEF Jobs
<1>4. ASSUME NEW o \in Topups, AdminComplete(q, o) PROVE CalendarInv'
  <2>1. PICK j : j = [step |-> "credit", of |-> o] OBVIOUS
  <2>2. j \in Jobs BY <2>1 DEF Jobs
  <2>. QED BY <1>1, <1>2, <1>4, <2>1, <2>2, AsideCalendar
       DEF AdminComplete, Operation, codeVars
<1>5. CASE AdminCredit(q)
  BY <1>1, <1>2, <1>3, <1>5, AsideCalendar DEF AdminCredit, codeVars
<1>6. ASSUME NEW c \in Codes, RedeemRead(q, c) PROVE CalendarInv'
  <2>1. PICK j : j = [step |-> "read", of |-> c] OBVIOUS
  <2>2. j \in Jobs BY <2>1 DEF Jobs
  <2>. QED BY <1>1, <1>2, <1>6, <2>1, <2>2, AsideCalendar
       DEF RedeemRead, Operation, payVars
<1>7. CASE RedeemUse(q)
  <2>1. job[q] \in CodeJob
    BY <1>7 DEF RedeemUse, JobInv, Elsewhere, Idle, CreditJob, CodeJob
  <2>2. PICK j : j = [job[q] EXCEPT !.step = "used"] OBVIOUS
  <2>3. j \in Jobs BY <2>1, <2>2 DEF Jobs, CodeJob
  <2>4. job' = [job EXCEPT ![q] = j] BY <1>7, <2>2 DEF RedeemUse
  <2>. QED BY <1>1, <1>2, <1>7, <2>3, <2>4, AsideCalendar DEF RedeemUse
<1>8. CASE RedeemCredit(q)
  BY <1>1, <1>2, <1>3, <1>8, AsideCalendar DEF RedeemCredit
<1>9. CASE Die(q)
  BY <1>1, <1>2, <1>3, <1>9, AsideCalendar DEF Die, Operation, codeVars
<1>. QED BY <1>4, <1>5, <1>6, <1>7, <1>8, <1>9

LEMMA InitCalendar == Init => CalendarInv
<1>. SUFFICES ASSUME Init PROVE CalendarInv
  OBVIOUS
<1>1. Ids = {} /\ sub \in Seq(Rows) /\ refilled \in [Ids -> Nat]
  BY DEF Init, SubInit, Ids
<1>2. SubTypes BY <1>1 DEF Init, SubInit, SubTypes, Groups
<1>3. \A a \in Actors : JobOK(job[a]) BY DEF Init, SubInit, JobOK, Jobs
<1>. QED BY <1>1, <1>2, <1>3 DEF CalendarInv, Init

LEMMA StepCalendar == CalendarInv /\ JobInv /\ [Next]_vars => CalendarInv'
<1>. SUFFICES ASSUME CalendarInv, JobInv, [Next]_vars PROVE CalendarInv'
  OBVIOUS
<1>1. CASE UNCHANGED vars
  BY <1>1, StillCalendar DEF vars, payVars
<1>2. CASE SubNext /\ UNCHANGED payVars BY <1>2, SubCalendar
<1>3. ASSUME NEW o \in Orders, TopupCallback(o) PROVE CalendarInv'
  BY <1>3, StillCalendar DEF TopupCallback, codeVars
<1>4. ASSUME NEW o \in PackageOrders, PackageCallback(o) PROVE CalendarInv'
  <2>1. /\ BeginBind(o, PackageOf[o]) /\ ops' = ops /\ live' = live
        /\ UNCHANGED <<now, group, sub, calendarVars, tangled>>
    BY <1>4 DEF PackageCallback, payVars
  <2>2. PackageOf[o] \in Packages BY PaymentConstants
  <2>3. ops' \in Nat BY <2>1 DEF CalendarInv, SubTypes
  <2>. QED BY <2>1, <2>2, <2>3, BindBegins DEF Actors, PackageOrders
<1>5. ASSUME NEW o \in PackageOrders, PackagePaid(o) PROVE CalendarInv'
  BY <1>5, BindCommits DEF PackagePaid, codeVars, Actors, PackageOrders
<1>6. ASSUME NEW c \in Codes, RedeemInTransaction(c) PROVE CalendarInv'
  <2>1. /\ ops' \in Nat /\ live' \subseteq live /\ job' = job
        /\ UNCHANGED <<now, group, sub, calendarVars, groupVars>>
    BY <1>6 DEF RedeemInTransaction, Operation, CalendarInv, SubTypes
  <2>2. CASE Actors # {}
    <3>1. PICK a \in Actors : TRUE BY <2>2
    <3>2. crowded' \subseteq Packages /\ tangled' = tangled
      BY <2>1 DEF CalendarInv, SubTypes, groupVars
    <3>. QED BY <2>1, <3>1, <3>2, JobStep
  <2>3. CASE Actors = {}
    <3>1. now' \in Nat /\ now <= now' BY <2>1 DEF CalendarInv, SubTypes
    <3>2. \A s \in Ids' : RowOK(s)' BY <2>1, <3>1, RowsStay DEF calendarVars
    <3>3. SubTypes'
      BY <2>1 DEF CalendarInv, SubTypes, calendarVars, groupVars, Ids
    <3>. QED BY <2>1, <2>3, <3>2, <3>3 DEF CalendarInv
  <2>. QED BY <2>2, <2>3
<1>7. CASE \E q \in Requests :
               \/ \E o \in Topups : AdminComplete(q, o)
               \/ AdminCredit(q)
               \/ \E c \in Codes : RedeemRead(q, c)
               \/ RedeemUse(q)
               \/ RedeemCredit(q)
  BY <1>7, CreditCalendar
<1>8. ASSUME NEW a \in Actors, Die(a) PROVE CalendarInv'
  <2>1. Idle \in Jobs BY DEF Jobs
  <2>2. ops' \in Nat BY <1>8 DEF Die, Operation, CalendarInv, SubTypes
  <2>. QED BY <1>8, <2>1, <2>2, AsideCalendar DEF Die, codeVars
<1>. QED BY <1>1, <1>2, <1>3, <1>4, <1>5, <1>6, <1>7, <1>8 DEF Next

\* Cursors stay on the calendar, and so do the refills requests have worked out
\* from them, while rows are bound, ended and refilled.
THEOREM CalendarInvariance == Spec => []CalendarInv
<1>1. IInv => JobInv BY DEF IInv
<1>. QED BY <1>1, InitCalendar, StepCalendar, Invariance, PTL DEF Spec

\* Every variable stays in its type, whatever is bound, ended and refilled.
THEOREM TypesHold == Spec => []TypeOK
<1>1. IInv /\ CalendarInv => TypeOK
  <2>. SUFFICES ASSUME IInv, CalendarInv PROVE TypeOK
    OBVIOUS
  <2>1. \A q \in Actors : job[q] \in Jobs \/ RefillJob(job[q])
    BY DEF CalendarInv, JobOK
  <2>. QED BY <2>1 DEF CalendarInv, SubTypes, IInv, PayTypes, TypeOK
<1>. QED BY <1>1, Invariance, CalendarInvariance, PTL

\* A refill is paid for the resets of the calendar since the last one, once
\* each and never beyond the end, unless its last_reset_at had moved meanwhile.
THEOREM RefillsPaidOnce == Spec => []RefillsFollowCalendar
<1>1. CalendarInv => RefillsFollowCalendar
  <2>. SUFFICES ASSUME CalendarInv, NEW s \in Ids \ stale, sub[s].status # "deleted"
                PROVE  /\ refilled[s] = Cardinality(ResetInstants(
                              sub[s].start, sub[s].last, PolicyOf(s)))
                       /\ sub[s].last <= sub[s].end
    BY DEF RefillsFollowCalendar, PolicyOf
  <2>1. sub \in Seq(Rows) /\ sub[s] \in Rows BY RowTypes DEF CalendarInv, SubTypes
  <2>2. sub[s].start \in Nat BY <2>1 DEF Rows
  <2>3. PolicyOK(PolicyOf(s)) BY <2>1, PolicyOfOK
  <2>4. /\ Walked(sub[s].start, sub[s].last, refilled[s], PolicyOf(s))
        /\ sub[s].last <= sub[s].end
    BY DEF CalendarInv, RowOK
  <2>. QED BY <2>2, <2>3, <2>4, InstantsCounted
<1>. QED BY <1>1, CalendarInvariance, PTL

-----------------------------------------------------------------------------
(* How often a package is bound.                                           *)

Binds(a, p) == job[a].step = "bind" /\ job[a].pkg = p

Bought(p) == Cardinality(Purchases(p))

\* Only one transaction that is about to bind has counted the purchases of p.
LimitOK(p) ==
    /\ Bought(p) <= Package[p].limit
    /\ \A a \in Actors : Binds(a, p) =>
          /\ Bought(p) < Package[p].limit
          /\ \A b \in Actors : Binds(b, p) => a = b

LimitInv == \A p \in Packages \ crowded : Package[p].limit > 0 => LimitOK(p)

LEMMA BoughtFinite ==
    ASSUME sub \in Seq(Rows), NEW p
    PROVE  IsFiniteSet(Purchases(p)) /\ Bought(p) \in Nat
<1>1. Purchases(p) \subseteq Ids BY DEF Purchases
<1>2. IsFiniteSet(Purchases(p)) BY <1>1, RowTypes, FS_Subset
<1>. QED BY <1>2, FS_CardinalityType DEF Bought

\* No package is bought, and no transaction begins to bind one.
NoneBought ==
    /\ sub \in Seq(Rows) /\ Ids' = Ids
    /\ \A s \in Ids : /\ sub'[s].pkg = sub[s].pkg
                      /\ sub[s].status = "deleted" => sub'[s].status = "deleted"
    /\ \A a \in Actors : job'[a] = job[a] \/ job'[a].step # "bind"
    /\ crowded \subseteq crowded'

LEMMA LimitKeeps == ASSUME LimitInv, NoneBought PROVE LimitInv'
<1>. SUFFICES ASSUME NEW p \in Packages \ crowded', Package[p].limit > 0
              PROVE  LimitOK(p)'
  BY DEF LimitInv
<1>1. LimitOK(p) BY DEF LimitInv, NoneBought
<1>2. Package[p].limit \in Int BY SubscriptionConstants DEF PackageRow
<1>3. IsFiniteSet(Purchases(p)) /\ Bought(p) \in Nat BY BoughtFinite DEF NoneBought
<1>4. Purchases(p)' \subseteq Purchases(p) BY DEF NoneBought, Purchases
<1>5. Bought(p)' \in Nat /\ Bought(p)' <= Bought(p)
  <2>1. IsFiniteSet(Purchases(p)') BY <1>3, <1>4, FS_Subset
  <2>2. Cardinality(Purchases(p)') <= Cardinality(Purchases(p))
    BY <1>3, <1>4, FS_Subset
  <2>3. Cardinality(Purchases(p)') \in Nat BY <2>1, FS_CardinalityType
  <2>. QED BY <2>2, <2>3 DEF Bought
<1>6. \A a \in Actors : Binds(a, p)' => Binds(a, p) BY DEF NoneBought, Binds
<1>. QED BY <1>1, <1>2, <1>3, <1>5, <1>6 DEF LimitOK

LEMMA LimitBegins ==
    ASSUME LimitInv, JobInv, NEW a \in Actors, NEW p \in Packages, job[a] = Idle,
           MayBind(p), BeginBind(a, p), sub' = sub, sub \in Seq(Rows)
    PROVE  LimitInv'
<1> DEFINE j == [step |-> "bind", pkg |-> p, group |-> group]
<1>1. /\ job' = [job EXCEPT ![a] = j] /\ j.step = "bind" /\ j.pkg = p
      /\ crowded' = IF \E r \in Actors : Binds(r, p)
                    THEN crowded \union {p} ELSE crowded
  BY DEF BeginBind, Binds
<1>. HIDE DEF j
<1>2. \A x : Purchases(x)' = Purchases(x) BY DEF Purchases, Ids
<1>3. \A x : Bought(x)' = Bought(x) BY <1>2 DEF Bought
<1>4. \A b \in Actors : job'[b] = IF b = a THEN j ELSE job[b] BY <1>1 DEF JobInv
<1>5. \A b \in Actors \ {a} : \A x : Binds(b, x)' <=> Binds(b, x)
  BY <1>4 DEF Binds
<1>6. \A x : Binds(a, x)' <=> x = p BY <1>1, <1>4 DEF Binds
<1>7. \A x : ~Binds(a, x) BY DEF Binds, Idle
<1>. SUFFICES ASSUME NEW x \in Packages \ crowded', Package[x].limit > 0
              PROVE  LimitOK(x)'
  BY DEF LimitInv
<1>8. LimitOK(x) BY <1>1 DEF LimitInv
<1>9. CASE x # p BY <1>3, <1>5, <1>6, <1>8, <1>9 DEF LimitOK
<1>10. CASE x = p
  <2>1. \A r \in Actors : ~Binds(r, p) BY <1>1, <1>10
  <2>2. Bought(p) < Package[p].limit BY <1>10 DEF MayBind, Bought
  <2>. QED BY <1>3, <1>5, <1>6, <1>8, <1>10, <2>1, <2>2 DEF LimitOK
<1>. QED BY <1>9, <1>10

LEMMA LimitCommits ==
    ASSUME LimitInv, CalendarInv, JobInv, NEW a \in Actors, CommitBind(a)
    PROVE  LimitInv'
<1>1. sub \in Seq(Rows) /\ Len(sub) \in Nat /\ Ids = 1 .. Len(sub)
  BY RowTypes DEF CalendarInv, SubTypes
<1>2. PICK n \in Nat : n = Len(sub) BY <1>1
<1>3. PICK p : p = job[a].pkg OBVIOUS
<1>4. PICK row : /\ sub' = Append(sub, row)
                 /\ row.pkg = p /\ row.status = "active"
  BY <1>3 DEF CommitBind
<1>5. job[a].step = "bind" /\ job' = [job EXCEPT ![a] = Idle] /\ crowded' = crowded
  BY DEF CommitBind
<1>6. /\ Ids' = 1 .. n + 1 /\ sub'[n + 1] = row
      /\ \A s \in 1 .. n : sub'[s] = sub[s]
  BY <1>1, <1>2, <1>4 DEF Ids
<1>7. ASSUME NEW x
      PROVE  Purchases(x)' = IF x = p THEN Purchases(x) \union {n + 1}
                             ELSE Purchases(x)
  BY <1>1, <1>2, <1>4, <1>6 DEF Purchases
<1>8. /\ \A b \in Actors : job'[b] = IF b = a THEN Idle ELSE job[b]
  BY <1>5 DEF JobInv
<1>9. \A b \in Actors : \A x : Binds(b, x)' => Binds(b, x) /\ b # a
  BY <1>8 DEF Binds, Idle
<1>. SUFFICES ASSUME NEW x \in Packages \ crowded', Package[x].limit > 0
              PROVE  LimitOK(x)'
  BY DEF LimitInv
<1>10. LimitOK(x) BY <1>5 DEF LimitInv
<1>11. CASE x # p
  <2>1. Bought(x)' = Bought(x) BY <1>7, <1>11 DEF Bought
  <2>. QED BY <1>9, <1>10, <2>1 DEF LimitOK
<1>12. CASE x = p
  <2>1. Binds(a, x) BY <1>3, <1>5, <1>12 DEF Binds
  <2>2. Bought(x) < Package[x].limit /\ \A b \in Actors : Binds(b, x) => a = b
    BY <1>10, <2>1 DEF LimitOK
  <2>3. \A b \in Actors : ~Binds(b, x)' BY <1>9, <2>2
  <2>4. Bought(x)' = Bought(x) + 1
    <3>1. n + 1 \notin Purchases(x) BY <1>1, <1>2 DEF Purchases
    <3>2. Purchases(x)' = Purchases(x) \union {n + 1} BY <1>7, <1>12
    <3>3. IsFiniteSet(Purchases(x)) BY <1>1, BoughtFinite
    <3>. QED BY <3>1, <3>2, <3>3, FS_AddElement DEF Bought
  <2>5. Bought(x) \in Nat /\ Package[x].limit \in Int
    BY <1>1, BoughtFinite, SubscriptionConstants DEF PackageRow
  <2>. QED BY <2>2, <2>3, <2>4, <2>5 DEF LimitOK
<1>. QED BY <1>11, <1>12

-----------------------------------------------------------------------------
(* The group of the user.                                                  *)

Held(rows) == Active(rows) \intersect Holders(rows)

HeldBefore(rows, s) == {h \in Held(rows) : h < s}

Up(rows, s) == Upgrade(rows[s].pkg)

\* The group the row would give back.
Origin(rows, s) == IF rows[s].prev = NoGroup THEN Up(rows, s) ELSE rows[s].prev

Among(g, held, rows) ==
    IF held = {} THEN g = BaseGroup ELSE \E h \in held : Up(rows, h) = g

\* The group of the user is due to an active row that holds it, and so is
\* the group each active row found when it was bound, to an earlier one.
Traced(g, rows) ==
    /\ Among(g, Held(rows), rows)
    /\ \A s \in Active(rows) \intersect Upgraded(rows) :
          Among(Origin(rows, s), HeldBefore(rows, s), rows)

\* Only a row that upgrades has a group to give back.
GroupInv ==
    /\ \A s \in Ids : sub[s].prev # NoGroup => s \in Upgraded(sub)
    /\ ~tangled => Traced(group, sub)

\* The rows in ended are not active any more, and nothing else of it matters.
EndOf(rows, next, ended) ==
    /\ DOMAIN rows \subseteq Nat /\ DOMAIN next = DOMAIN rows
    /\ ended \subseteq Active(rows)
    /\ \A s \in DOMAIN rows :
          /\ next[s].pkg = rows[s].pkg /\ next[s].prev = rows[s].prev
          /\ next[s].status = "active" <=> rows[s].status = "active" /\ s \notin ended

LEMMA NoGroupIsNone == NoGroup \notin Groups
BY SubscriptionConstants DEF Groups

LEMMA EndedSets ==
    ASSUME NEW rows, NEW next, NEW ended, EndOf(rows, next, ended)
    PROVE  /\ Active(next) = Active(rows) \ ended
           /\ Upgraded(next) = Upgraded(rows)
           /\ Held(next) = Held(rows) \ ended
           /\ \A s \in DOMAIN rows : Up(next, s) = Up(rows, s)
                                     /\ Origin(next, s) = Origin(rows, s)
           /\ Active(rows) \subseteq DOMAIN rows /\ Held(rows) \subseteq DOMAIN rows
<1>1. \A s \in DOMAIN rows : Up(next, s) = Up(rows, s)
                             /\ Origin(next, s) = Origin(rows, s)
  BY DEF EndOf, Up, Origin
<1>2. Active(next) = Active(rows) \ ended BY DEF EndOf, Active
<1>3. Upgraded(next) = Upgraded(rows) BY DEF EndOf, Upgraded
<1>4. Holders(next) = Holders(rows)
  BY <1>3 DEF EndOf, Holders, Upgraded
<1>5. Held(next) = Held(rows) \ ended BY <1>2, <1>4 DEF Held
<1>6. Active(rows) \subseteq DOMAIN rows BY DEF Active
<1>. QED BY <1>1, <1>2, <1>3, <1>5, <1>6 DEF Held

\* What every later row found stays due to an earlier one.
LEMMA EndsUntangled ==
    ASSUME NEW rows, NEW next, NEW ended, NEW g, EndOf(rows, next, ended),
           Traced(g, rows), ~Outlived(ended, rows)
    PROVE  \A s \in Active(next) \intersect Upgraded(next) :
              Among(Origin(next, s), HeldBefore(next, s), next)
<1>. SUFFICES ASSUME NEW s \in Active(next) \intersect Upgraded(next)
              PROVE  Among(Origin(next, s), HeldBefore(next, s), next)
  OBVIOUS
<1>1. s \in Active(rows) /\ s \in Upgraded(rows) /\ s \notin ended /\ s \in DOMAIN rows
  BY EndedSets
<1>2. s \in Nat /\ \A h \in Held(rows) : h \in Nat /\ h \in DOMAIN rows
  BY <1>1, EndedSets DEF EndOf
<1>3. \A h \in Held(rows) \intersect ended : ~(s > h)
  BY <1>1 DEF Outlived, Held
<1>4. HeldBefore(next, s) = HeldBefore(rows, s)
  <2>1. Held(next) = Held(rows) \ ended BY EndedSets
  <2>. QED BY <2>1, <1>2, <1>3 DEF HeldBefore
<1>5. Among(Origin(rows, s), HeldBefore(rows, s), rows) BY <1>1 DEF Traced
<1>6. Origin(next, s) = Origin(rows, s) BY <1>1, EndedSets
<1>7. \A h \in HeldBefore(rows, s) : Up(next, h) = Up(rows, h)
  BY <1>2, EndedSets DEF HeldBefore
<1>. QED BY <1>4, <1>5, <1>6, <1>7 DEF Among

LEMMA OthersEnd ==
    ASSUME NEW rows, NEW next, NEW ended, NEW g, EndOf(rows, next, ended),
           Traced(g, rows), ~Outlived(ended, rows), ended \intersect Holders(rows) = {}
    PROVE  Traced(g, next)
<1>1. Held(next) = Held(rows) BY EndedSets DEF Held
<1>2. \A h \in Held(rows) : Up(next, h) = Up(rows, h) BY EndedSets
<1>3. Among(g, Held(next), next) BY <1>1, <1>2 DEF Traced, Among
<1>. QED BY <1>3, EndsUntangled DEF Traced

\* The last row that holds a group ends, and leaves h: the group it found, or
\* the one of the user, if the row changed none, the user has moved on, or
\* another active row wants it.
Leaves(rows, e, g, h) ==
    \/ /\ h = rows[e].prev /\ rows[e].prev # NoGroup /\ g = Up(rows, e)
    \/ /\ h = g
       /\ \/ rows[e].prev = NoGroup
          \/ g # Up(rows, e)
          \/ \E o \in Active(rows) \ {e} : Up(rows, o) = g

LEMMA HolderEnds ==
    ASSUME NEW rows, NEW next, NEW ended, NEW g \in Groups, NEW h,
           EndOf(rows, next, ended), Traced(g, rows), ~Outlived(ended, rows),
           NEW e \in ended \intersect Holders(rows), Leaves(rows, e, g, h)
    PROVE  Traced(h, next)
<1>1. e \in Held(rows) /\ e \in DOMAIN rows /\ DOMAIN rows \subseteq Nat
  BY EndedSets DEF EndOf, Held
<1>2. \A o \in Active(rows) \intersect Upgraded(rows) : o # e => o < e
  <2>1. \A o \in Active(rows) \intersect Upgraded(rows) : ~(o > e)
    BY DEF Outlived
  <2>2. \A o \in Active(rows) : o \in Nat BY <1>1, EndedSets
  <2>. QED BY <1>1, <2>1, <2>2
<1>3. Held(rows) \subseteq Active(rows) \intersect Upgraded(rows)
  BY DEF Held, Holders
<1>4. ended \intersect Holders(rows) = {e}
  <2>1. ASSUME NEW o \in ended \intersect Holders(rows), o # e PROVE FALSE
    <3>1. o \in Active(rows) \intersect Upgraded(rows)
      BY DEF EndOf, Holders
    <3>2. o < e /\ o \in Nat /\ e \in Nat BY <1>1, <1>2, <2>1, <3>1, EndedSets
    <3>3. e \in Active(rows) \intersect Upgraded(rows) BY <1>1, <1>3
    <3>4. e > o BY <3>2
    <3>. QED BY <3>3, <3>4 DEF Outlived
  <2>. QED BY <2>1
<1>5. Held(next) = Held(rows) \ {e} BY <1>4, EndedSets DEF Held
<1>6. HeldBefore(rows, e) = Held(rows) \ {e}
  <2>1. \A o \in Held(rows) : o # e <=> o < e BY <1>1, <1>2, <1>3, EndedSets
  <2>. QED BY <2>1 DEF HeldBefore
<1>7. Among(g, Held(rows), rows) /\ \E o \in Held(rows) : Up(rows, o) = g
  BY <1>1 DEF Traced, Among
<1>8. Among(Origin(rows, e), Held(rows) \ {e}, rows)
  BY <1>1, <1>3, <1>6 DEF Traced
<1>9. Among(h, Held(rows) \ {e}, rows)
  <2>1. CASE h = rows[e].prev /\ rows[e].prev # NoGroup
    BY <1>8, <2>1 DEF Origin
  <2>2. CASE h = g /\ g # Up(rows, e)
    BY <1>7, <2>2 DEF Among
  <2>3. CASE h = g /\ g = Up(rows, e) /\ rows[e].prev = NoGroup
    BY <1>8, <2>3 DEF Origin
  <2>4. ASSUME h = g, NEW o \in Active(rows) \ {e}, Up(rows, o) = g
        PROVE  Among(h, Held(rows) \ {e}, rows)
    <3>1. o \in Upgraded(rows)
      BY <2>4, NoGroupIsNone, EndedSets DEF Up, Upgraded
    <3>2. o < e /\ o \in Nat BY <1>1, <1>2, <3>1, EndedSets
    <3>3. CASE o \in Holders(rows)
      BY <2>4, <3>3 DEF Held, Among
    <3>4. CASE o \notin Holders(rows)
      <4>1. rows[o].prev = NoGroup /\ g # BaseGroup
        BY <2>4, <3>1, <3>4 DEF Holders, Up
      <4>2. Among(g, HeldBefore(rows, o), rows)
        BY <2>4, <3>1, <4>1 DEF Traced, Origin
      <4>3. PICK k \in HeldBefore(rows, o) : Up(rows, k) = g
        BY <4>1, <4>2 DEF Among
      <4>4. k \in Held(rows) /\ k # e
        <5>1. k \in Held(rows) /\ k < o BY <4>3 DEF HeldBefore
        <5>2. k \in Nat BY <5>1, <1>1, EndedSets
        <5>. QED BY <1>1, <3>2, <5>1, <5>2
      <4>. QED BY <2>4, <4>3, <4>4 DEF Among
    <3>. QED BY <3>3, <3>4
  <2>. QED BY <2>1, <2>2, <2>3, <2>4 DEF Leaves
<1>10. \A o \in Held(rows) : Up(next, o) = Up(rows, o) BY EndedSets
<1>11. Among(h, Held(next), next) BY <1>5, <1>9, <1>10 DEF Among
<1>. QED BY <1>11, EndsUntangled DEF Traced

-----------------------------------------------------------------------------
(* The steps that bind and end rows.                                       *)

\* The expired rows but e changed no group: the group is what e leaves.
LEMMA SyncOnce ==
    ASSUME group \in Groups, sub \in Seq(Rows), SyncExpired, NEW e \in Expired,
           \A s \in Expired \ {e} : sub[s].prev = NoGroup
    PROVE  group' = Downgraded(group, e, sub)
<1>1. Cardinality(Expired) \in Nat /\ IsFiniteSet(Expired)
  BY ExpiredFinite, RowTypes, FS_Subset
<1>2. PICK n \in Nat : \E order, after : SyncRun(n, order, after)
  BY <1>1, SyncUnfolds
<1>3. PICK order, after : SyncRun(n, order, after) BY <1>2
<1>4. \E k \in 1 .. n : order[k] = e
  <2>1. order \in [1 .. n -> Expired] BY <1>3 DEF SyncRun
  <2>2. IsInjective(order) BY <1>3, <2>1 DEF SyncRun, IsInjective
  <2>3. order \in Injection(1 .. n, Expired) BY <2>1, <2>2 DEF Injection
  <2>4. Cardinality(1 .. n) = n
    <3>1. 0 <= n /\ 1 \in Int /\ n \in Int OBVIOUS
    <3>2. Cardinality(1 .. n) = IF 1 > n THEN 0 ELSE n - 1 + 1 BY <3>1, FS_Interval
    <3>. QED BY <3>1, <3>2
  <2>5. Cardinality(1 .. n) = Cardinality(Expired) BY <1>3, <2>4 DEF SyncRun
  <2>6. order \in Surjection(1 .. n, Expired) BY <1>1, <2>3, <2>5, FS_Injection
  <2>. QED BY <2>6 DEF Surjection
<1>5. PICK k \in 1 .. n : order[k] = e BY <1>4
<1>6. \A i \in 1 .. n : i # k => order[i] \in Expired \ {e}
  BY <1>3, <1>5 DEF SyncRun
<1>7. \A i \in 1 .. n : \A g : i # k => Downgraded(g, order[i], sub) = g
  BY <1>6 DEF Downgraded
<1> DEFINE Good == {i \in 0 .. n :
       after[i] = IF i < k THEN group ELSE Downgraded(group, e, sub)}
<1>8. 0 \in Good
  <2>1. 0 \in 0 .. n /\ 0 < k OBVIOUS
  <2>. QED BY <2>1, <1>3 DEF SyncRun
<1>9. ASSUME NEW i \in 0 .. n, i # n, i \in Good PROVE i + 1 \in Good
  <2>1. i + 1 \in 0 .. n /\ (i + 1) - 1 = i /\ i + 1 \in 1 .. n /\ i \in Nat
        /\ k \in Nat
    BY <1>9
  <2>2. after[i + 1] = Downgraded(after[i], order[i + 1], sub)
    BY <1>3, <2>1 DEF SyncRun
  <2>3. CASE i + 1 = k
    <3>1. i < k /\ ~(i + 1 < k) BY <2>1, <2>3
    <3>2. after[i] = group BY <1>9, <3>1
    <3>. QED BY <1>5, <2>1, <2>2, <2>3, <3>1, <3>2
  <2>4. CASE i + 1 # k
    <3>1. after[i + 1] = after[i] BY <1>7, <2>1, <2>2, <2>4
    <3>2. i + 1 < k <=> i < k BY <2>1, <2>4
    <3>. QED BY <1>9, <2>1, <3>1, <3>2
  <2>. QED BY <2>3, <2>4
<1>10. n \in Good
  <2>1. n \in 0 .. n OBVIOUS
  <2>. HIDE DEF Good
  <2>. QED BY <1>8, <1>9, <2>1, UpTo
<1>11. ~(n < k) OBVIOUS
<1>. QED BY <1>3, <1>10, <1>11 DEF SyncRun

LEMMA SyncNone ==
    ASSUME group \in Groups, sub \in Seq(Rows), SyncExpired,
           \A s \in Expired : sub[s].prev = NoGroup
    PROVE  group' = group
<1>1. CASE Expired # {}
  <2>1. PICK e \in Expired : TRUE BY <1>1
  <2>2. group' = Downgraded(group, e, sub) BY SyncOnce
  <2>. QED BY <2>2 DEF Downgraded
<1>2. CASE Expired = {}
  <2>1. Cardinality(Expired) = 0 BY <1>2, FS_EmptySet
  <2>2. PICK n \in Nat : \E order, after : SyncRun(n, order, after)
    BY <2>1, SyncUnfolds
  <2>3. PICK order, after : SyncRun(n, order, after) BY <2>2
  <2>. QED BY <2>1, <2>3 DEF SyncRun
<1>. QED BY <1>1, <1>2

LEMMA GiversKeep ==
    ASSUME GroupInv, sub \in Seq(Rows), NEW ended, EndOf(sub, sub', ended)
    PROVE  /\ Ids' = Ids
           /\ \A s \in Ids' : sub'[s].prev # NoGroup => s \in Upgraded(sub')
<1>1. Upgraded(sub') = Upgraded(sub) BY EndedSets
<1>. QED BY <1>1 DEF GroupInv, EndOf, Ids

LEMMA GroupStill ==
    ASSUME GroupInv, sub \in Seq(Rows), EndOf(sub, sub', {}), group' = group,
           tangled => tangled'
    PROVE  GroupInv'
<1>1. ~Outlived({}, sub) BY DEF Outlived
<1>2. ASSUME ~tangled' PROVE Traced(group', sub')
  BY <1>1, <1>2, OthersEnd DEF GroupInv
<1>. QED BY <1>2, GiversKeep DEF GroupInv

LEMMA EndingStep ==
    ASSUME GroupInv, sub \in Seq(Rows), group \in Groups, NEW ended,
           EndOf(sub, sub', ended),
           tangled \/ Outlived(ended, sub) => tangled',
           ended \intersect Holders(sub) = {} => group' = group \/ tangled',
           \A e \in ended \intersect Holders(sub) :
              ~tangled' => Leaves(sub, e, group, group')
    PROVE  GroupInv'
<1>1. ASSUME ~tangled' PROVE Traced(group', sub')
  <2>1. ~Outlived(ended, sub) /\ Traced(group, sub) BY <1>1 DEF GroupInv
  <2>2. CASE ended \intersect Holders(sub) = {}
    BY <1>1, <2>1, <2>2, OthersEnd
  <2>3. ASSUME NEW e \in ended \intersect Holders(sub) PROVE Traced(group', sub')
    BY <1>1, <2>1, HolderEnds
  <2>. QED BY <2>2, <2>3
<1>. QED BY <1>1, GiversKeep DEF GroupInv

LEMMA SyncGroup ==
    ASSUME GroupInv, CalendarInv, SyncExpired PROVE GroupInv'
<1>1. sub \in Seq(Rows) /\ group \in Groups BY DEF CalendarInv, SubTypes
<1>2. /\ sub' = SyncedRows /\ tangled' = (tangled \/ Outlived(Expired, sub))
  BY DEF SyncExpired
<1>3. Expired \subseteq Ids /\ Expired \subseteq Active(sub) /\ Ids \subseteq Nat
  BY <1>1, RowTypes DEF Expired, Active, Ids
<1>4. EndOf(sub, sub', Expired)
  <2>1. DOMAIN sub' = Ids BY <1>2 DEF SyncedRows
  <2>2. ASSUME NEW s \in Ids
        PROVE  /\ sub'[s].pkg = sub[s].pkg /\ sub'[s].prev = sub[s].prev
               /\ sub'[s].status = "active"
                     <=> sub[s].status = "active" /\ s \notin Expired
    <3>1. sub'[s] = IF s \in Expired THEN [sub[s] EXCEPT !.status = "expired"]
                    ELSE sub[s]
      BY <1>2 DEF SyncedRows
    <3>2. sub[s] \in Rows BY <1>1, RowTypes
    <3>. QED BY <3>1, <3>2 DEF Rows
  <2>. QED BY <1>3, <2>1, <2>2 DEF EndOf, Ids
<1>5. \A s \in Expired : sub[s].prev # NoGroup => s \in Holders(sub)
  BY <1>3 DEF GroupInv, Holders
<1>6. CASE Expired \intersect Holders(sub) = {}
  <2>1. group' = group BY <1>1, <1>5, <1>6, SyncNone
  <2>. QED BY <1>1, <1>2, <1>4, <1>6, <2>1, EndingStep
<1>7. ASSUME NEW e \in Expired \intersect Holders(sub), ~Outlived(Expired, sub)
      PROVE  Leaves(sub, e, group, group')
  <2>1. ASSUME NEW s \in Expired \ {e}, sub[s].prev # NoGroup PROVE FALSE
    <3>1. s \in Holders(sub) BY <1>5, <2>1
    <3>2. s \in Nat /\ e \in Nat /\ (s < e \/ e < s) BY <1>3, <2>1
    <3>3. e \in Upgraded(sub) \intersect Active(sub)
          /\ s \in Upgraded(sub) \intersect Active(sub)
      BY <1>3, <3>1 DEF Holders
    <3>4. e > s \/ s > e BY <3>2
    <3>. QED BY <1>7, <3>1, <3>3, <3>4 DEF Outlived
  <2>2. group' = Downgraded(group, e, sub) BY <1>1, <2>1, SyncOnce
  <2>3. \A o \in Running(sub) : o \in Active(sub) \ {e}
    <3>1. ~(sub[e].end > now)
      <4>1. e \in Ids /\ sub[e] \in Rows /\ sub[e].end <= now
        BY <1>1, <1>3, RowTypes DEF Expired
      <4>. QED BY <4>1 DEF Rows, CalendarInv, SubTypes
    <3>. QED BY <3>1 DEF Running
  <2>. QED BY <2>2, <2>3 DEF Downgraded, Leaves, Up
<1>8. CASE Expired \intersect Holders(sub) # {}
  BY <1>1, <1>2, <1>4, <1>7, <1>8, EndingStep
<1>. QED BY <1>6, <1>8

\* Cancelling and deleting: the row of an active subscription ends, that of
\* another has ended before.
LEMMA OneEnds ==
    ASSUME GroupInv, CalendarInv, NEW s \in Ids, NEW rows,
           EndOf(sub, sub', {s} \intersect Active(sub)),
           group' = Downgraded(group, s, rows),
           rows[s].prev = sub[s].prev, rows[s].pkg = sub[s].pkg,
           \A o \in Running(rows) : o \in Active(sub) /\ rows[o].pkg = sub[o].pkg,
           s \notin Active(sub) => Running(sub) \subseteq Running(rows),
           s \in Running(rows) => tangled' \/ sub[s].prev = NoGroup,
           tangled \/ Outlived({s} \intersect Active(sub), sub) \/ Revived(s)
              => tangled'
    PROVE  GroupInv'
<1>1. sub \in Seq(Rows) /\ group \in Groups BY DEF CalendarInv, SubTypes
<1>2. s \in Upgraded(sub) \/ sub[s].prev = NoGroup BY DEF GroupInv
<1>3. CASE s \in Active(sub) /\ s \in Holders(sub)
  <2>1. ASSUME ~tangled' PROVE Leaves(sub, s, group, group')
    <3>1. CASE sub[s].prev = NoGroup BY <3>1 DEF Downgraded, Leaves
    <3>2. CASE sub[s].prev # NoGroup
      <4>1. \A o \in Running(rows) : o \in Active(sub) \ {s}
                                     /\ Upgrade(rows[o].pkg) = Up(sub, o)
        BY <2>1, <3>2 DEF Up
      <4>. QED BY <4>1, <3>2 DEF Downgraded, Leaves, Up
    <3>. QED BY <3>1, <3>2
  <2>. QED BY <1>1, <1>3, <2>1, EndingStep
<1>4. CASE s \in Active(sub) /\ s \notin Holders(sub)
  <2>1. sub[s].prev = NoGroup BY <1>2, <1>4 DEF Holders
  <2>2. group' = group BY <2>1 DEF Downgraded
  <2>. QED BY <1>1, <1>4, <2>2, EndingStep
<1>5. CASE s \notin Active(sub)
  <2>1. {s} \intersect Active(sub) = {} BY <1>5
  <2>2. ASSUME ~tangled' PROVE group' = group
    <3>1. ~Revived(s) BY <2>2
    <3>2. \A o \in Running(sub) : o \in Running(rows) /\ rows[o].pkg = sub[o].pkg
      BY <1>5
    <3>. QED BY <1>5, <3>1, <3>2 DEF Revived, Downgraded
  <2>. QED BY <1>1, <2>1, <2>2, EndingStep
<1>. QED BY <1>3, <1>4, <1>5

LEMMA CancelGroup ==
    ASSUME GroupInv, CalendarInv, NEW s \in Ids, Cancel(s) PROVE GroupInv'
<1>1. sub \in Seq(Rows) /\ Ids \subseteq Nat /\ now \in Nat
  BY RowTypes DEF CalendarInv, SubTypes
<1>2. /\ sub' = [sub EXCEPT ![s] =
                    [sub[s] EXCEPT !.status = "cancelled", !.end = now]]
      /\ group' = Downgraded(group, s, sub') /\ now' = now
      /\ tangled' = (tangled \/ Outlived({s} \intersect Active(sub), sub)
                              \/ Revived(s))
  BY DEF Cancel
<1>3. DOMAIN sub' = Ids /\ \A t \in Ids \ {s} : sub'[t] = sub[t]
  BY <1>1, <1>2 DEF Ids
<1>4. /\ sub'[s].pkg = sub[s].pkg /\ sub'[s].prev = sub[s].prev
      /\ sub'[s].status = "cancelled"
  <2>1. sub[s] \in Rows BY <1>1, RowTypes
  <2>2. sub'[s] = [sub[s] EXCEPT !.status = "cancelled", !.end = now]
    BY <1>2, <1>1 DEF Ids
  <2>. QED BY <2>1, <2>2 DEF Rows
<1>5. EndOf(sub, sub', {s} \intersect Active(sub))
  BY <1>1, <1>3, <1>4 DEF EndOf, Active, Ids
<1>6. \A o \in Running(sub') : o \in Active(sub) \ {s} /\ sub'[o].pkg = sub[o].pkg
  BY <1>3, <1>4 DEF Running, Active, Ids
<1>7. s \notin Active(sub) => Running(sub) \subseteq Running(sub')
  BY <1>3 DEF Running, Active, Ids
<1>. QED BY <1>2, <1>4, <1>5, <1>6, <1>7, OneEnds

LEMMA DeleteGroup ==
    ASSUME GroupInv, CalendarInv, NEW s \in Ids, Delete(s) PROVE GroupInv'
<1>1. sub \in Seq(Rows) /\ Ids \subseteq Nat BY RowTypes DEF CalendarInv, SubTypes
<1>2. /\ sub' = [sub EXCEPT ![s] = [sub[s] EXCEPT !.status = "deleted"]]
      /\ group' = Downgraded(group, s, sub)
      /\ tangled' = (tangled \/ Outlived({s} \intersect Active(sub), sub)
                              \/ Revived(s)
                              \/ (s \in Running(sub) /\ sub[s].prev # NoGroup))
  BY DEF Delete
<1>3. DOMAIN sub' = Ids /\ \A t \in Ids \ {s} : sub'[t] = sub[t]
  BY <1>1, <1>2 DEF Ids
<1>4. /\ sub'[s].pkg = sub[s].pkg /\ sub'[s].prev = sub[s].prev
      /\ sub'[s].status = "deleted"
  <2>1. sub[s] \in Rows BY <1>1, RowTypes
  <2>2. sub'[s] = [sub[s] EXCEPT !.status = "deleted"] BY <1>2, <1>1 DEF Ids
  <2>. QED BY <2>1, <2>2 DEF Rows
<1>5. EndOf(sub, sub', {s} \intersect Active(sub))
  BY <1>1, <1>3, <1>4 DEF EndOf, Active, Ids
<1>6. \A o \in Running(sub) : o \in Active(sub) BY DEF Running
<1>. QED BY <1>2, <1>5, <1>6, OneEnds

LEMMA GroupCommits ==
    ASSUME GroupInv, CalendarInv, NEW a \in Actors, CommitBind(a) PROVE GroupInv'
<1>1. sub \in Seq(Rows) /\ group \in Groups /\ Ids = 1 .. Len(sub) /\ Len(sub) \in Nat
  BY RowTypes DEF CalendarInv, SubTypes
<1>2. job[a].group \in Groups
  <2>1. job[a].step = "bind" BY DEF CommitBind
  <2>2. JobOK(job[a]) BY DEF CalendarInv
  <2>. QED BY <2>1, <2>2 DEF JobOK, RefillJob, Jobs, Idle
<1>3. PICK p : p = job[a].pkg OBVIOUS
<1>4. PICK found : found = job[a].group OBVIOUS
<1>5. PICK m \in Nat : m = Len(sub) + 1 BY <1>1
<1>6. PICK row :
         /\ sub' = Append(sub, row)
         /\ row.pkg = p /\ row.status = "active"
         /\ row.prev = IF Upgrade(p) \notin {NoGroup, found} THEN found ELSE NoGroup
  BY <1>3, <1>4 DEF CommitBind
<1>7. /\ group' = IF Upgrade(p) \notin {NoGroup, found} THEN Upgrade(p) ELSE group
      /\ tangled' = (tangled \/ (Upgrade(p) # NoGroup /\ group # found))
  BY <1>3, <1>4 DEF CommitBind
<1>8. /\ DOMAIN sub = Ids /\ DOMAIN sub' = Ids \union {m} /\ sub'[m] = row
      /\ \A s \in Ids : sub'[s] = sub[s] /\ s \in Nat /\ s < m
  BY <1>1, <1>5, <1>6 DEF Ids
<1>9. found # NoGroup BY <1>2, <1>4, NoGroupIsNone
<1>10. /\ Active(sub') = Active(sub) \union {m} /\ Active(sub) \subseteq Ids
       /\ Upgraded(sub') = Upgraded(sub)
             \union (IF Upgrade(p) # NoGroup THEN {m} ELSE {})
       /\ Upgraded(sub) \subseteq Ids
  BY <1>6, <1>8 DEF Active, Upgraded
<1>11. ASSUME NEW s \in Ids' PROVE sub'[s].prev # NoGroup => s \in Upgraded(sub')
  BY <1>6, <1>8, <1>10 DEF GroupInv, Ids
<1>12. ASSUME ~tangled' PROVE Traced(group', sub')
  <2>1. Traced(group, sub) /\ (Upgrade(p) = NoGroup \/ group = found)
    BY <1>7, <1>12 DEF GroupInv
  <2> DEFINE holds == /\ Upgrade(p) # NoGroup
                      /\ row.prev # NoGroup \/ Upgrade(p) = BaseGroup
  <2>2. Holders(sub') = Holders(sub) \union (IF holds THEN {m} ELSE {})
    BY <1>6, <1>8, <1>10 DEF Holders
  <2>3. Held(sub') = Held(sub) \union (IF holds THEN {m} ELSE {})
        /\ Held(sub) \subseteq Ids
    BY <1>8, <1>10, <2>2 DEF Held, Holders
  <2>4. \A s \in Ids : Up(sub', s) = Up(sub, s) /\ Origin(sub', s) = Origin(sub, s)
    BY <1>8 DEF Up, Origin
  <2>5. ASSUME NEW g, NEW held \in SUBSET Ids, Among(g, held, sub)
        PROVE  Among(g, held, sub')
    BY <2>4, <2>5 DEF Among
  <2>6. HeldBefore(sub', m) = Held(sub) BY <1>8, <2>3 DEF HeldBefore
  <2>7. \A s \in Ids : HeldBefore(sub', s) = HeldBefore(sub, s)
    BY <1>8, <2>3 DEF HeldBefore
  <2>8. Up(sub', m) = Upgrade(p) BY <1>6, <1>8 DEF Up
  <2>9. Among(group, Held(sub), sub) BY <2>1 DEF Traced
  <2>10. Among(group', Held(sub'), sub')
    <3>1. CASE holds
      <4>1. m \in Held(sub') BY <2>3, <3>1
      <4>2. group' = Upgrade(p) BY <1>7, <2>1, <3>1
      <4>. QED BY <2>8, <4>1, <4>2 DEF Among
    <3>2. CASE ~holds
      <4>1. Upgrade(p) \in {NoGroup, found} BY <1>6, <1>9, <3>2
      <4>2. group' = group /\ Held(sub') = Held(sub) BY <1>7, <2>3, <3>2, <4>1
      <4>. QED BY <2>3, <2>5, <2>9, <4>2
    <3>. QED BY <3>1, <3>2
  <2>11. ASSUME NEW s \in Active(sub') \intersect Upgraded(sub')
         PROVE  Among(Origin(sub', s), HeldBefore(sub', s), sub')
    <3>1. CASE s = m
      <4>1. Upgrade(p) # NoGroup BY <1>8, <1>10, <2>11, <3>1
      <4>2. Origin(sub', m) = group
        BY <1>6, <1>8, <1>9, <2>1, <2>8, <4>1 DEF Origin
      <4>. QED BY <2>3, <2>5, <2>6, <2>9, <3>1, <4>2
    <3>2. CASE s # m
      <4>1. s \in Ids /\ s \in Active(sub) \intersect Upgraded(sub)
        BY <1>10, <2>11, <3>2
      <4>2. Among(Origin(sub, s), HeldBefore(sub, s), sub) BY <2>1, <4>1 DEF Traced
      <4>3. HeldBefore(sub, s) \subseteq Ids BY <2>3 DEF HeldBefore
      <4>. QED BY <2>4, <2>5, <2>7, <4>1, <4>2, <4>3
    <3>. QED BY <3>1, <3>2
  <2>. QED BY <2>10, <2>11 DEF Traced
<1>. QED BY <1>11, <1>12 DEF GroupInv

-----------------------------------------------------------------------------
(* Both invariants in every step.                                          *)

BindingInv == LimitInv /\ GroupInv

\* No row is bound or ends, and no transaction begins to bind one.
LEMMA BindingStill ==
    ASSUME BindingInv, CalendarInv, UNCHANGED <<group, sub, groupVars>>,
           \A a \in Actors : job'[a] = job[a] \/ job'[a].step # "bind"
    PROVE  BindingInv'
<1>1. sub \in Seq(Rows) /\ Ids \subseteq Nat BY RowTypes DEF CalendarInv, SubTypes
<1>2. NoneBought BY <1>1 DEF NoneBought, Ids, groupVars
<1>3. EndOf(sub, sub', {}) BY <1>1 DEF EndOf, Ids
<1>4. LimitInv' BY <1>2, LimitKeeps DEF BindingInv
<1>5. GroupInv' BY <1>1, <1>3, GroupStill DEF BindingInv, groupVars
<1>. QED BY <1>4, <1>5 DEF BindingInv

LEMMA BindingBegins ==
    ASSUME BindingInv, CalendarInv, JobInv, NEW a \in Actors, NEW p \in Packages,
           job[a] = Idle, MayBind(p), BeginBind(a, p),
           UNCHANGED <<group, sub, tangled>>
    PROVE  BindingInv'
<1>1. sub \in Seq(Rows) /\ Ids \subseteq Nat BY RowTypes DEF CalendarInv, SubTypes
<1>2. EndOf(sub, sub', {}) BY <1>1 DEF EndOf, Ids
<1>3. LimitInv' BY <1>1, LimitBegins DEF BindingInv
<1>4. GroupInv' BY <1>1, <1>2, GroupStill DEF BindingInv
<1>. QED BY <1>3, <1>4 DEF BindingInv

LEMMA BindingCommits ==
    ASSUME BindingInv, CalendarInv, JobInv, NEW a \in Actors, CommitBind(a)
    PROVE  BindingInv'
BY LimitCommits, GroupCommits DEF BindingInv

\* The status of rows, or the end, changes: nothing is bought.
LEMMA EndingBuysNone ==
    ASSUME CalendarInv, Ids' = Ids,
           \A s \in Ids :
              /\ sub'[s].pkg = sub[s].pkg
              /\ sub[s].status = "deleted" => sub'[s].status = "deleted",
           \A a \in Actors : job'[a] = job[a] \/ job'[a].step # "bind",
           crowded' = crowded
    PROVE  NoneBought
BY DEF NoneBought, CalendarInv, SubTypes

LEMMA BindingSyncs ==
    ASSUME BindingInv, CalendarInv, SyncExpired, crowded' = crowded,
           \A a \in Actors : job'[a] = job[a] \/ job'[a].step # "bind"
    PROVE  BindingInv'
<1>1. sub \in Seq(Rows) /\ sub' = SyncedRows
  BY DEF CalendarInv, SubTypes, SyncExpired
<1>2. Ids' = Ids BY <1>1 DEF SyncedRows, Ids
<1>3. ASSUME NEW s \in Ids
      PROVE  /\ sub'[s].pkg = sub[s].pkg
             /\ sub[s].status = "deleted" => sub'[s].status = "deleted"
  <2>1. sub'[s] = IF s \in Expired THEN [sub[s] EXCEPT !.status = "expired"]
                  ELSE sub[s]
    BY <1>1 DEF SyncedRows
  <2>2. sub[s] \in Rows BY <1>1, RowTypes
  <2>. QED BY <2>1, <2>2 DEF Rows, Expired, Active
<1>4. LimitInv' BY <1>2, <1>3, EndingBuysNone, LimitKeeps DEF BindingInv
<1>. QED BY <1>4, SyncGroup DEF BindingInv

LEMMA BindingEnds ==
    ASSUME BindingInv, CalendarInv, NEW s \in Ids, Cancel(s) \/ Delete(s)
    PROVE  BindingInv'
<1>1. sub \in Seq(Rows) /\ sub[s] \in Rows
  BY RowTypes DEF CalendarInv, SubTypes
<1>2. job' = job /\ crowded' = crowded /\ sub[s].status # "deleted"
  BY DEF Cancel, Delete
<1>3. Ids' = Ids /\ (\A t \in Ids \ {s} : sub'[t] = sub[t])
      /\ sub'[s].pkg = sub[s].pkg
  BY <1>1 DEF Cancel, Delete, Ids, Rows
<1>4. LimitInv' BY <1>2, <1>3, EndingBuysNone, LimitKeeps DEF BindingInv
<1>. QED BY <1>4, CancelGroup, DeleteGroup DEF BindingInv

\* A refill moves a cursor and nothing else of a row.
LEMMA BindingRefills ==
    ASSUME BindingInv, CalendarInv, JobInv, NEW q \in Requests, FinishRefill(q)
    PROVE  BindingInv'
<1>1. sub \in Seq(Rows) /\ Ids \subseteq Nat BY RowTypes DEF CalendarInv, SubTypes
<1>2. PICK hit, new :
         /\ sub' = [s \in Ids |->
                      IF s \in hit /\ sub[s].status # "deleted"
                      THEN [sub[s] EXCEPT !.last = new[s]] ELSE sub[s]]
         /\ job' = [job EXCEPT ![q] = Idle]
         /\ group' = group /\ tangled' = tangled /\ crowded' = crowded
  <2> DEFINE hit == {r.row : r \in job[q].due}
  <2> DEFINE new == [s \in Ids |-> (CHOOSE r \in job[q].due : r.row = s).last]
  <2>1. /\ sub' = [s \in Ids |->
                      IF s \in hit /\ sub[s].status # "deleted"
                      THEN [sub[s] EXCEPT !.last = new[s]] ELSE sub[s]]
        /\ job' = [job EXCEPT ![q] = Idle]
        /\ group' = group /\ tangled' = tangled /\ crowded' = crowded
    BY DEF FinishRefill, groupVars
  <2>. HIDE DEF hit, new
  <2>. QED BY <2>1
<1>3. Ids' = Ids BY <1>2 DEF Ids
<1>4. ASSUME NEW s \in Ids
      PROVE  /\ sub'[s].pkg = sub[s].pkg /\ sub'[s].prev = sub[s].prev
             /\ sub'[s].status = sub[s].status
  <2>1. sub[s] \in Rows BY <1>1, RowTypes
  <2>. QED BY <1>2, <2>1 DEF Rows
<1>5. \A a \in Actors : job'[a] = job[a] \/ job'[a].step # "bind"
  BY <1>2 DEF JobInv, Idle
<1>6. EndOf(sub, sub', {}) BY <1>1, <1>3, <1>4 DEF EndOf, Ids
<1>7. GroupInv' BY <1>1, <1>2, <1>6, GroupStill DEF BindingInv
<1>8. LimitInv' BY <1>2, <1>3, <1>4, <1>5, EndingBuysNone, LimitKeeps DEF BindingInv
<1>. QED BY <1>7, <1>8 DEF BindingInv

LEMMA SubBinding ==
    ASSUME BindingInv, CalendarInv, JobInv, SubNext PROVE BindingInv'
<1>1. CASE Tick BY <1>1, BindingStill DEF Tick
<1>2. CASE SyncBatch BY <1>2, BindingSyncs DEF SyncBatch
<1>3. CASE \E s \in Ids : Cancel(s) \/ Delete(s) BY <1>3, BindingEnds
<1>4. ASSUME NEW q \in Requests, NEW p \in Packages, AdminBind(q, p)
      PROVE  BindingInv'
  BY <1>4, BindingBegins DEF AdminBind, Actors
<1>5. ASSUME NEW q \in Requests, AdminBound(q) PROVE BindingInv'
  BY <1>5, BindingCommits DEF AdminBound, Actors
<1>6. ASSUME NEW q \in Requests, StartRefill(q) PROVE BindingInv'
  <2>1. /\ SyncExpired /\ crowded' = crowded
        /\ job' = [job EXCEPT ![q] = [step |-> "refill", due |-> DueRefills]]
    BY <1>6 DEF StartRefill
  <2>2. \A a \in Actors : job'[a] = job[a] \/ job'[a].step # "bind"
    BY <2>1 DEF JobInv
  <2>. QED BY <2>1, <2>2, BindingSyncs
<1>7. ASSUME NEW q \in Requests, FinishRefill(q) PROVE BindingInv'
  BY <1>7, BindingRefills
<1>. QED BY <1>1, <1>2, <1>3, <1>4, <1>5, <1>6, <1>7 DEF SubNext

\* The steps of orders and codes but those that bind.
LEMMA CreditBinding ==
    ASSUME BindingInv, CalendarInv, JobInv, NEW a \in Actors,
           \/ \E o \in Topups : AdminComplete(a, o)
           \/ AdminCredit(a)
           \/ \E c \in Codes : RedeemRead(a, c)
           \/ RedeemUse(a) /\ a \in Requests
           \/ RedeemCredit(a)
           \/ Die(a)
    PROVE  BindingInv'
<1>1. UNCHANGED <<group, sub, groupVars>>
  BY DEF AdminComplete, AdminCredit, RedeemRead, RedeemUse, RedeemCredit, Die
<1>2. \E j : job' = [job EXCEPT ![a] = j] /\ j.step # "bind"
  <2>1. ASSUME NEW o, AdminComplete(a, o)
        PROVE  \E j : job' = [job EXCEPT ![a] = j] /\ j.step # "bind"
    <3>1. PICK j : j = [step |-> "credit", of |-> o] OBVIOUS
    <3>2. job' = [job EXCEPT ![a] = j] BY <2>1, <3>1 DEF AdminComplete
    <3>3. j.step = "credit" BY <3>1
    <3>. QED BY <3>2, <3>3
  <2>2. ASSUME NEW c, RedeemRead(a, c)
        PROVE  \E j : job' = [job EXCEPT ![a] = j] /\ j.step # "bind"
    <3>1. PICK j : j = [step |-> "read", of |-> c] OBVIOUS
    <3>2. job' = [job EXCEPT ![a] = j] BY <2>2, <3>1 DEF RedeemRead
    <3>3. j.step = "read" BY <3>1
    <3>. QED BY <3>2, <3>3
  <2>3. CASE AdminCredit(a) \/ RedeemCredit(a) \/ Die(a)
    BY <2>3 DEF AdminCredit, RedeemCredit, Die, Idle
  <2>4. CASE RedeemUse(a) /\ a \in Requests
    <3>1. job[a] \in CodeJob
      BY <2>4 DEF RedeemUse, JobInv, Elsewhere, Idle, CreditJob, CodeJob
    <3>2. job' = [job EXCEPT ![a] = [job[a] EXCEPT !.step = "used"]]
      BY <2>4 DEF RedeemUse
    <3>3. [job[a] EXCEPT !.step = "used"].step = "used" BY <3>1 DEF CodeJob
    <3>. QED BY <3>2, <3>3
  <2>. QED BY <2>1, <2>2, <2>3, <2>4
<1>3. \A b \in Actors : job'[b] = job[b] \/ job'[b].step # "bind"
  BY <1>2 DEF JobInv
<1>. QED BY <1>1, <1>3, BindingStill

LEMMA InitBinding == Init => BindingInv
<1>. SUFFICES ASSUME Init PROVE BindingInv
  OBVIOUS
<1>1. Ids = {} /\ sub = <<>> /\ group = BaseGroup BY DEF Init, SubInit, Ids
<1>2. \A a \in Actors : job[a].step # "bind" BY DEF Init, SubInit, Idle
<1>3. \A p : Bought(p) = 0
  <2>1. \A p : Purchases(p) = {} BY <1>1 DEF Purchases
  <2>. QED BY <2>1, FS_EmptySet DEF Bought
<1>4. LimitInv
  <2>. SUFFICES ASSUME NEW p \in Packages, Package[p].limit > 0 PROVE LimitOK(p)
    BY DEF LimitInv
  <2>1. Package[p].limit \in Int BY SubscriptionConstants DEF PackageRow
  <2>. QED BY <1>2, <1>3, <2>1 DEF LimitOK, Binds
<1>5. Active(sub) = {} /\ Held(sub) = {} BY <1>1 DEF Active, Held, Ids
<1>6. GroupInv BY <1>1, <1>5 DEF GroupInv, Traced, Among
<1>. QED BY <1>4, <1>6 DEF BindingInv

LEMMA StepBinding ==
    BindingInv /\ CalendarInv /\ JobInv /\ [Next]_vars => BindingInv'
<1>. SUFFICES ASSUME BindingInv, CalendarInv, JobInv, [Next]_vars PROVE BindingInv'
  OBVIOUS
<1>1. CASE UNCHANGED vars
  BY <1>1, BindingStill DEF vars, subVars, groupVars
<1>2. CASE SubNext /\ UNCHANGED payVars BY <1>2, SubBinding
<1>3. ASSUME NEW o \in Orders, TopupCallback(o) PROVE BindingInv'
  BY <1>3, BindingStill DEF TopupCallback, subVars, groupVars
<1>4. ASSUME NEW o \in PackageOrders, PackageCallback(o) PROVE BindingInv'
  <2>1. PackageOf[o] \in Packages BY PaymentConstants
  <2>. QED BY <1>4, <2>1, BindingBegins
       DEF PackageCallback, PackageOrders, Actors
<1>5. ASSUME NEW o \in PackageOrders, PackagePaid(o) PROVE BindingInv'
  BY <1>5, BindingCommits DEF PackagePaid, PackageOrders, Actors
<1>6. ASSUME NEW c \in Codes, RedeemInTransaction(c) PROVE BindingInv'
  BY <1>6, BindingStill DEF RedeemInTransaction
<1>7. ASSUME NEW q \in Requests,
             \/ \E o \in Topups : AdminComplete(q, o)
             \/ AdminCredit(q)
             \/ \E c \in Codes : RedeemRead(q, c)
             \/ RedeemUse(q)
             \/ RedeemCredit(q)
      PROVE  BindingInv'
  BY <1>7, CreditBinding DEF Actors
<1>8. ASSUME NEW a \in Actors, Die(a) PROVE BindingInv'
  BY <1>8, CreditBinding
<1>. QED BY <1>1, <1>2, <1>3, <1>4, <1>5, <1>6, <1>7, <1>8 DEF Next

\* The counted purchases stay below their limits while one transaction is about
\* to bind, and the group stays due to a row that holds it.
THEOREM BindingInvariance == Spec => []BindingInv
<1>1. IInv => JobInv BY DEF IInv
<1>. QED BY <1>1, InitBinding, StepBinding, Invariance, CalendarInvariance, PTL
     DEF Spec

\* The purchase limits hold and the group follows the active subscriptions, for
\* any packages and any number of rows, requests and callbacks.
THEOREM RulesOfPackagesHold == Spec => []BindingsHold
<1>1. LimitInv => PurchaseLimit
  <2>. SUFFICES ASSUME LimitInv, NEW p \in Packages \ crowded, Package[p].limit > 0
                PROVE  Cardinality(Purchases(p)) <= Package[p].limit
    BY DEF PurchaseLimit
  <2>1. LimitOK(p) BY DEF LimitInv
  <2>. QED BY <2>1 DEF LimitOK, Bought
<1>2. GroupInv => GroupFollowsSubscriptions
  <2> DEFINE upgrading == Active(sub) \intersect Upgraded(sub)
  <2>. SUFFICES ASSUME GroupInv, ~tangled
                PROVE  IF upgrading = {} THEN group = BaseGroup
                       ELSE group \in {Upgrade(sub[s].pkg) : s \in upgrading}
    BY DEF GroupFollowsSubscriptions
  <2>1. Traced(group, sub) BY DEF GroupInv
  <2>2. Held(sub) \subseteq upgrading BY DEF Held, Holders
  <2>3. Held(sub) = {} => group = BaseGroup BY <2>1 DEF Traced, Among
  <2>4. CASE Held(sub) # {}
    <3>1. PICK h \in Held(sub) : Up(sub, h) = group BY <2>1, <2>4 DEF Traced, Among
    <3>. QED BY <2>2, <3>1 DEF Up
  <2>5. CASE upgrading = {} BY <2>2, <2>3, <2>5
  <2>6. ASSUME Held(sub) = {}, NEW s \in upgrading PROVE FALSE
    <3>1. sub[s].prev = NoGroup /\ Upgrade(sub[s].pkg) # BaseGroup
      BY <2>6 DEF Held, Holders
    <3>2. HeldBefore(sub, s) = {} BY <2>6 DEF HeldBefore
    <3>3. Up(sub, s) = BaseGroup BY <2>1, <3>1, <3>2 DEF Traced, Among, Origin
    <3>. QED BY <3>1, <3>3 DEF Up
  <2>. QED BY <2>4, <2>5, <2>6
<1>. QED BY <1>1, <1>2, BindingInvariance, PTL DEF BindingsHold, BindingInv
=============================================================================
