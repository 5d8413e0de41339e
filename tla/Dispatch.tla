------------------------------ MODULE Dispatch ------------------------------
(***************************************************************************)
(* The money side of one gateway process: what dispatch() and              *)
(* handleStreamBilling() of services/dispatcher.ts do to users.quota and   *)
(* tokens.remain_quota through services/billing.ts, interleaved at every   *)
(* await.  A request walks its candidate channels; for each it pre-deducts *)
(* an estimate, calls the upstream, settles the difference to the actual   *)
(* cost, or refunds and tries the next channel.                            *)
(*                                                                         *)
(* Abstracted: which channel and key a request gets (ConcurrencySlots,     *)
(* ChannelHealth), the rows written to the logs (BillingQueue), prices     *)
(* (Estimate per group, any cost in Costs), message contents.              *)
(***************************************************************************)
EXTENDS Integers, Sequences, FiniteSets

CONSTANTS
    Requests, Users, Tokens, Groups, Keys,
    UserOf,      \* the user a request is charged to
    TokenOf,     \* the API token it was sent with
    KeyOf,       \* its idempotency key, or NoKey
    NoKey,
    HomeGroup,   \* the group it is routed in when its token is not 'auto'
    AutoTokens,  \* requests whose token group is 'auto' with crossGroupRetry
    AutoGroups,  \* the AutoGroups option: a sequence of groups
    Routes,      \* how many channels a group offers for the model
    Unlimited,   \* tokens with unlimited_quota
    InitQuota, InitRemain,
    Estimate,    \* calculateCost(model, group, 0, maxTokens)
    Costs,       \* the actual costs an answer may have
    Faults       \* the environment's faults: a subset of FaultKinds

FaultKinds == {"ledgerFail", "saveFail", "lateThrow"}

ASSUME DispatchConstants ==
    /\ UserOf \in [Requests -> Users]
    /\ TokenOf \in [Requests -> Tokens]
    /\ KeyOf \in [Requests -> Keys \cup {NoKey}]
    /\ NoKey \notin Keys
    /\ HomeGroup \in [Requests -> Groups]
    /\ AutoTokens \subseteq Requests
    /\ AutoGroups \in Seq(Groups)
    /\ Routes \in [Groups -> Nat]
    /\ Unlimited \subseteq Tokens
    /\ InitQuota \in [Users -> Int]
    /\ InitRemain \in [Tokens -> Int]
    /\ Estimate \in [Groups -> Nat]
    /\ Costs \subseteq Nat
    /\ Faults \subseteq FaultKinds

VARIABLES
    quota,   \* users.quota
    remain,  \* tokens.remain_quota; -1 means unlimited
    saved,   \* idempotency keys stored (not yet expired)
    pc,      \* where the request's async function is suspended
    group,   \* effectiveGroup
    tried,   \* groupsTried
    todo,    \* channels of the loop not visited yet
    free,    \* requests a package of the user covers (isfree)
    pre,     \* preDeducted
    cost,    \* actualCost, once known
    reply,   \* the kind of upstream answer being handled
    taken,   \* history: what committed transactions took from the user
    mishap   \* history: the things that went wrong for the request

vars == <<quota, remain, saved, pc, group, tried, todo, free, pre, cost, reply,
          taken, mishap>>
db == <<quota, remain>>
route == <<group, tried, todo, free>>

Closed == {"served", "failed", "replayed", "aborted"}
Places == {"new", "choosing", "checking", "fetching", "settling", "logging",
           "transforming", "caught", "streaming", "streamLogging", "dropped"}
          \cup Closed
Mishaps == FaultKinds \cup {"tokenShort", "overrun"}

TypeOK ==
    /\ quota \in [Users -> Int]
    /\ remain \in [Tokens -> Int]
    /\ saved \subseteq Keys
    /\ pc \in [Requests -> Places]
    /\ group \in [Requests -> Groups]
    /\ tried \in [Requests -> SUBSET Groups]
    /\ todo \in [Requests -> Nat]
    /\ free \subseteq Requests
    /\ pre \in [Requests -> Nat]
    /\ cost \in [Requests -> Nat]
    /\ reply \in [Requests -> {"none", "json", "binary", "stream"}]
    /\ taken \in [Requests -> Int]
    /\ mishap \in [Requests -> SUBSET Mishaps]

Init ==
    /\ quota = InitQuota
    /\ remain = InitRemain
    /\ saved = {}
    /\ pc = [r \in Requests |-> "new"]
    /\ group = HomeGroup
    /\ tried = [r \in Requests |-> {}]
    /\ todo = [r \in Requests |-> 0]
    /\ free = {}
    /\ pre = [r \in Requests |-> 0]
    /\ cost = [r \in Requests |-> 0]
    /\ reply = [r \in Requests |-> "none"]
    /\ taken = [r \in Requests |-> 0]
    /\ mishap = [r \in Requests |-> {}]

-----------------------------------------------------------------------------
(* The ledger: the two transactions of services/billing.ts.                *)

TokenAcceptsAny(t, amount) == t \in Unlimited \/ remain[t] # 0
TokenAccepts(t, amount) ==
    t \in Unlimited \/ remain[t] = -1 \/ remain[t] >= amount

\* What the CASE of each UPDATE leaves in tokens.remain_quota.
RemainAfterPreCheck(t, amount) ==
    IF t \notin Unlimited /\ remain[t] > 0 THEN remain[t] - amount
                                           ELSE remain[t]
RemainAfterReconcile(t, diff) ==
    IF t \notin Unlimited /\ remain[t] >= 0 THEN remain[t] + diff
                                            ELSE remain[t]

\* reconcileQuota commits: preDeducted - actualCost goes back to the user
\* and to the token.
Reconcile(r, diff) ==
    LET u == UserOf[r]
        t == TokenOf[r]
    IN  /\ quota' = [quota EXCEPT ![u] = @ + diff]
        /\ remain' = [remain EXCEPT ![t] = RemainAfterReconcile(t, diff)]
        /\ taken' = [taken EXCEPT ![r] = @ - diff]

Goto(r, place) == pc' = [pc EXCEPT ![r] = place]
Blame(r, what) == mishap' = [mishap EXCEPT ![r] = @ \cup {what}]

-----------------------------------------------------------------------------
(* Before the channel loop.                                                *)

\* A policy, the runtime guard, the content filter or a rate limit refuses
\* the request before any state changes, or it has an automatic token and there
\* are no automatic groups.
Reject(r) ==
    /\ pc[r] = "new"
    /\ Goto(r, "failed")
    /\ UNCHANGED <<db, saved, route, pre, cost, reply, taken, mishap>>

\* The idempotency key is known: the stored answer is returned.
Replay(r) ==
    /\ pc[r] = "new"
    /\ KeyOf[r] \in saved
    /\ Goto(r, "replayed")
    /\ UNCHANGED <<db, saved, route, pre, cost, reply, taken, mishap>>

\* The first automatic group with channels; the first one if none has any.
StartGroup(r, g) ==
    IF r \notin AutoTokens THEN g = HomeGroup[r]
    ELSE \E i \in DOMAIN AutoGroups :
            /\ g = AutoGroups[i]
            /\ \A j \in 1..(i - 1) : Routes[AutoGroups[j]] = 0
            /\ Routes[g] > 0 \/ (i = 1 /\ \A j \in DOMAIN AutoGroups :
                                             Routes[AutoGroups[j]] = 0)

\* The first other automatic group with channels.
OtherGroup(r, g, h) ==
    /\ r \in AutoTokens /\ h # g /\ Routes[h] > 0
    /\ \E i \in DOMAIN AutoGroups :
        /\ h = AutoGroups[i]
        /\ \A j \in 1..(i - 1) : AutoGroups[j] = g \/ Routes[AutoGroups[j]] = 0

\* The loop starts with n channels of a group, or fails when there are none.
Enter(r, g, n) ==
    /\ group' = [group EXCEPT ![r] = g]
    /\ tried' = [tried EXCEPT ![r] = {g}]
    /\ todo' = [todo EXCEPT ![r] = n]
    /\ Goto(r, IF n = 0 THEN "failed" ELSE "choosing")

\* The key is unknown.  A package covers the request or not; if none does, the
\* group's policy may filter the candidates of the first group, and only those:
\* when none is left, those of another automatic group are taken as they are.
Start(r) ==
    /\ pc[r] = "new"
    /\ KeyOf[r] \notin saved
    /\ free' \in {free, free \cup {r}}
    /\ \E g \in Groups :
        /\ StartGroup(r, g)
        /\ \E n \in IF r \in free' THEN {Routes[g]} ELSE 0..Routes[g] :
            \/ n > 0 /\ Enter(r, g, n)
            \/ \E h \in Groups : n = 0 /\ OtherGroup(r, g, h) /\ Enter(r, h, Routes[h])
            \/ n = 0 /\ (\A h \in Groups : ~OtherGroup(r, g, h)) /\ Enter(r, g, 0)
    /\ UNCHANGED <<db, saved, pre, cost, reply, taken, mishap>>

-----------------------------------------------------------------------------
(* The channel loop up to the upstream call.                               *)

SkipChannelUnguarded(r) ==
    /\ pc[r] = "choosing"
    /\ todo' = [todo EXCEPT ![r] = @ - 1]
    /\ UNCHANGED <<db, saved, pc, group, tried, free, pre, cost, reply, taken, mishap>>

\* The next channel has no usable key, or its key stays saturated.
SkipChannel(r) ==
    /\ pc[r] = "choosing"
    /\ todo[r] > 0
    /\ todo' = [todo EXCEPT ![r] = @ - 1]
    /\ UNCHANGED <<db, saved, pc, group, tried, free, pre, cost, reply, taken, mishap>>

\* A key slot of the next channel is taken and preDeducted starts at 0.
TakeChannel(r) ==
    /\ pc[r] = "choosing"
    /\ todo[r] > 0
    /\ todo' = [todo EXCEPT ![r] = @ - 1]
    /\ pre' = [pre EXCEPT ![r] = 0]
    /\ Goto(r, "checking")
    /\ UNCHANGED <<db, saved, group, tried, free, cost, reply, taken, mishap>>

\* A package limit throws outside the try: dispatch() ends with that error.
PackageLimit(r) ==
    /\ pc[r] = "choosing"
    /\ todo[r] > 0
    /\ r \in free
    /\ Goto(r, "failed")
    /\ UNCHANGED <<db, saved, route, pre, cost, reply, taken, mishap>>

\* The loop ran out of channels.
GiveUp(r) ==
    /\ pc[r] = "choosing"
    /\ todo[r] = 0
    /\ Goto(r, "failed")
    /\ UNCHANGED <<db, saved, route, pre, cost, reply, taken, mishap>>

\* A package-covered request pre-deducts nothing.
PreCheckFree(r) ==
    /\ pc[r] = "checking"
    /\ r \in free
    /\ Goto(r, "fetching")
    /\ UNCHANGED <<db, saved, route, pre, cost, reply, taken, mishap>>

\* Both conditional updates hit a row: the estimate is held.
PreCheckHolds(r) ==
    LET est == Estimate[group[r]]
        u == UserOf[r]
        t == TokenOf[r]
    IN  /\ pc[r] = "checking"
        /\ r \notin free
        /\ quota[u] >= est
        /\ TokenAccepts(t, est)
        /\ quota' = [quota EXCEPT ![u] = @ - est]
        /\ remain' = [remain EXCEPT ![t] = RemainAfterPreCheck(t, est)]
        /\ taken' = [taken EXCEPT ![r] = @ + est]
        /\ pre' = [pre EXCEPT ![r] = est]
        /\ Goto(r, "fetching")
        /\ UNCHANGED <<saved, route, cost, reply, mishap>>

PreCheckUserShortKeepsEstimate(r) ==
    /\ pc[r] = "checking"
    /\ r \notin free
    /\ quota[UserOf[r]] < Estimate[group[r]]
    /\ pre' = [pre EXCEPT ![r] = Estimate[group[r]]]
    /\ Goto(r, "caught")
    /\ UNCHANGED <<db, saved, route, cost, reply, taken, mishap>>

\* The user cannot pay the estimate: nothing is written.
PreCheckUserShort(r) ==
    /\ pc[r] = "checking"
    /\ r \notin free
    /\ quota[UserOf[r]] < Estimate[group[r]]
    /\ Goto(r, "caught")
    /\ UNCHANGED <<db, saved, route, pre, cost, reply, taken, mishap>>

\* The token cannot pay: the callback returns false, which commits the
\* transaction with the user's update in it; preDeducted stays 0.
PreCheckTokenShort(r) ==
    LET est == Estimate[group[r]]
        u == UserOf[r]
    IN  /\ pc[r] = "checking"
        /\ r \notin free
        /\ quota[u] >= est
        /\ ~TokenAccepts(TokenOf[r], est)
        /\ quota' = [quota EXCEPT ![u] = @ - est]
        /\ taken' = [taken EXCEPT ![r] = @ + est]
        /\ Blame(r, "tokenShort")
        /\ Goto(r, "caught")
        /\ UNCHANGED <<remain, saved, route, pre, cost, reply>>

\* The pre-check transaction itself fails and rolls back.
PreCheckFails(r) ==
    /\ pc[r] = "checking"
    /\ r \notin free
    /\ "ledgerFail" \in Faults
    /\ Goto(r, "caught")
    /\ UNCHANGED <<db, saved, route, pre, cost, reply, taken, mishap>>

-----------------------------------------------------------------------------
(* The upstream's answer.                                                  *)

\* A timeout, a network error, a bad status, an unreadable or overloaded
\* answer.
UpstreamFails(r) ==
    /\ pc[r] = "fetching"
    /\ Goto(r, "caught")
    /\ UNCHANGED <<db, saved, route, pre, cost, reply, taken, mishap>>

\* A complete JSON answer, or SSE text treated as JSON.  Its usage fixes the
\* actual cost, package or not.
Answered(r) ==
    /\ pc[r] = "fetching"
    /\ \E c \in Costs : cost' = [cost EXCEPT ![r] = c]
    /\ reply' = [reply EXCEPT ![r] = "json"]
    /\ Goto(r, "settling")
    /\ UNCHANGED <<db, saved, route, pre, taken, mishap>>

\* A binary body: audio, image or video.
AnsweredBinary(r) ==
    /\ pc[r] = "fetching"
    /\ \E c \in Costs : cost' = [cost EXCEPT ![r] = c]
    /\ reply' = [reply EXCEPT ![r] = "binary"]
    /\ Goto(r, "settling")
    /\ UNCHANGED <<db, saved, route, pre, taken, mishap>>

\* A stream: the client gets its half at once, the billing task reads the other.
\* What follows, up to "served", is that task: the client may have read its half
\* to the end long before.
StreamStarts(r) ==
    /\ pc[r] = "fetching"
    /\ reply' = [reply EXCEPT ![r] = "stream"]
    /\ Goto(r, "streaming")
    /\ UNCHANGED <<db, saved, route, pre, cost, taken, mishap>>

\* reconcileQuota(preDeducted, actualCost) commits.
Settle(r) ==
    /\ pc[r] = "settling"
    /\ Reconcile(r, pre[r] - cost[r])
    /\ IF cost[r] > pre[r] THEN Blame(r, "overrun") ELSE UNCHANGED mishap
    /\ Goto(r, "logging")
    /\ UNCHANGED <<saved, route, pre, cost, reply>>

SettleFailsSuppressed(r) ==
    /\ pc[r] = "settling"
    /\ "ledgerFail" \in Faults
    /\ pre[r] # cost[r]
    /\ Goto(r, "logging")
    /\ UNCHANGED <<db, saved, route, pre, cost, reply, taken, mishap>>

\* reconcileQuota rejects: the answer is dropped and the catch block runs.
\* A difference of 0 runs no transaction and cannot fail.
SettleFails(r) ==
    /\ pc[r] = "settling"
    /\ "ledgerFail" \in Faults
    /\ pre[r] # cost[r]
    /\ cost' = [cost EXCEPT ![r] = 0]
    /\ Goto(r, "caught")
    /\ UNCHANGED <<db, saved, route, pre, reply, taken, mishap>>

\* The stored keys after an answer was settled; the insert's failure is
\* suppressed.
SaveKey(r) ==
    \/ /\ KeyOf[r] # NoKey
       /\ saved' = saved \cup {KeyOf[r]}
       /\ UNCHANGED mishap
    \/ /\ KeyOf[r] # NoKey
       /\ "saveFail" \in Faults
       /\ Blame(r, "saveFail")
       /\ UNCHANGED saved
    \/ KeyOf[r] = NoKey /\ UNCHANGED <<saved, mishap>>

\* Billing log, usage record and idempotency key are written, the slots are
\* released.
Logged(r) ==
    /\ pc[r] = "logging"
    /\ reply[r] = "json"
    /\ SaveKey(r)
    /\ Goto(r, "transforming")
    /\ UNCHANGED <<db, route, pre, cost, reply, taken>>

\* A binary answer keeps no idempotency key and is returned as it is.
BinaryLogged(r) ==
    /\ pc[r] = "logging"
    /\ reply[r] = "binary"
    /\ Goto(r, "served")
    /\ UNCHANGED <<db, saved, route, pre, cost, reply, taken, mishap>>

\* transformResponse, and for video the polling, succeed.
Transformed(r) ==
    /\ pc[r] = "transforming"
    /\ Goto(r, "served")
    /\ UNCHANGED <<db, saved, route, pre, cost, reply, taken, mishap>>

\* transformResponse or the polling throws after the settlement.
TransformThrows(r) ==
    /\ pc[r] = "transforming"
    /\ "lateThrow" \in Faults
    /\ Blame(r, "lateThrow")
    /\ cost' = [cost EXCEPT ![r] = 0]
    /\ Goto(r, "caught")
    /\ UNCHANGED <<db, saved, route, pre, reply, taken>>

-----------------------------------------------------------------------------
(* The catch block: refund, then the next channel or the next group.       *)

IsFreshUntracked(r, g) == Routes[g] > 0

IsFresh(r, g) == g \notin tried[r] /\ Routes[g] > 0

\* selectNextRetryGroup: the first automatic group not tried that has
\* channels.
NextRetryGroup(r, g) ==
    \E i \in DOMAIN AutoGroups :
        /\ g = AutoGroups[i]
        /\ IsFresh(r, g)
        /\ \A j \in 1..(i - 1) : ~IsFresh(r, AutoGroups[j])

WidenRouteForgetting(r) ==
    \/ /\ r \in AutoTokens
       /\ \E g \in Groups :
            /\ NextRetryGroup(r, g)
            /\ group' = [group EXCEPT ![r] = g]
            /\ todo' = [todo EXCEPT ![r] = @ + Routes[g]]
       /\ UNCHANGED <<tried, free>>
    \/ UNCHANGED route

\* A retryable error of an auto token appends the next group's channels;
\* effectiveGroup changes at once, also for the channels still queued.
WidenRoute(r) ==
    \/ /\ r \in AutoTokens
       /\ \E g \in Groups :
            /\ NextRetryGroup(r, g)
            /\ group' = [group EXCEPT ![r] = g]
            /\ tried' = [tried EXCEPT ![r] = @ \cup {g}]
            /\ todo' = [todo EXCEPT ![r] = @ + Routes[g]]
       /\ UNCHANGED free
    \/ UNCHANGED route

Refund(r) ==
    /\ pc[r] = "caught"
    /\ IF pre[r] > 0 THEN Reconcile(r, pre[r]) ELSE UNCHANGED <<db, taken>>
    /\ WidenRoute(r)
    /\ pre' = [pre EXCEPT ![r] = 0]
    /\ Goto(r, "choosing")
    /\ UNCHANGED <<saved, cost, reply, mishap>>

\* The refund's failure is suppressed.
RefundFails(r) ==
    /\ pc[r] = "caught"
    /\ pre[r] > 0
    /\ "ledgerFail" \in Faults
    /\ Blame(r, "ledgerFail")
    /\ WidenRoute(r)
    /\ pre' = [pre EXCEPT ![r] = 0]
    /\ Goto(r, "choosing")
    /\ UNCHANGED <<db, saved, cost, reply, taken>>

-----------------------------------------------------------------------------
(* handleStreamBilling.                                                    *)

\* The stream ended: the usage is known and the settlement commits.
StreamSettles(r) ==
    /\ pc[r] = "streaming"
    /\ \E c \in Costs :
        /\ cost' = [cost EXCEPT ![r] = c]
        /\ Reconcile(r, pre[r] - c)
        /\ IF c > pre[r] THEN Blame(r, "overrun") ELSE UNCHANGED mishap
    /\ Goto(r, "streamLogging")
    /\ UNCHANGED <<saved, route, pre, reply>>

\* The stream broke, idled for 60 s, or the settlement rejected.
StreamDrops(r) ==
    /\ pc[r] = "streaming"
    /\ Goto(r, "dropped")
    /\ UNCHANGED <<db, saved, route, pre, cost, reply, taken, mishap>>

StreamLoggedUnsaved(r) ==
    /\ pc[r] = "streamLogging"
    /\ Goto(r, "served")
    /\ UNCHANGED <<db, saved, route, pre, cost, reply, taken, mishap>>

StreamLogged(r) ==
    /\ pc[r] = "streamLogging"
    /\ SaveKey(r)
    /\ Goto(r, "served")
    /\ UNCHANGED <<db, route, pre, cost, reply, taken>>

StreamRefund(r) ==
    /\ pc[r] = "dropped"
    /\ Reconcile(r, pre[r])
    /\ pre' = [pre EXCEPT ![r] = 0]
    /\ Goto(r, "aborted")
    /\ UNCHANGED <<saved, route, cost, reply, mishap>>

StreamRefundFails(r) ==
    /\ pc[r] = "dropped"
    /\ pre[r] > 0
    /\ "ledgerFail" \in Faults
    /\ Blame(r, "ledgerFail")
    /\ pre' = [pre EXCEPT ![r] = 0]
    /\ Goto(r, "aborted")
    /\ UNCHANGED <<db, saved, route, cost, reply, taken>>

-----------------------------------------------------------------------------
Before(r) == Reject(r) \/ Replay(r) \/ Start(r)

Attempt(r) ==
    \/ SkipChannel(r) \/ TakeChannel(r) \/ PackageLimit(r) \/ GiveUp(r)
    \/ PreCheckFree(r) \/ PreCheckHolds(r)
    \/ PreCheckUserShort(r) \/ PreCheckTokenShort(r) \/ PreCheckFails(r)

Answer(r) ==
    \/ UpstreamFails(r) \/ Answered(r) \/ AnsweredBinary(r) \/ StreamStarts(r)
    \/ Settle(r) \/ SettleFails(r) \/ Logged(r) \/ BinaryLogged(r)
    \/ Transformed(r) \/ TransformThrows(r)
    \/ Refund(r) \/ RefundFails(r)

Stream(r) ==
    \/ StreamSettles(r) \/ StreamDrops(r) \/ StreamLogged(r)
    \/ StreamRefund(r) \/ StreamRefundFails(r)

Step(r) == Before(r) \/ Attempt(r) \/ Answer(r) \/ Stream(r)

Next == \E r \in Requests : Step(r)

\* Where a request waits for an upstream, which may hang in the middle of a
\* body (the abort timer is cleared once the headers are in).
AtUpstream == {"fetching", "streaming", "transforming"}

\* The event loop resumes every other suspended function.
Fairness == \A r \in Requests : WF_vars(pc[r] \notin AtUpstream /\ Step(r))

Spec == Init /\ [][Next]_vars /\ Fairness

-----------------------------------------------------------------------------
(* Properties.                                                             *)

OpenPlaces == {"fetching", "settling", "caught", "streaming", "dropped"}
PaidPlaces == {"logging", "transforming", "streamLogging", "served"}

\* What the ledger holds for a request at each place of its code: the
\* estimate while the outcome is open, the actual cost once it is settled.
Held(r) ==
    IF pc[r] \in OpenPlaces THEN pre[r]
    ELSE IF pc[r] \in PaidPlaces THEN cost[r] ELSE 0

\* The ledger agrees with the suspended functions: a request that no package
\* covers and none of whose transactions went wrong has taken from its user
\* exactly what its place in dispatch() says, through every retry, group change
\* and stream; so, whatever its estimate was, it ends with its actual cost paid if
\* it was served and nothing otherwise.  Suppressed refunds and token refusals only
\* ever cost the user: no served request pays less than its cost unless the
\* response was transformed after the settlement and that failed.  Requests that a
\* package covers are excepted: the code charges them, too (ExemptCostsNothing).
ChargedOnce ==
    \A r \in Requests \ free :
        /\ mishap[r] \subseteq {"overrun", "saveFail"} => taken[r] = Held(r)
        /\ "lateThrow" \notin mishap[r] /\ pc[r] = "served"
               => taken[r] >= cost[r]

\* The "Contractual Exemption" of dispatch(): a request that a package of its
\* user covers takes nothing from the user's quota.  It pre-deducts nothing, but
\* is settled at its full cost.
ExemptCostsNothing == \A r \in free : pc[r] \in Closed => taken[r] = 0

\* A client that repeats an idempotency key after dispatch() and its billing are
\* done with the first answer is not charged again.  For a JSON answer that is
\* before the client has it: the key is stored before the answer is handed back.
\* A stream is handed back when it starts, and its key is stored by the billing
\* task after its end: a client that has read it to the end and repeats its key
\* before that (the first request is "streaming" or "streamLogging") is charged
\* again, which this property leaves out and NoDoubleDip does not.  Binary answers
\* store no key.
RepeatIsReplayed ==
    [][\A r, s \in Requests :
        (/\ r # s /\ KeyOf[r] = KeyOf[s] /\ KeyOf[r] # NoKey
         /\ pc[r] = "served" /\ reply[r] # "binary"
         /\ "saveFail" \notin mishap[r] /\ pc[s] = "new")
            => pc'[s] \in {"new", "replayed", "failed"} /\ taken'[s] = 0]_vars

\* Every request ends, or waits for one upstream for ever: the channel loop
\* stops although the catch block appends groups to the list it iterates over.
EveryRequestEnds ==
    \A r \in Requests : <>[](pc[r] \in Closed \cup AtUpstream)
=============================================================================
