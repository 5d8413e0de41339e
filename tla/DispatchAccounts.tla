-------------------------- MODULE DispatchAccounts --------------------------
(***************************************************************************)
(* The accounts behind Dispatch: totals over the requests of a user or of  *)
(* a token, the refinement of ChargeLedger, and the measure of its loop.   *)
(***************************************************************************)
EXTENDS Dispatch, FiniteSetsExt

\* A process handles finitely many requests; without that a token has no total.
ASSUME FiniteRequests == IsFiniteSet(Requests)

HeldBy(S) == SumFunctionOnSet([r \in Requests |-> Held(r)], S)
RequestsOfUser(u) == {r \in Requests : UserOf[r] = u}
RequestsOfToken(t) == {r \in Requests : TokenOf[r] = t}

IsMetered(t) == t \notin Unlimited /\ InitRemain[t] >= 0

\* A metered token loses exactly what its requests hold or have paid, as
\* long as no transaction of theirs went wrong and none cost more than its
\* estimate (RemainAfterPreCheck and RemainAfterReconcile agree).
TokenAccounts ==
    \A t \in Tokens :
        (/\ IsMetered(t)
         /\ \A r \in RequestsOfToken(t) : mishap[r] \subseteq {"saveFail"})
            => remain[t] = InitRemain[t] - HeldBy(RequestsOfToken(t))

\* -1 is the value init.sql reserves for unlimited tokens: a metered token
\* reaches it only when an answer cost more than its estimate, never because
\* two requests passed the pre-check on the same remaining quota.
OnlyOverrunsExhaust ==
    \A t \in Tokens :
        IsMetered(t) /\ remain[t] < 0 =>
            \E r \in RequestsOfToken(t) : "overrun" \in mishap[r]

\* A user, too: whatever its requests do at once, its quota is what it started
\* with less what they hold or have paid.
UserAccounts ==
    \A u \in Users :
        (\A r \in RequestsOfUser(u) : mishap[r] \subseteq {"overrun", "saveFail"})
            => quota[u] = InitQuota[u] - HeldBy(RequestsOfUser(u))

\* Whatever overlaps on a token or a user, nothing of the quota is lost or spent
\* twice.  (The sums count what requests take, whether it is due or not: those that
\* a package covers, too.)
AccountsHold == TokenAccounts /\ OnlyOverrunsExhaust /\ UserAccounts

\* The "No Double Dip" enforcer of dispatch(): of all requests with one
\* idempotency key at most one is charged.
NoDoubleDip ==
    \A r, s \in Requests :
        (/\ r # s /\ KeyOf[r] = KeyOf[s] /\ KeyOf[r] # NoKey
         /\ pc[r] = "served" /\ pc[s] = "served"
         /\ reply[r] # "binary" /\ reply[s] # "binary")
            => taken[r] = 0 \/ taken[s] = 0

\* The amounts still held by open requests, given back to their user.
HeldOpen(r) == IF pc[r] \in OpenPlaces THEN pre[r] ELSE 0
SettledBalance ==
    [u \in Users |-> quota[u] +
        SumFunctionOnSet([r \in Requests |-> HeldOpen(r)], RequestsOfUser(u))]
BillOf(r) ==
    IF ~(mishap[r] \subseteq {"overrun", "saveFail"}) THEN "spoiled"
    ELSE IF pc[r] \in PaidPlaces THEN "charged"
    ELSE IF pc[r] \in Closed THEN "free" ELSE "open"

Account == INSTANCE ChargeLedger
    WITH InitBalance <- InitQuota, balance <- SettledBalance,
         bill <- [r \in Requests |-> BillOf(r)]

\* dispatch() implements the promise: one charge of the actual cost per served
\* request, none for any other, whatever the retries, group switches and
\* streams in between; a request is spoiled only by a ledger transaction that
\* fails or half commits, or by an exception after its settlement, and the
\* others are charged correctly all the same.  A request that a package covers is
\* charged like any other (ExemptCostsNothing).
ImplementsChargeLedger == Account!Spec

\* The channels a request may still visit: those of its list, and those of the
\* groups that may yet be appended to it.
GroupsOf(r) == {HomeGroup[r]} \cup {AutoGroups[i] : i \in DOMAIN AutoGroups}
UntriedGroups(r) == GroupsOf(r) \ tried[r]
ChannelsLeft(r) == todo[r] + SumFunctionOnSet(Routes, UntriedGroups(r))

\* How many more steps the longest path takes to the end of dispatch() when no
\* channel is left, and how many one channel costs: six suspensions and its
\* choice.
PlacesLeft ==
    [new |-> 8, checking |-> 7, fetching |-> 6, settling |-> 5, logging |-> 4,
     transforming |-> 3, caught |-> 2, choosing |-> 1,
     streaming |-> 2, streamLogging |-> 1, dropped |-> 1,
     served |-> 0, failed |-> 0, replayed |-> 0, aborted |-> 0]
StepsLeft(r) == 7 * ChannelsLeft(r) + PlacesLeft[pc[r]]

\* Why dispatch() ends although its catch block appends channels to the list it
\* iterates over: every step of a request lowers a natural number that no other
\* request touches, so each channel of each group is visited at most once.
ChannelsRunOut ==
    [][\E r \in Requests :
        /\ StepsLeft(r)' \in 0..(StepsLeft(r) - 1)
        /\ \A s \in Requests \ {r} : StepsLeft(s)' = StepsLeft(s)]_vars
=============================================================================
