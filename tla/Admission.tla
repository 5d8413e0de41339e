----------------------------- MODULE Admission ------------------------------
(***************************************************************************)
(* Whether a request of one user and one API token is let through, and     *)
(* what it leaves behind: the token's window (middleware/auth.ts), the     *)
(* budgets of the enterprise runtime guard (enterprise/runtimeGuard.ts,    *)
(* budgetRollover.ts), and the two windows of services/modelRateLimit.ts,  *)
(* in the order of the request and interleaved at every await.  The        *)
(* gateway processes share the windows and budgets of the database and     *)
(* fall back to windows of their own when a statement fails.               *)
(*                                                                         *)
(* Abstracted: policies and the instance's status (a request they deny     *)
(* ends before any of this), audit events, alert thresholds, which budgets *)
(* a request matches (all).  A period of n instants ends at multiples of   *)
(* n.  No caller passes a block duration to consumeWindow.                 *)
(***************************************************************************)
EXTENDS Naturals, Sequences

CONSTANTS
    Requests, Procs,
    ProcOf,       \* the process that handles a request
    Limit,        \* of the windows "token", "total" and "success"
    Length,       \* how long each stays open
    Budgets,
    Period,       \* of a budget; 0 is never
    BudgetLimit,
    Overage,      \* overageEnabled, and the budget mode is not hard_limit
    Estimate,     \* requestedQuota
    Costs,        \* the actual quotas a request may use
    MaxTime,      \* bound: the clock
    MaxFaults     \* bound: statements that fail

Windows == {"token", "total", "success"}

ASSUME AdmissionConstants ==
    /\ ProcOf \in [Requests -> Procs]
    /\ Limit \in [Windows -> Nat \ {0}] /\ Length \in [Windows -> Nat \ {0}]
    /\ Period \in [Budgets -> Nat] /\ BudgetLimit \in [Budgets -> Nat]
    /\ Overage \in BOOLEAN
    /\ Estimate \in Nat /\ Costs \subseteq Nat \ {0}
    /\ MaxTime \in Nat /\ MaxFaults \in Nat

VARIABLES
    now,
    stored,   \* the windows in rate_limits; an expired one may be deleted
    local,    \* localFallbackWindows of each process
    used,     \* used_quota of each budget
    resetAt,  \* reset_at; 0 is null
    step,     \* where a request is suspended
    due,      \* the due budgets it has read and not rolled over yet
    cost,     \* what it has used and not written
    faults,
    passes,   \* history: the instants at which a stored window let one through
    hasty,    \* history: requests whose success another check has not seen
    excess,   \* history: successes of such requests
    loose,    \* history: requests whose check did not see all usage
    posted,   \* history: the quota written since a budget's period began
    beyond,   \* history: how much of it no check has covered
    slipped   \* history: budgets written after their period ended, before
              \* anybody rolled them over

windowVars == <<stored, local, passes>>
budgetVars == <<used, resetAt, posted, beyond, slipped>>
checkVars == <<hasty, excess, loose>>
vars == <<now, windowVars, budgetVars, step, due, cost, faults, checkVars>>

NoWindow == [count |-> 0, until |-> 0]

\* The boundary after instant t.
NextReset(b, t) == IF Period[b] = 0 THEN 0 ELSE (t \div Period[b] + 1) * Period[b]

Init ==
    /\ now = 0
    /\ stored = [w \in Windows |-> NoWindow]
    /\ local = [p \in Procs |-> [w \in Windows |-> NoWindow]]
    /\ used = [b \in Budgets |-> 0]
    /\ resetAt = [b \in Budgets |-> NextReset(b, 0)]
    /\ step = [r \in Requests |-> "new"]
    /\ due = [r \in Requests |-> {}]
    /\ cost = [r \in Requests |-> 0]
    /\ faults = 0
    /\ passes = [w \in Windows |-> <<>>]
    /\ hasty = {} /\ excess = 0 /\ loose = {}
    /\ posted = [b \in Budgets |-> 0]
    /\ beyond = [b \in Budgets |-> 0]
    /\ slipped = {}

Fault == faults < MaxFaults /\ faults' = faults + 1

Goto(r, place) == step' = [step EXCEPT ![r] = place]

\* The budgets whose period ends with this instant.
Ending(t) == {b \in Budgets : Period[b] > 0 /\ t % Period[b] = 0}

Tick ==
    /\ now < MaxTime
    /\ now' = now + 1
    /\ posted' = [b \in Budgets |-> IF b \in Ending(now') THEN 0 ELSE posted[b]]
    /\ beyond' = [b \in Budgets |-> IF b \in Ending(now') THEN 0 ELSE beyond[b]]
    /\ slipped' = slipped \ Ending(now')
    /\ UNCHANGED <<windowVars, used, resetAt, step, due, cost, faults, checkVars>>

-----------------------------------------------------------------------------
(* Windows *)

\* The one statement of consumeWindow.
Consumed(win, w) ==
    IF win.until <= now THEN [count |-> 1, until |-> now + Length[w]]
    ELSE [win EXCEPT !.count = @ + 1]

\* mutant: one request more than the limit
AllowedOneMore(win, w) == win.count <= Limit[w] + 1

Allowed(win, w) == win.count <= Limit[w]

ConsumeStored(r, w) ==
    /\ stored' = [stored EXCEPT ![w] = Consumed(@, w)]
    /\ passes' = IF Allowed(stored'[w], w)
                 THEN [passes EXCEPT ![w] = Append(@, now)] ELSE passes
    /\ UNCHANGED <<local, faults>>

ConsumeLocal(r, w) ==
    /\ Fault
    /\ local' = [local EXCEPT ![ProcOf[r]][w] = Consumed(@, w)]
    /\ UNCHANGED <<stored, passes>>

\* A request at one place goes to the next if the window lets it.
PassWindow(r, from, w, to) ==
    /\ step[r] = from
    /\ \/ ConsumeStored(r, w)
          /\ Goto(r, IF Allowed(stored'[w], w) THEN to ELSE "refused")
       \/ ConsumeLocal(r, w)
          /\ Goto(r, IF Allowed(local'[ProcOf[r]][w], w) THEN to ELSE "refused")
    /\ UNCHANGED <<now, budgetVars, due, cost, checkVars>>

PassToken(r) == PassWindow(r, "new", "token", "guard")

PassTotal(r) == PassWindow(r, "limiting", "total", "counting")

Count(win) == IF win.until > now THEN win.count ELSE 0

\* The second half of isModelRequestRateLimited only reads.
ReadSuccess(r) ==
    /\ step[r] = "counting"
    /\ \/ /\ Goto(r, IF Count(stored["success"]) < Limit["success"]
                     THEN "upstream" ELSE "refused")
          /\ hasty' = IF \E s \in Requests \ {r} : step[s] = "upstream"
                      THEN hasty \union {r} ELSE hasty
          /\ UNCHANGED faults
       \/ /\ Fault
          /\ Goto(r, IF Count(local[ProcOf[r]]["success"]) < Limit["success"]
                     THEN "upstream" ELSE "refused")
          /\ hasty' = hasty \union {r}
    /\ UNCHANGED <<now, windowVars, budgetVars, due, cost, excess, loose>>

-----------------------------------------------------------------------------
(* Rollover: before a request's budgets are read and before its usage is   *)
(* written.                                                                *)

\* mutant: a budget without a reset_at is due
IsDueAnyway(b) == resetAt[b] <= now

IsDue(b) == resetAt[b] # 0 /\ resetAt[b] <= now

SelectDue(r) ==
    /\ step[r] \in {"guard", "served"}
    /\ due' = [due EXCEPT ![r] = {[budget |-> b, at |-> resetAt[b],
                                   next |-> NextReset(b, now)] :
                                     b \in {c \in Budgets : IsDue(c)}}]
    /\ Goto(r, IF step[r] = "guard" THEN "rolling" ELSE "closing")
    /\ UNCHANGED <<now, windowVars, budgetVars, cost, faults, checkVars>>

\* mutant: without the compare-and-set
RollOverBlindly(r, d) ==
    /\ step[r] \in {"rolling", "closing"}
    /\ d \in due[r]
    /\ due' = [due EXCEPT ![r] = @ \ {d}]
    /\ used' = [used EXCEPT ![d.budget] = 0]
    /\ resetAt' = [resetAt EXCEPT ![d.budget] = d.next]
    /\ UNCHANGED <<now, windowVars, posted, beyond, slipped, step, cost, faults,
                   checkVars>>

\* The update finds its row only if reset_at is still what was read.
RollOver(r, d) ==
    /\ step[r] \in {"rolling", "closing"}
    /\ d \in due[r]
    /\ due' = [due EXCEPT ![r] = @ \ {d}]
    /\ IF resetAt[d.budget] = d.at
       THEN /\ used' = [used EXCEPT ![d.budget] = 0]
            /\ resetAt' = [resetAt EXCEPT ![d.budget] = d.next]
       ELSE UNCHANGED <<used, resetAt>>
    /\ UNCHANGED <<now, windowVars, posted, beyond, slipped, step, cost, faults,
                   checkVars>>

-----------------------------------------------------------------------------
(* The guard *)

\* mutant: what the request asks for is not added
DeniesUsed(b) == used[b] > BudgetLimit[b]

Denies(b) == used[b] + Estimate > BudgetLimit[b]

\* Admitted requests whose usage is not written yet.
Pending(r) ==
    {s \in Requests \ {r} :
        step[s] \in {"limiting", "counting", "upstream", "served", "closing"}}

\* One statement reads all budgets.
Evaluate(r) ==
    /\ step[r] = "rolling" /\ due[r] = {}
    /\ Goto(r, IF ~Overage /\ \E b \in Budgets : Denies(b) THEN "refused"
               ELSE "limiting")
    /\ loose' = IF Pending(r) # {} \/ slipped # {} THEN loose \union {r} ELSE loose
    /\ UNCHANGED <<now, windowVars, budgetVars, due, cost, faults, hasty, excess>>

\* Fail-closed: a projection that cannot be read refuses the request.
GuardFails(r) ==
    /\ step[r] \in {"guard", "rolling"}
    /\ Fault
    /\ Goto(r, "refused")
    /\ due' = [due EXCEPT ![r] = {}]
    /\ UNCHANGED <<now, windowVars, budgetVars, cost, checkVars>>

-----------------------------------------------------------------------------
(* The upstream, and the usage written after it *)

\* A success counts without limit; whatever more the request counts was not
\* covered by the check.
UpstreamAnswers(r) ==
    /\ step[r] = "upstream"
    /\ ConsumeStored(r, "success") \/ ConsumeLocal(r, "success")
    /\ \E c \in Costs : cost' = [cost EXCEPT ![r] = c]
    /\ excess' = IF r \in hasty THEN excess + 1 ELSE excess
    /\ hasty' = hasty \union {r}
    /\ Goto(r, "served")
    /\ UNCHANGED <<now, budgetVars, due, loose>>

UpstreamFails(r) ==
    /\ step[r] = "upstream"
    /\ Goto(r, "ended")
    /\ UNCHANGED <<now, windowVars, budgetVars, due, cost, faults, checkVars>>

\* used_quota grows by what the request used, whatever period it is now.
Write(r, budgets) ==
    LET uncovered == IF r \in loose THEN cost[r]
                     ELSE IF cost[r] > Estimate THEN cost[r] - Estimate ELSE 0
        grown(f, n) == [b \in Budgets |-> f[b] + IF b \in budgets THEN n ELSE 0]
    IN  /\ used' = grown(used, cost[r])
        /\ posted' = grown(posted, cost[r])
        /\ beyond' = grown(beyond, uncovered)
        /\ slipped' = slipped \union {b \in budgets : IsDue(b)}
        /\ UNCHANGED resetAt

Post(r) ==
    /\ step[r] = "closing" /\ due[r] = {}
    /\ Write(r, Budgets)
    /\ Goto(r, "ended")
    /\ cost' = [cost EXCEPT ![r] = 0]
    /\ loose' = loose \ {r}
    /\ UNCHANGED <<now, windowVars, due, faults, hasty, excess>>

\* A statement of the writer fails: some of the updates may have been applied,
\* and the catch block of dispatch() tries the next channel, if there is one.
PostFails(r) ==
    /\ step[r] \in {"served", "closing"}
    /\ Fault
    /\ \/ step[r] = "closing" /\ due[r] = {}
          /\ \E budgets \in SUBSET Budgets : Write(r, budgets)
       \/ UNCHANGED budgetVars
    /\ due' = [due EXCEPT ![r] = {}]
    /\ cost' = [cost EXCEPT ![r] = 0]
    /\ \/ Goto(r, "upstream") /\ loose' = loose \union {r}
       \/ Goto(r, "ended") /\ loose' = loose \ {r}
    /\ UNCHANGED <<now, windowVars, hasty, excess>>

-----------------------------------------------------------------------------
Next ==
    \/ Tick
    \/ \E r \in Requests :
          \/ PassToken(r) \/ PassTotal(r) \/ ReadSuccess(r)
          \/ SelectDue(r) \/ \E d \in due[r] : RollOver(r, d)
          \/ Evaluate(r) \/ GuardFails(r)
          \/ UpstreamAnswers(r) \/ UpstreamFails(r)
          \/ Post(r) \/ PostFails(r)

Spec == Init /\ [][Next]_vars
-----------------------------------------------------------------------------
(* Properties *)

Window == [count : Nat, until : Nat]

Rollovers == [budget : {b \in Budgets : Period[b] > 0}, at : Nat, next : Nat]

Places == {"new", "guard", "rolling", "limiting", "counting", "upstream",
           "served", "closing", "refused", "ended"}

\* Every variable has its type, and no budget without a period is ever due.
TypeOK ==
    /\ now \in 0 .. MaxTime /\ faults \in 0 .. MaxFaults
    /\ stored \in [Windows -> Window]
    /\ local \in [Procs -> [Windows -> Window]]
    /\ passes \in [Windows -> Seq(0 .. MaxTime)]
    /\ used \in [Budgets -> Nat] /\ resetAt \in [Budgets -> Nat]
    /\ posted \in [Budgets -> Nat] /\ beyond \in [Budgets -> Nat]
    /\ slipped \subseteq Budgets
    /\ step \in [Requests -> Places]
    /\ due \in [Requests -> SUBSET Rollovers]
    /\ cost \in [Requests -> Nat]
    /\ hasty \subseteq Requests /\ loose \subseteq Requests /\ excess \in Nat

\* The windows are fixed, not sliding, so two of them may meet in one span of
\* a window's length; the one that began earlier has lost its first request to
\* the time before.  So of any 2 * Limit requests let through in a row the last
\* comes a window's length after the first or later.  (Requests that were
\* counted by a process's own windows, because the statement failed, are not in
\* passes.)  And counting a success after the upstream has answered, far from
\* the check, exceeds its limit by no more than the requests whose check could
\* not know.
WindowsHold ==
    /\ \A w \in {"token", "total"} : \A i, j \in DOMAIN passes[w] :
          j = i + 2 * Limit[w] - 1 => passes[w][j] >= passes[w][i] + Length[w]
    /\ Count(stored["success"]) <= Limit["success"] + excess

\* Between two boundaries used_quota is the usage written since the last one:
\* rolling over neither loses usage of the new period nor keeps usage of the
\* old one, however many requests roll over at once.  Except for a budget that
\* was written between its boundary and the first rollover.
UsageCounted ==
    \A b \in Budgets \ slipped :
        IF IsDue(b) THEN posted[b] = 0 ELSE used[b] = posted[b]

\* What a period's budget is exceeded by was used by requests that were
\* admitted beside another one, or is more than a request asked for.
BudgetHolds ==
    ~Overage => \A b \in Budgets : posted[b] <= BudgetLimit[b] + beyond[b]
=============================================================================
