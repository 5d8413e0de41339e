------------------------------ MODULE CacheSync ------------------------------
(***************************************************************************)
(* How the gateway processes keep their copies of the channel table: every *)
(* function that changes it calls memoryCache.refresh() of                 *)
(* services/cache.ts, which loads the tables, swaps the maps and sends     *)
(* NOTIFY; the listener of packages/pg-listen hands a notification to      *)
(* initSync's callback, which refreshes without notifying again.  A        *)
(* refresh awaits its statements, so several of one process overlap.       *)
(*                                                                         *)
(* Abstracted: the table's content to the number of its last change, the   *)
(* protocol of the listener's connection to whether its LISTEN is in       *)
(* force.  The bounds are MaxChanges and MaxFaults.                        *)
(***************************************************************************)
EXTENDS Integers

CONSTANTS
    Procs,
    Tasks,       \* calls of refresh that may run at a time
    Owner,       \* the process of each
    Boot,        \* the call that starts each process's cache
    MaxChanges,
    MaxFaults

ASSUME SyncConstants ==
    /\ Owner \in [Tasks -> Procs]
    /\ Boot \in [Procs -> Tasks] /\ \A p \in Procs : Owner[Boot[p]] = p
    /\ MaxChanges \in Nat /\ MaxFaults \in Nat

VARIABLES
    version,    \* the number of the table's last change
    cache,      \* the change each process's maps show; 0 when empty
    stage,      \* "called", "loaded", "swapped" or "idle"
    silent,     \* skipBroadcast of its last call
    seen,       \* the change a refresh has loaded and not yet swapped in
    listening,  \* whether a process's LISTEN is in force
    notices,    \* notifications on their way to it
    lapsed,     \* history: news passed it by, and it is behind since
    faults

vars == <<version, cache, stage, silent, seen, listening, notices, lapsed,
          faults>>

TypeOK ==
    /\ version \in Nat
    /\ cache \in [Procs -> 0..version]
    /\ stage \in [Tasks -> {"idle", "called", "loaded", "swapped"}]
    /\ silent \in [Tasks -> BOOLEAN]
    /\ seen \in [Tasks -> 0..version]
    /\ listening \in [Procs -> BOOLEAN]
    /\ notices \in [Procs -> Nat]
    /\ lapsed \in [Procs -> BOOLEAN]
    /\ faults \in 0..MaxFaults

Init ==
    /\ version = 1
    /\ cache = [p \in Procs |-> 0]
    /\ stage = [t \in Tasks |-> IF t = Boot[Owner[t]] THEN "called" ELSE "idle"]
    /\ silent = [t \in Tasks |-> FALSE]
    /\ seen = [t \in Tasks |-> 0]
    /\ listening = [p \in Procs |-> FALSE]
    /\ notices = [p \in Procs |-> 0]
    /\ lapsed = [p \in Procs |-> FALSE]
    /\ faults = 0

Fault ==
    /\ faults < MaxFaults
    /\ faults' = faults + 1

\* These processes do not hear of what they have not yet seen.
Lapse(procs) ==
    lapsed' = [p \in Procs |-> lapsed[p] \/ (p \in procs /\ cache[p] # version)]

-----------------------------------------------------------------------------
(* A change, and the refresh that follows it.                              *)

Change(t) ==
    /\ stage[t] = "idle"
    /\ version <= MaxChanges
    /\ version' = version + 1
    /\ stage' = [stage EXCEPT ![t] = "called"]
    /\ silent' = [silent EXCEPT ![t] = FALSE]
    /\ UNCHANGED <<cache, seen, listening, notices, lapsed, faults>>

Load(t) ==
    /\ stage[t] = "called"
    /\ stage' = [stage EXCEPT ![t] = "loaded"]
    /\ seen' = [seen EXCEPT ![t] = version]
    /\ UNCHANGED <<version, cache, silent, listening, notices, lapsed, faults>>

SwapSilently(t) ==
    /\ stage[t] = "loaded"
    /\ stage' = [stage EXCEPT ![t] = "idle"]
    /\ cache' = [cache EXCEPT ![Owner[t]] = seen[t]]
    /\ seen' = [seen EXCEPT ![t] = 0]
    /\ lapsed' = [lapsed EXCEPT ![Owner[t]] =
                    seen[t] # version /\ (@ \/ seen[t] < cache[Owner[t]])]
    /\ UNCHANGED <<version, silent, listening, notices, faults>>

\* An overtaken refresh puts back what it loaded.
Swap(t) ==
    /\ stage[t] = "loaded"
    /\ stage' = [stage EXCEPT ![t] = IF silent[t] THEN "idle" ELSE "swapped"]
    /\ cache' = [cache EXCEPT ![Owner[t]] = seen[t]]
    /\ seen' = [seen EXCEPT ![t] = 0]
    /\ lapsed' = [lapsed EXCEPT ![Owner[t]] =
                    seen[t] # version /\ (@ \/ seen[t] < cache[Owner[t]])]
    /\ UNCHANGED <<version, silent, listening, notices, faults>>

Notify(t) ==
    /\ stage[t] = "swapped"
    /\ stage' = [stage EXCEPT ![t] = "idle"]
    /\ notices' = [p \in Procs |-> IF listening[p] THEN notices[p] + 1
                                                   ELSE notices[p]]
    /\ Lapse({p \in Procs : ~listening[p]})
    /\ UNCHANGED <<version, cache, silent, seen, listening, faults>>

\* A statement fails; the error is only logged.
Fails(t) ==
    /\ Fault
    /\ stage[t] # "idle"
    /\ stage' = [stage EXCEPT ![t] = "idle"]
    /\ seen' = [seen EXCEPT ![t] = 0]
    /\ Lapse(IF silent[t] THEN {Owner[t]} ELSE Procs)
    /\ UNCHANGED <<version, cache, silent, listening, notices>>

-----------------------------------------------------------------------------
(* The listener.                                                           *)

DeliverAgain(t) ==
    /\ notices[Owner[t]] > 0
    /\ stage[t] = "idle"
    /\ stage' = [stage EXCEPT ![t] = "called"]
    /\ silent' = [silent EXCEPT ![t] = TRUE]
    /\ UNCHANGED <<version, cache, seen, listening, notices, lapsed, faults>>

DeliverUnasked(t) ==
    /\ notices[Owner[t]] >= 0
    /\ stage[t] = "idle"
    /\ notices' = [notices EXCEPT ![Owner[t]] = @ - 1]
    /\ stage' = [stage EXCEPT ![t] = "called"]
    /\ silent' = [silent EXCEPT ![t] = TRUE]
    /\ UNCHANGED <<version, cache, seen, listening, lapsed, faults>>

Deliver(t) ==
    /\ notices[Owner[t]] > 0
    /\ stage[t] = "idle"
    /\ notices' = [notices EXCEPT ![Owner[t]] = @ - 1]
    /\ stage' = [stage EXCEPT ![t] = "called"]
    /\ silent' = [silent EXCEPT ![t] = TRUE]
    /\ UNCHANGED <<version, cache, seen, listening, lapsed, faults>>

\* Nothing is refreshed when a connection is back.
Listen(p) ==
    /\ ~listening[p]
    /\ listening' = [listening EXCEPT ![p] = TRUE]
    /\ UNCHANGED <<version, cache, stage, silent, seen, notices, lapsed, faults>>

Disconnect(p) ==
    /\ Fault
    /\ listening[p]
    /\ listening' = [listening EXCEPT ![p] = FALSE]
    /\ notices' = [notices EXCEPT ![p] = 0]
    /\ Lapse(IF notices[p] > 0 THEN {p} ELSE {})
    /\ UNCHANGED <<version, cache, stage, silent, seen>>

\* A process dies and is started again.  The others may not hear of its
\* last changes.
Crash(p) ==
    /\ Fault
    /\ cache' = [cache EXCEPT ![p] = 0]
    /\ stage' = [t \in Tasks |-> IF t = Boot[p] THEN "called"
                                 ELSE IF Owner[t] = p THEN "idle" ELSE stage[t]]
    /\ silent' = [silent EXCEPT ![Boot[p]] = FALSE]
    /\ seen' = [t \in Tasks |-> IF Owner[t] = p THEN 0 ELSE seen[t]]
    /\ listening' = [listening EXCEPT ![p] = FALSE]
    /\ notices' = [notices EXCEPT ![p] = 0]
    /\ lapsed' = [lapsed EXCEPT ![p] = FALSE]
    /\ UNCHANGED version

-----------------------------------------------------------------------------
Run(t) == Load(t) \/ Swap(t) \/ Notify(t)

Next ==
    \/ \E t \in Tasks : Change(t) \/ Run(t) \/ Fails(t) \/ Deliver(t)
    \/ \E p \in Procs : Listen(p) \/ Disconnect(p) \/ Crash(p)

\* Statements are answered and notifications handled.  Nothing is assumed of
\* the listener's reconnection.
Fairness ==
    /\ \A t \in Tasks : WF_vars(Run(t))
    /\ \A p \in Procs : WF_vars(\E t \in Tasks : Owner[t] = p /\ Deliver(t))

Spec == Init /\ [][Next]_vars /\ Fairness

-----------------------------------------------------------------------------
(* Correctness.                                                            *)

\* Something will still bring news to the process.
Busy(p) ==
    \/ notices[p] > 0
    \/ \E t \in Tasks : stage[t] # "idle" /\ (Owner[t] = p \/ ~silent[t])

\* When nothing is on its way to a process, its cache shows the table, unless
\* a notification or a refresh was lost or an overtaken refresh put an older
\* table back.
QuietCachesAgree ==
    \A p \in Procs : Busy(p) \/ lapsed[p] \/ cache[p] = version

\* Refreshes do not feed each other for ever, and the caches converge.
EventuallyAgree ==
    <>[]\A p \in Procs : ~Busy(p) /\ (lapsed[p] \/ cache[p] = version)

\* The refreshes that will still notify, and how far each call has come.
Tellers == {t \in Tasks : stage[t] # "idle" /\ ~silent[t]}
StepsOf == [called |-> 3, loaded |-> 2, swapped |-> 1, idle |-> 0]
StepsLeft == [t \in Tasks |-> StepsOf[stage[t]]]

\* At least one of a family of numbers has fallen and none has risen.
Falls(new, old, S) ==
    /\ \A x \in S : new[x] <= old[x]
    /\ \E x \in S : new[x] < old[x]

\* Why refreshes do not feed each other: but for changes and faults, a step
\* ends a refresh that notifies, else takes a notification without sending
\* one, else takes refreshes further without starting any, else only lets a
\* process listen again.  With finitely many processes and calls no such
\* descent goes on for ever.
RefreshesRunDown ==
    [][\/ version' > version \/ faults' > faults
       \/ Tellers' \subseteq Tellers /\ Tellers' # Tellers
       \/ /\ Tellers' = Tellers
          /\ \/ Falls(notices', notices, Procs)
             \/ notices' = notices /\ Falls(StepsLeft', StepsLeft, Tasks)
             \/ /\ UNCHANGED <<notices, StepsLeft>>
                /\ \A p \in Procs : listening[p] => listening'[p]
                /\ \E p \in Procs : listening'[p] # listening[p]]_vars
=============================================================================
