---------------------------- MODULE ChannelHealth ----------------------------
(***************************************************************************)
(* The status of one channel as several gateway processes change and cache *)
(* it: recordSuccess and recordError of services/circuitBreaker.ts, called *)
(* by dispatch(), the periodic runHealthCheck, the administrator's routes, *)
(* and memoryCache.refresh with its NOTIFY.  The row is shared; every      *)
(* process has its own cache, window of request events and counters, and   *)
(* all functions interleave at their awaits.                               *)
(*                                                                         *)
(* Abstracted: clocks (cooled, and events leave the window at any time), the  *)
(* running average of the latency (a success may be slow), notifications,  *)
(* the upstream (a ping or probe may succeed or fail).  Not modelled:      *)
(* failing statements, deletion of the channel, the tag routes.            *)
(***************************************************************************)
EXTENDS Integers, Sequences, FiniteSets

CONSTANTS
    Procs, Keys,
    Calls,        \* recorded outcomes of upstream calls (an overload that
                  \* comes as a success is two, a success and a failure), or
    Admins,       \* those that may instead be administrators' requests
    Probers,      \* or rounds of the proactive checker (services/health.ts)
    Checkers,     \* the health check timers
    ProcOf,       \* the process of each of these
    MinRequests,  \* CIRCUIT_BREAKER_MIN_REQUESTS
    Recovery      \* CIRCUIT_BREAKER_RECOVERY_THRESHOLD

Fibers == Calls \cup Checkers

ASSUME HealthConstants ==
    /\ ProcOf \in [Fibers -> Procs]
    /\ MinRequests \in Nat \ {0} /\ Recovery \in Nat \ {0}
    /\ Calls \cap Checkers = {} /\ Admins \cup Probers \subseteq Calls

Online == 1
Manual == 2     \* manual disabled
Broken == 3     \* circuit broken
Testing == 4    \* half-open
Busy == 5
Status == Online..Busy

VARIABLES
    row,     \* the channel's row: status, whether status_message is an
             \* 'Auth Error: 401', and the keys marked in key_status
    cooled,  \* whether updated_at is older than the cooldowns
    cache,   \* the status in memoryCache.channels of each process
    events,  \* its window: TRUE for a success, FALSE for a failure
    wins,    \* its successCounts
    notice,  \* whether a NOTIFY has not reached it yet
    stage,   \* where each function is suspended
    back,    \* where it continues after its refresh
    error,   \* the class of the error a call handles
    keyed,   \* whether recordError is called with the key
    seen     \* the row as a function has read it

vars == <<row, cooled, cache, events, wins, notice, stage, back, error, keyed,
          seen>>
local == <<events, wins>>
caches == <<cache, notice>>

Rows == [status : Status, auth : BOOLEAN, bad : SUBSET Keys]
Healthy == [status |-> Online, auth |-> FALSE, bad |-> {}]   \* or not in use
Errors == {"401", "403", "429", "4xx", "5xx"}
Stages == {"idle", "done", "second", "recover", "toBusy", "toOnline",
           "forget", "toDisabled", "cleared", "markRead", "markWrite",
           "probing", "reading", "adminWrite", "busySelected", "testing",
           "testingSelected", "broken", "ping", "keys", "probe",
           "restore"}

TypeOK ==
    /\ row \in Rows
    /\ cooled \in BOOLEAN
    /\ cache \in [Procs -> Status]
    /\ events \in [Procs -> Seq(BOOLEAN)]
    /\ wins \in [Procs -> 0..(Recovery - 1)]
    /\ notice \in [Procs -> BOOLEAN]
    /\ stage \in [Fibers -> Stages]
    /\ back \in [Fibers -> Stages]
    /\ error \in [Calls -> Errors]
    /\ keyed \in [Calls -> BOOLEAN]
    /\ seen \in [Fibers -> Rows]

Init ==
    /\ row = Healthy
    /\ cooled = FALSE
    /\ cache = [p \in Procs |-> Online]
    /\ events = [p \in Procs |-> <<>>]
    /\ wins = [p \in Procs |-> 0]
    /\ notice = [p \in Procs |-> FALSE]
    /\ stage = [f \in Fibers |-> "idle"]
    /\ back = [f \in Fibers |-> "idle"]
    /\ error = [c \in Calls |-> "5xx"]
    /\ keyed = [c \in Calls |-> TRUE]
    /\ seen = [f \in Fibers |-> Healthy]

At(f, place) == stage[f] = place
Goto(f, place) == stage' = [stage EXCEPT ![f] = place] /\ UNCHANGED back

\* await memoryCache.refresh(), then continue at the given place.
ThenRefresh(f, place) ==
    /\ stage' = [stage EXCEPT ![f] = "reading"]
    /\ back' = [back EXCEPT ![f] = place]

\* An UPDATE of status, status_message and updated_at by the row's id.
SetStatus(s, auth) ==
    /\ row' = [row EXCEPT !.status = s, !.auth = auth]
    /\ cooled' = FALSE

-----------------------------------------------------------------------------
(* memoryCache.refresh, as one step (CacheSync has its parts): the map is  *)
(* swapped and every process notified, which refreshes in turn.            *)

Refresh(f) ==
    /\ At(f, "reading")
    /\ cache' = [cache EXCEPT ![ProcOf[f]] = row.status]
    /\ notice' = [p \in Procs |-> TRUE]
    /\ stage' = [stage EXCEPT ![f] = back[f]]
    /\ back' = [back EXCEPT ![f] = "idle"]
    /\ UNCHANGED <<row, cooled, local, error, keyed, seen>>

Notified(p) ==
    /\ notice[p]
    /\ notice' = [notice EXCEPT ![p] = FALSE]
    /\ cache' = [cache EXCEPT ![p] = row.status]
    /\ UNCHANGED <<row, cooled, local, stage, back, error, keyed, seen>>

-----------------------------------------------------------------------------
(* The circuit breaker.                                                    *)

\* The half-open part of recordSuccess, on the cached status.
RecoverLate(c) ==
    LET p == ProcOf[c]
    IN  IF cache[p] \notin {Testing, Busy}
        THEN Goto(c, "done") /\ UNCHANGED wins
        ELSE IF wins[p] >= Recovery
        THEN Goto(c, "toOnline") /\ UNCHANGED wins
        ELSE Goto(c, "done") /\ wins' = [wins EXCEPT ![p] = @ + 1]

Recover(c) ==
    LET p == ProcOf[c]
        needed == IF cache[p] = Busy THEN 1 ELSE Recovery
    IN  IF cache[p] \notin {Testing, Busy}
        THEN Goto(c, "done") /\ UNCHANGED wins
        ELSE IF wins[p] + 1 >= needed
        THEN Goto(c, "toOnline") /\ UNCHANGED wins
        ELSE Goto(c, "done") /\ wins' = [wins EXCEPT ![p] = @ + 1]

\* Events are pruned where they are counted, by their age.
Happened(c, ok) ==
    LET es == Append(events[ProcOf[c]], ok)
    IN  \E old \in IF ok THEN {0} ELSE 0..(Len(es) - 1) :
          events' = [events EXCEPT ![ProcOf[c]] = SubSeq(es, old + 1, Len(es))]

\* recordSuccess; a slow one first marks the channel busy.
Succeeds(c) ==
    /\ At(c, "idle")
    /\ Happened(c, TRUE)
    /\ Recover(c)
    /\ UNCHANGED <<row, cooled, caches, error, keyed, seen>>

SucceedsSlowly(c) ==
    /\ At(c, "idle")
    /\ Happened(c, TRUE)
    /\ back' = [back EXCEPT ![c] = "recover"]
    /\ stage' = [stage EXCEPT ![c] = "toBusy"]
    /\ UNCHANGED <<row, cooled, caches, wins, error, keyed, seen>>

RecoverAfterBusy(c) ==
    /\ At(c, "recover")
    /\ Recover(c)
    /\ UNCHANGED <<row, cooled, caches, events, error, keyed, seen>>

WriteOnline(c) ==
    /\ At(c, "toOnline")
    /\ SetStatus(Online, FALSE)
    /\ ThenRefresh(c, "forget")
    /\ UNCHANGED <<caches, local, error, keyed, seen>>

ForgetWins(c) ==
    /\ At(c, "forget")
    /\ wins' = [wins EXCEPT ![ProcOf[c]] = 0]
    /\ Goto(c, "done")
    /\ UNCHANGED <<row, cooled, caches, events, error, keyed, seen>>

\* After recordError without the key, the catch block of dispatch() calls it
\* again with the key.
After(c) == IF keyed'[c] THEN "done" ELSE "second"

Failures(es) == Cardinality({i \in DOMAIN es : ~es[i]})
Trips(es) == Len(es) >= MinRequests /\ 2 * Failures(es) >= Len(es)

RecordError(c, e) ==
    LET p == ProcOf[c]
    IN  \/ /\ e \in {"401", "403"} /\ keyed'[c]
           /\ Goto(c, "markRead")
           /\ UNCHANGED local
        \/ /\ e = "401" /\ ~keyed'[c]
           /\ Goto(c, "toDisabled")
           /\ UNCHANGED local
        \/ /\ e = "429" \/ (e = "403" /\ ~keyed'[c])
           /\ stage' = [stage EXCEPT ![c] = "toBusy"]
           /\ back' = [back EXCEPT ![c] = After(c)]
           /\ UNCHANGED local
        \/ /\ e = "4xx"
           /\ Goto(c, After(c))
           /\ UNCHANGED local
        \/ /\ e = "5xx"
           /\ Happened(c, FALSE)
           /\ wins' = [wins EXCEPT ![p] = 0]
           /\ Goto(c, IF Trips(events'[p]) THEN "toDisabled" ELSE After(c))

\* An error status, a timeout or an overload.
Fails(c) ==
    /\ At(c, "idle")
    /\ \E e \in Errors :
        /\ error' = [error EXCEPT ![c] = e]
        /\ keyed' = [keyed EXCEPT ![c] = FALSE]
        /\ RecordError(c, e)
    /\ UNCHANGED <<row, cooled, caches, seen>>

\* A network error is only recorded by the catch block.
FailsToConnect(c) ==
    /\ At(c, "idle")
    /\ UNCHANGED <<error, keyed>>
    /\ RecordError(c, "5xx")
    /\ UNCHANGED <<row, cooled, caches, seen>>

RecordAgain(c) ==
    /\ At(c, "second")
    /\ keyed' = [keyed EXCEPT ![c] = TRUE]
    /\ RecordError(c, error[c])
    /\ error' = [error EXCEPT ![c] = "5xx"]
    /\ UNCHANGED <<row, cooled, caches, seen>>

WriteBusy(c) ==
    /\ At(c, "toBusy")
    /\ SetStatus(Busy, FALSE)
    /\ ThenRefresh(c, back[c])
    /\ UNCHANGED <<caches, local, error, keyed, seen>>

\* disableChannel: a manually disabled channel stays as it is.
WriteDisabled(c) ==
    LET auth == error[c] = "401" /\ ~keyed[c]
    IN  /\ At(c, "toDisabled")
        /\ IF row.status = Manual THEN UNCHANGED <<row, cooled>>
                                  ELSE SetStatus(Broken, auth)
        /\ ThenRefresh(c, "cleared")
        /\ UNCHANGED <<caches, local, error, keyed, seen>>

ClearWindow(c) ==
    /\ At(c, "cleared")
    /\ events' = [events EXCEPT ![ProcOf[c]] = <<>>]
    /\ wins' = [wins EXCEPT ![ProcOf[c]] = 0]
    /\ Goto(c, IF keyed[c] THEN "done" ELSE "second")
    /\ UNCHANGED <<row, cooled, caches, error, keyed, seen>>

\* markKeyExhausted reads key_status, then writes it back as a whole.
MarkRead(c) ==
    /\ At(c, "markRead")
    /\ seen' = [seen EXCEPT ![c] = row]
    /\ Goto(c, "markWrite")
    /\ UNCHANGED <<row, cooled, caches, local, error, keyed>>

\* Whether healthyCount is 0.  The marks name plain keys and are looked for among
\* the entries of the key column.  A column that a route wrote is encrypted and
\* always has an entry without a mark; one from before the encryption has none
\* when every key is marked.  Which kind it is is left open.
MayBeNoneHealthy(bad) == IF Keys \subseteq bad THEN BOOLEAN ELSE {FALSE}

MarkWrite(c) ==
    /\ At(c, "markWrite")
    /\ \E k \in Keys :
        LET bad == seen[c].bad \cup {k}
        IN  /\ row' = [row EXCEPT !.bad = bad]
            /\ cooled' = FALSE
            /\ \E none \in MayBeNoneHealthy(bad) :
                 IF none THEN Goto(c, "toDisabled") ELSE ThenRefresh(c, "done")
    /\ seen' = [seen EXCEPT ![c] = Healthy]
    /\ UNCHANGED <<caches, local, error, keyed>>

-----------------------------------------------------------------------------
(* The administrator.  Every route reads the row, then writes it.          *)

AdminReads(c) ==
    /\ c \in Admins
    /\ At(c, "idle")
    /\ seen' = [seen EXCEPT ![c] = row]
    /\ Goto(c, "adminWrite")
    /\ UNCHANGED <<row, cooled, caches, local, error, keyed>>

AdminWrote(c) ==
    /\ cooled' = FALSE
    /\ ThenRefresh(c, "done")
    /\ seen' = [seen EXCEPT ![c] = Healthy]
    /\ UNCHANGED <<caches, local, error, keyed>>

\* PUT /channels/:id writes all columns, those not in the request as they were
\* read; the status message stays.
AdminWrites(c) ==
    /\ At(c, "adminWrite")
    /\ \E s \in {Online, Manual, seen[c].status}, bad \in SUBSET Keys :
         row' = [row EXCEPT !.status = s, !.bad = bad]
    /\ AdminWrote(c)

\* POST /channels/:id/keys/restore: one key, or all of them, are unmarked.
AdminRestores(c) ==
    /\ At(c, "adminWrite")
    /\ \E ks \in {{k} : k \in seen[c].bad} \cup {{}, seen[c].bad} :
         LET s == IF seen[c].status = Broken /\ ks # {} THEN Online
                                                        ELSE seen[c].status
         IN  row' = [row EXCEPT !.status = s, !.auth = seen[c].auth /\ s # Online,
                                !.bad = seen[c].bad \ ks]
    /\ AdminWrote(c)

\* POST /channels/:id/keys/status switches one key of a list that selection
\* does not read; what it counts as enabled is every key, disabled or not.
AdminSwitchesKey(c) ==
    /\ At(c, "adminWrite")
    /\ row' = [row EXCEPT !.status = IF seen[c].status = Broken THEN Online
                                                               ELSE seen[c].status]
    /\ AdminWrote(c)

-----------------------------------------------------------------------------
(* checkAllChannels of services/health.ts tests the channels it found online. *)

ProbeStarts(c) ==
    /\ c \in Probers
    /\ At(c, "idle")
    /\ row.status = Online
    /\ Goto(c, "probing")
    /\ UNCHANGED <<row, cooled, caches, local, error, keyed, seen>>

\* The channel answers, or its failures are not yet MAX_ERRORS: they and the
\* time are written, but neither status nor updated_at.
ProbeCounts(c) ==
    /\ At(c, "probing")
    /\ Goto(c, "done")
    /\ UNCHANGED <<row, cooled, caches, local, error, keyed, seen>>

\* One failure too many, whatever the status is by now.  The message stays.
ProbeDisables(c) ==
    /\ At(c, "probing")
    /\ row' = [row EXCEPT !.status = Broken]
    /\ ThenRefresh(c, "done")
    /\ UNCHANGED <<cooled, caches, local, error, keyed, seen>>

-----------------------------------------------------------------------------
(* runHealthCheck.  back[h] # "idle" says that something changed.          *)

CheckWrites(h, s, place) ==
    /\ SetStatus(s, FALSE)
    /\ stage' = [stage EXCEPT ![h] = place]
    /\ back' = [back EXCEPT ![h] = "done"]

CheckUnchanged == UNCHANGED <<caches, local, error, keyed>>

\* Four selects, each followed by its updates; stage[h] is the first that is
\* still to come.  One that finds nothing is taken together with the next.
SelectBusy(h) ==
    /\ At(h, "idle")
    /\ cooled /\ row.status = Busy
    /\ Goto(h, "busySelected")
    /\ UNCHANGED <<row, cooled, seen>> /\ CheckUnchanged

BusyBack(h) ==
    /\ At(h, "busySelected")
    /\ CheckWrites(h, Online, "testing")
    /\ UNCHANGED seen /\ CheckUnchanged

SelectTestingNever(h) ==
    /\ stage[h] \in {"idle", "testing"}
    /\ cooled /\ row.status = Testing
    /\ Goto(h, IF At(h, "idle") THEN "idle" ELSE "broken")
    /\ UNCHANGED <<row, cooled, seen>> /\ CheckUnchanged

SelectTesting(h) ==
    /\ stage[h] \in {"idle", "testing"}
    /\ cooled /\ row.status = Testing
    /\ Goto(h, "testingSelected")
    /\ UNCHANGED <<row, cooled, seen>> /\ CheckUnchanged

TestingBack(h) ==
    /\ At(h, "testingSelected")
    /\ CheckWrites(h, Online, "broken")
    /\ UNCHANGED seen /\ CheckUnchanged

SelectBroken(h) ==
    /\ stage[h] \in {"idle", "testing", "broken"}
    /\ cooled /\ row.status = Broken /\ ~row.auth
    /\ Goto(h, "ping")
    /\ UNCHANGED <<row, cooled, seen>> /\ CheckUnchanged

PingFails(h) ==
    /\ At(h, "ping")
    /\ Goto(h, "keys")
    /\ UNCHANGED <<row, cooled, seen>> /\ CheckUnchanged

PingSucceeds(h) ==
    /\ At(h, "ping")
    /\ CheckWrites(h, Testing, "keys")
    /\ UNCHANGED seen /\ CheckUnchanged

\* Its cooldown is so long that the earlier selects saw the same row.
SelectKeys(h) ==
    /\ At(h, "keys") \/ (At(h, "idle") /\ (row.status \in {Online, Manual}
                                     \/ (row.status = Broken /\ row.auth)))
    /\ cooled /\ row.bad # {}
    /\ seen' = [seen EXCEPT ![h] = row]
    /\ Goto(h, "probe")
    /\ UNCHANGED <<row, cooled>> /\ CheckUnchanged

\* if (changed) await memoryCache.refresh()
Finish(h) ==
    /\ stage' = [stage EXCEPT ![h] = IF back[h] = "idle" THEN "idle" ELSE "reading"]
    /\ back' = [back EXCEPT ![h] = "idle"]

\* The selects still to come find nothing, or nothing old enough.
EndCheck(h) ==
    /\ stage[h] \in {"testing", "broken", "keys"}
    /\ Finish(h)
    /\ UNCHANGED <<row, cooled, seen>> /\ CheckUnchanged

NoKeyIsBack(h) ==
    /\ At(h, "probe")
    /\ Finish(h)
    /\ seen' = [seen EXCEPT ![h] = Healthy]
    /\ UNCHANGED <<row, cooled>> /\ CheckUnchanged

\* The marks that were read, without the keys that answer, are written back.
KeysAreBack(h) ==
    /\ At(h, "probe")
    /\ \E ks \in SUBSET seen[h].bad \ {{}} :
         row' = [row EXCEPT !.bad = seen[h].bad \ ks]
    /\ cooled' = FALSE
    /\ IF seen[h].status = Broken THEN Goto(h, "restore")
       ELSE /\ stage' = [stage EXCEPT ![h] = "reading"]
            /\ back' = [back EXCEPT ![h] = "idle"]
    /\ seen' = [seen EXCEPT ![h] = Healthy]
    /\ CheckUnchanged

ChannelIsBack(h) ==
    /\ At(h, "restore")
    /\ SetStatus(Online, FALSE)
    /\ ThenRefresh(h, "idle")
    /\ UNCHANGED seen /\ CheckUnchanged

-----------------------------------------------------------------------------
(* Time.                                                                   *)

Cool ==
    /\ ~cooled
    /\ cooled' = TRUE
    /\ UNCHANGED <<row, caches, local, stage, back, error, keyed, seen>>

-----------------------------------------------------------------------------
Begin(c) ==
    Succeeds(c) \/ SucceedsSlowly(c) \/ Fails(c) \/ FailsToConnect(c)
    \/ AdminReads(c) \/ ProbeStarts(c)

Continue(c) ==
    \/ RecoverAfterBusy(c) \/ WriteOnline(c) \/ ForgetWins(c)
    \/ RecordAgain(c) \/ WriteBusy(c) \/ WriteDisabled(c) \/ ClearWindow(c)
    \/ MarkRead(c) \/ MarkWrite(c)
    \/ AdminWrites(c) \/ AdminRestores(c) \/ AdminSwitchesKey(c)
    \/ ProbeCounts(c) \/ ProbeDisables(c)

Check(h) ==
    \/ SelectBusy(h) \/ BusyBack(h) \/ SelectTesting(h) \/ TestingBack(h)
    \/ SelectBroken(h) \/ PingFails(h) \/ PingSucceeds(h)
    \/ SelectKeys(h) \/ NoKeyIsBack(h) \/ KeysAreBack(h) \/ ChannelIsBack(h)
    \/ EndCheck(h)

Next ==
    \/ \E c \in Calls : Begin(c) \/ Continue(c)
    \/ \E h \in Checkers : Check(h)
    \/ \E p \in Procs : Notified(p)
    \/ \E f \in Fibers : Refresh(f)
    \/ Cool

\* Statements are answered, timers fire, notifications arrive, and an
\* upstream that is pinged again and again answers at last.
Fairness ==
    /\ \A c \in Calls : WF_vars(Continue(c))
    /\ \A h \in Checkers : WF_vars(Check(h)) /\ SF_vars(PingSucceeds(h))
    /\ \A p \in Procs : WF_vars(Notified(p))
    /\ \A f \in Fibers : WF_vars(Refresh(f))
    /\ WF_vars(Cool)

Spec == Init /\ [][Next]_vars /\ Fairness

-----------------------------------------------------------------------------
(* Correctness.                                                            *)

\* No channel is stuck: after the last request it ends up online, unless an
\* administrator disabled it or its last error was a 401.
NotStuck ==
    <>[](row.status \in {Online, Manual} \/ (row.status = Broken /\ row.auth))
=============================================================================
