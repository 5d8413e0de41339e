----------------------------- MODULE TaskQueue ------------------------------
(***************************************************************************)
(* Long tasks (services/task-service.ts) and batches                       *)
(* (services/batchExecutor.ts): rows whose status several actors write,    *)
(* and pg-boss jobs that run them.  pg-boss delivers a job again when its  *)
(* handler fails or its heartbeat stops, though the handler may still be   *)
(* alive; it accepts one job per item and throttling period.               *)
(***************************************************************************)
EXTENDS Naturals, Sequences, FiniteSets

CONSTANTS
    Tasks,
    Batches,
    RetryLimit,  \* retries of a job
    MaxItems,    \* bound: items created
    MaxFaults    \* bound: failures, deaths and premature expirations

ASSUME ItemsAssumption == Tasks \intersect Batches = {}

ASSUME LimitsAssumption == RetryLimit \in Nat /\ MaxFaults \in Nat

Items == Tasks \union Batches

VARIABLES
    status,    \* of the row; "none" before it is created
    sender,    \* items somebody is about to send to pg-boss
    job,       \* the pg-boss job of an item
    tries,     \* how often that job was fetched
    runs,      \* the stages of the handlers that fetched a job, latest last
    executed,  \* history: how often an item was dispatched
    cancelled, \* history: items ever cancelled
    blind,     \* history: items cancelled behind the back of a handler or scan
    overlap,   \* history: items whose job expired under a handler
    stranded,  \* history: batches left in_progress with nobody to go on
    faults

rowVars == <<status, sender>>
jobVars == <<job, tries, runs>>
history == <<cancelled, blind, overlap, stranded>>
vars == <<rowVars, jobVars, executed, history, faults>>

Init ==
    /\ status = [i \in Items |-> "none"]
    /\ sender = {}
    /\ job = [i \in Items |-> "none"]
    /\ tries = [i \in Items |-> 0]
    /\ runs = [i \in Items |-> <<>>]
    /\ executed = [i \in Items |-> 0]
    /\ cancelled = {} /\ blind = {} /\ overlap = {} /\ stranded = {}
    /\ faults = 0

Fault == faults < MaxFaults /\ faults' = faults + 1

Waiting(i) == IF i \in Tasks THEN "pending" ELSE "validating"

Working(i) == IF i \in Tasks THEN "processing" ELSE "in_progress"

\* mutant: a task that another handler has marked is processed again
RunnableAgain(i) == status[i] \in {Waiting(i), Working(i)}

\* mutant: the handler skips what has ended by itself, not what was cancelled
RunnableCancelled(i) == status[i] \in {Waiting(i), Working(i), "cancelled"}

\* What processTaskById and processBatch go on with.
Runnable(i) == status[i] \in IF i \in Tasks THEN {"pending"}
                             ELSE {"validating", "in_progress"}

Alive(i) == {r \in DOMAIN runs[i] : runs[i][r] # "gone"}

SetStatus(i, s) == status' = [status EXCEPT ![i] = s]

-----------------------------------------------------------------------------
(* Creation, scans and sending *)

\* A task is sent by its creator, a batch by the next scan.
Create(i) ==
    /\ status[i] = "none"
    /\ Cardinality({j \in Items : status[j] # "none"}) < MaxItems
    /\ SetStatus(i, Waiting(i))
    /\ sender' = sender \union ({i} \intersect Tasks)
    /\ UNCHANGED <<jobVars, executed, history, faults>>

ScanPendingTasks(t) ==
    /\ status[t] = "pending" /\ t \notin sender
    /\ sender' = sender \union {t}
    /\ UNCHANGED <<status, jobVars, executed, history, faults>>

\* A scan claims a batch before it sends it.
ScanPendingBatches(b) ==
    /\ status[b] = "validating" /\ b \notin sender
    /\ SetStatus(b, "in_progress")
    /\ sender' = sender \union {b}
    /\ UNCHANGED <<jobVars, executed, history, faults>>

\* A send in the throttling period of an earlier job is answered by null.
Accept(i) ==
    IF job[i] = "none"
    THEN job' = [job EXCEPT ![i] = "queued"] /\ tries' = [tries EXCEPT ![i] = 0]
    ELSE UNCHANGED <<job, tries>>

\* The null is ignored, though a batch sent again after its job ended has
\* nobody then: it is in_progress until somebody cancels it.
Send(i) ==
    /\ i \in sender
    /\ sender' = sender \ {i}
    /\ Accept(i)
    /\ stranded' = IF i \in Batches /\ job[i] \in {"done", "dead"}
                   THEN stranded \union {i} ELSE stranded
    /\ UNCHANGED <<status, runs, executed, cancelled, blind, overlap, faults>>

\* mutant: a failing send does not give the batch back
SendFailsKeepsClaim(i) ==
    /\ i \in sender
    /\ Fault
    /\ sender' = sender \ {i}
    /\ Accept(i) \/ UNCHANGED <<job, tries>>
    /\ UNCHANGED <<status, runs, executed, history>>

\* The send fails, or only its answer does; a scan gives the batch back.
SendFails(i) ==
    /\ i \in sender
    /\ Fault
    /\ sender' = sender \ {i}
    /\ Accept(i) \/ UNCHANGED <<job, tries>>
    /\ status' = IF i \in Batches THEN [status EXCEPT ![i] = "validating"]
                 ELSE status
    /\ UNCHANGED <<runs, executed, history>>

SenderDies(i) ==
    /\ i \in sender
    /\ Fault
    /\ sender' = sender \ {i}
    /\ stranded' = stranded \union ({i} \intersect Batches)
    /\ UNCHANGED <<status, jobVars, executed, cancelled, blind, overlap>>

-----------------------------------------------------------------------------
(* pg-boss *)

Fetch(i) ==
    /\ job[i] = "queued"
    /\ job' = [job EXCEPT ![i] = "active"]
    /\ tries' = [tries EXCEPT ![i] = @ + 1]
    /\ runs' = [runs EXCEPT ![i] = Append(IF Alive(i) = {} THEN <<>> ELSE @,
                                          "fetched")]
    /\ UNCHANGED <<rowVars, executed, history, faults>>

\* mutant: one retry more than the limit
FailJobOneMore(i) ==
    /\ job' = [job EXCEPT ![i] = IF @ # "active" THEN @
                                 ELSE IF tries[i] <= RetryLimit + 1 THEN "queued"
                                 ELSE "dead"]
    /\ stranded' = IF job'[i] = "queued" THEN stranded
                   ELSE stranded \union ({i} \intersect Batches)

\* A failed or expired attempt; a retry keeps the identity of the job.
FailJob(i) ==
    /\ job' = [job EXCEPT ![i] = IF @ # "active" THEN @
                                 ELSE IF tries[i] <= RetryLimit THEN "queued"
                                 ELSE "dead"]
    /\ stranded' = IF job'[i] = "queued" THEN stranded
                   ELSE stranded \union ({i} \intersect Batches)

\* A handler that returns completes the job, even if it is no longer the
\* attempt that is active.
Return(i, r) ==
    /\ runs' = [runs EXCEPT ![i][r] = "gone"]
    /\ job' = [job EXCEPT ![i] = IF @ = "active" THEN "done" ELSE @]
    /\ UNCHANGED tries

\* The heartbeat of a handler stops: because it died, or because its process
\* is stalled or cut off and will go on later.
Expire(i) ==
    /\ job[i] = "active"
    /\ LET alive == runs[i][Len(runs[i])] # "gone"
       IN  /\ IF alive THEN Fault ELSE UNCHANGED faults
           /\ overlap' = IF alive THEN overlap \union {i} ELSE overlap
    /\ FailJob(i)
    /\ UNCHANGED <<rowVars, tries, runs, executed, cancelled, blind>>

ThrottlingEnds(i) ==
    /\ job[i] \in {"done", "dead"}
    /\ job' = [job EXCEPT ![i] = "none"]
    /\ UNCHANGED <<rowVars, tries, runs, executed, history, faults>>

-----------------------------------------------------------------------------
(* Handlers: run r of item i *)

Read(i, r) ==
    /\ runs[i][r] = "fetched"
    /\ IF Runnable(i)
       THEN runs' = [runs EXCEPT ![i][r] = "read"] /\ UNCHANGED <<job, tries>>
       ELSE Return(i, r)
    /\ UNCHANGED <<rowVars, executed, history, faults>>

Mark(i, r) ==
    /\ runs[i][r] = "read"
    /\ SetStatus(i, Working(i))
    /\ runs' = [runs EXCEPT ![i][r] = "marked"]
    /\ UNCHANGED <<sender, job, tries, executed, history, faults>>

\* The requests of a batch, or the one of a task.
Execute(i, r) ==
    /\ runs[i][r] = "marked"
    /\ executed' = [executed EXCEPT ![i] = @ + 1]
    /\ runs' = [runs EXCEPT ![i][r] = "executed"]
    /\ UNCHANGED <<rowVars, job, tries, history, faults>>

\* No user, token or input file.
Refuse(i, r) ==
    /\ runs[i][r] = "marked"
    /\ SetStatus(i, "failed")
    /\ Return(i, r)
    /\ UNCHANGED <<sender, executed, history, faults>>

\* A task fails with its request; a batch completes, its errors in a file.
Answer(i, r) ==
    /\ runs[i][r] = "executed"
    /\ \E s \in {"completed"} \union IF i \in Tasks THEN {"failed"} ELSE {} :
          SetStatus(i, s)
    /\ Return(i, r)
    /\ UNCHANGED <<sender, executed, history, faults>>

\* A statement of the database fails and the handler throws.
Throw(i, r) ==
    /\ runs[i][r] # "gone"
    /\ Fault
    /\ runs' = [runs EXCEPT ![i][r] = "gone"]
    /\ FailJob(i)
    /\ UNCHANGED <<rowVars, tries, executed, cancelled, blind, overlap>>

\* Nobody retries a batch whose job an overlapping handler has completed.
Die(i, r) ==
    /\ runs[i][r] # "gone"
    /\ Fault
    /\ runs' = [runs EXCEPT ![i][r] = "gone"]
    /\ stranded' = IF job[i] \in {"queued", "active"} THEN stranded
                   ELSE stranded \union ({i} \intersect Batches)
    /\ UNCHANGED <<rowVars, job, tries, executed, cancelled, blind, overlap>>

-----------------------------------------------------------------------------
(* Users and the clean-up *)

Cancel(i) ==
    /\ status[i] \in {Waiting(i), Working(i)}
    /\ SetStatus(i, "cancelled")
    /\ cancelled' = cancelled \union {i}
    /\ blind' = IF \/ \E r \in Alive(i) : runs[i][r] # "fetched"
                   \/ i \in sender
                THEN blind \union {i} ELSE blind
    /\ UNCHANGED <<sender, jobVars, executed, overlap, stranded, faults>>

\* mutant: the clean-up looks at tasks that were never started
CleanupTasksPending(t) ==
    /\ status[t] = "pending"
    /\ SetStatus(t, "failed")
    /\ UNCHANGED <<sender, jobVars, executed, history, faults>>

\* A task processing for more than ten minutes, whoever may be at it.
CleanupTasks(t) ==
    /\ status[t] = "processing"
    /\ SetStatus(t, "failed")
    /\ UNCHANGED <<sender, jobVars, executed, history, faults>>

-----------------------------------------------------------------------------
Handler(i) ==
    \E r \in DOMAIN runs[i] :
        \/ Read(i, r) \/ Mark(i, r) \/ Execute(i, r)
        \/ Refuse(i, r) \/ Answer(i, r)

Next ==
    \/ \E i \in Items :
          \/ Create(i) \/ Cancel(i)
          \/ Send(i) \/ SendFails(i) \/ SenderDies(i)
          \/ Fetch(i) \/ Expire(i) \/ ThrottlingEnds(i)
          \/ \E r \in DOMAIN runs[i] : Throw(i, r) \/ Die(i, r)
          \/ Handler(i)
    \/ \E t \in Tasks : ScanPendingTasks(t) \/ CleanupTasks(t)
    \/ \E b \in Batches : ScanPendingBatches(b)

\* Timers and workers go on, upstreams answer in the end, throttling periods
\* pass, and pg-boss notices handlers that are gone.
Fairness ==
    /\ \A i \in Items :
          /\ WF_vars(Send(i)) /\ WF_vars(Fetch(i)) /\ WF_vars(Handler(i))
          /\ WF_vars(Expire(i) /\ runs[i][Len(runs[i])] = "gone")
          /\ WF_vars(ThrottlingEnds(i))
    /\ \A t \in Tasks :
          WF_vars(ScanPendingTasks(t)) /\ WF_vars(CleanupTasks(t))
    /\ \A b \in Batches : WF_vars(ScanPendingBatches(b))

Spec == Init /\ [][Next]_vars /\ Fairness

-----------------------------------------------------------------------------
(* Properties *)

Ended == {"completed", "failed", "cancelled"}

Stages == {"fetched", "read", "marked", "executed", "gone"}

TypeOK ==
    /\ DOMAIN status = Items
    /\ \A i \in Items : status[i] \in {"none", Waiting(i), Working(i)} \union Ended
    /\ sender \subseteq Items
    /\ job \in [Items -> {"none", "queued", "active", "done", "dead"}]
    /\ tries \in [Items -> 0 .. RetryLimit + 1]
    /\ runs \in [Items -> Seq(Stages)]
    /\ executed \in [Items -> Nat]
    /\ cancelled \subseteq Items /\ blind \subseteq cancelled
    /\ overlap \subseteq Items /\ stranded \subseteq Batches
    /\ faults \in 0 .. MaxFaults

\* A task is dispatched once, whatever fails or is retried, unless its job
\* expired while its handler was alive: the check for pending and the mark are
\* two statements, and a second handler may come between them.
TasksRunOnce == \A t \in Tasks \ overlap : executed[t] <= 1

\* A cancelled item stays cancelled and is not dispatched any more, unless a
\* handler that had read its status, or a scan that had claimed it, went on.
CancelHolds ==
    \A i \in cancelled \ blind : status[i] = "cancelled" /\ i \notin sender

\* Nothing unfinished is without somebody who will take it further: a scan that
\* sees its status, a job, a sender, a handler or the clean-up.  Only a batch is
\* forgotten: by the death of the scan that claimed it, after its last retry, or
\* by a send that pg-boss throttles because its last job ended just before.
NothingForgotten ==
    \A i \in Items :
        status[i] \in {Waiting(i), Working(i)} =>
            \/ status[i] = Waiting(i) \/ i \in Tasks
            \/ i \in sender \/ job[i] \in {"queued", "active"} \/ Alive(i) # {}
            \/ i \in stranded

\* Every task ends, and every batch that is not forgotten, although workers
\* die, sends fail and jobs are throttled.
EverythingEnds ==
    \A i \in Items :
        status[i] # "none" ~> (status[i] \in Ended \/ i \in stranded)
=============================================================================
