---------------------------- MODULE BillingQueue ----------------------------
(***************************************************************************)
(* How a billing record reaches the logs and the used_quota columns        *)
(* (services/billing.ts, services/jobQueue.ts): billAndLog sends it to the *)
(* pg-boss queue, or keeps it in an in-memory queue when that fails; the   *)
(* pg-boss worker and the periodic flush both run processBillingJobs, one  *)
(* transaction per batch, followed by the organisations' alerts.           *)
(*                                                                         *)
(* Abstracted: amounts (a batch's sums are added in the transaction that   *)
(* inserts its log rows, so `posted' stands for both), the contents of the *)
(* alerts.  pg-boss is external: it delivers a stored job at least once,   *)
(* again after a failure or an expiry, at most RetryLimit times.           *)
(***************************************************************************)
EXTENDS Integers, Sequences, FiniteSets

CONSTANTS
    Records,     \* the BillingContexts the gateway will produce
    OrgRecords,  \* those of a user with an organisation
    MaxQueue,    \* MAX_QUEUE_SIZE
    MaxRetry,    \* MAX_RETRY_COUNT
    BatchSize,   \* PG_BOSS_BILLING_BATCH_SIZE
    RetryLimit,  \* PG_BOSS_BILLING_RETRY_LIMIT
    MaxFaults    \* bound: how many faults

\* Failures that leave nothing behind: no stored job, no committed batch.
CleanFaults == {"send", "read", "tx"}

ASSUME BillingConstants ==
    /\ IsFiniteSet(Records)
    /\ OrgRecords \subseteq Records
    /\ MaxQueue \in Nat \ {0} /\ MaxRetry \in Nat \ {0}
    /\ BatchSize \in Nat \ {0} /\ RetryLimit \in Nat
    /\ MaxFaults \in Nat

VARIABLES
    accepted,  \* records for which billAndLog has returned
    job,       \* the state of a record's pg-boss job
    tries,     \* how often pg-boss has retried it
    queue,     \* billingQueue
    flushing,  \* isFlushing
    attempt,   \* retryCount of the running flush
    timers,    \* pending retry timers, by their retryCount
    stage,     \* where the two runs of processBillingJobs are suspended
    fetched,   \* the jobs of the worker's run
    tasks,     \* the tasks of the flush's run
    posted,    \* how often a record was inserted and added up
    lost,      \* history: records shifted out or held by a crashed process
    faults     \* how many faults so far, and whether all were clean

vars == <<accepted, job, tries, queue, flushing, attempt, timers, stage,
          fetched, tasks, posted, lost, faults>>
boss == <<job, tries>>
flush == <<flushing, attempt, timers, tasks>>

FaultHistory == [count : 0..MaxFaults, clean : BOOLEAN]

Handlers == {"worker", "flush"}
Entries(q) == {q[i] : i \in 1..Len(q)}
BatchOf(h) == IF h = "worker" THEN fetched ELSE Entries(tasks)

TypeOK ==
    /\ accepted \subseteq Records
    /\ job \in [Records -> {"none", "waiting", "active", "done", "failed"}]
    /\ tries \in [Records -> 0..RetryLimit]
    /\ queue \in Seq(Records)
    /\ flushing \in BOOLEAN
    /\ attempt \in 0..(MaxRetry - 1)
    /\ timers \subseteq 1..(MaxRetry - 1)
    /\ stage \in [Handlers -> {"idle", "reading", "writing", "alerting"}]
    /\ fetched \subseteq Records
    /\ tasks \in Seq(Records)
    /\ posted \in [Records -> Nat]
    /\ lost \subseteq Records
    /\ faults \in FaultHistory

Init ==
    /\ accepted = {}
    /\ job = [r \in Records |-> "none"]
    /\ tries = [r \in Records |-> 0]
    /\ queue = <<>>
    /\ flushing = FALSE
    /\ attempt = 0
    /\ timers = {}
    /\ stage = [h \in Handlers |-> "idle"]
    /\ fetched = {}
    /\ tasks = <<>>
    /\ posted = [r \in Records |-> 0]
    /\ lost = {}
    /\ faults = [count |-> 0, clean |-> TRUE]

Fault(kind) ==
    /\ faults.count < MaxFaults
    /\ faults' = [count |-> faults.count + 1,
                  clean |-> faults.clean /\ kind \in CleanFaults]

Enter(h, place) == stage' = [stage EXCEPT ![h] = place]

-----------------------------------------------------------------------------
(* billAndLog.                                                             *)

Send(r) ==
    /\ r \notin accepted
    /\ accepted' = accepted \cup {r}
    /\ job' = [job EXCEPT ![r] = "waiting"]
    /\ UNCHANGED <<tries, queue, flush, stage, fetched, posted, lost, faults>>

\* enqueueFallbackBilling: a full queue drops its oldest entry.
Fallback(r) ==
    /\ accepted' = accepted \cup {r}
    /\ queue' = Append(IF Len(queue) >= MaxQueue THEN Tail(queue) ELSE queue,
                       r)
    /\ lost' = IF Len(queue) >= MaxQueue THEN lost \cup {Head(queue)} ELSE lost

SendFails(r) ==
    /\ r \notin accepted
    /\ Fault("send")
    /\ Fallback(r)
    /\ UNCHANGED <<boss, flush, stage, fetched, posted>>

\* The job is stored, but the answer is lost: the record is queued twice.
SendAckLost(r) ==
    /\ r \notin accepted
    /\ Fault("sendAck")
    /\ job' = [job EXCEPT ![r] = "waiting"]
    /\ Fallback(r)
    /\ UNCHANGED <<tries, flush, stage, fetched, posted>>

-----------------------------------------------------------------------------
(* The pg-boss worker: one batch at a time.                                *)

Waiting == {r \in Records : job[r] = "waiting"}

Fetch ==
    /\ stage["worker"] = "idle"
    /\ \E batch \in SUBSET Waiting :
         /\ batch # {}
         /\ Cardinality(batch) <= BatchSize
         /\ Cardinality(batch) < BatchSize => batch = Waiting
         /\ fetched' = batch
         /\ job' = [r \in Records |-> IF r \in batch THEN "active"
                                                      ELSE job[r]]
    /\ Enter("worker", "reading")
    /\ UNCHANGED <<accepted, tries, queue, flush, posted, lost, faults>>

FailJobsOneMore(batch) ==
    /\ job' = [r \in Records |->
                 IF r \notin batch THEN job[r]
                 ELSE IF tries[r] <= RetryLimit THEN "waiting" ELSE "failed"]
    /\ tries' = [r \in Records |->
                 IF r \in batch /\ tries[r] <= RetryLimit THEN tries[r] + 1
                 ELSE tries[r]]
\* pg-boss retries a job of the given set, or gives it up.
FailJobs(batch) ==
    /\ job' = [r \in Records |->
                 IF r \notin batch THEN job[r]
                 ELSE IF tries[r] < RetryLimit THEN "waiting" ELSE "failed"]
    /\ tries' = [r \in Records |->
                 IF r \in batch /\ tries[r] < RetryLimit THEN tries[r] + 1
                 ELSE tries[r]]

\* An active job whose process is gone expires.
Expire(r) ==
    /\ job[r] = "active"
    /\ r \notin fetched
    /\ FailJobs({r})
    /\ UNCHANGED <<accepted, queue, flush, stage, fetched, posted, lost,
                   faults>>

-----------------------------------------------------------------------------
(* flushBillingQueue: every 500ms, and once per retry timer.               *)

TakeAllLeavesQueue == tasks' = queue /\ UNCHANGED queue
TakeAll == tasks' = queue /\ queue' = <<>>

StartFlush(n) ==
    /\ ~flushing
    /\ queue # <<>>
    /\ flushing' = TRUE
    /\ attempt' = n
    /\ TakeAll
    /\ Enter("flush", "reading")
    /\ UNCHANGED <<accepted, boss, fetched, posted, lost, faults>>

IntervalFlush == StartFlush(0) /\ UNCHANGED timers

RetryFlush(n) ==
    /\ n \in timers
    /\ StartFlush(n)
    /\ timers' = timers \ {n}

\* A retry timer finds a running flush or an empty queue.
RetryIdle(n) ==
    /\ n \in timers
    /\ flushing \/ queue = <<>>
    /\ timers' = timers \ {n}
    /\ UNCHANGED <<accepted, boss, queue, flushing, attempt, tasks, stage,
                   fetched, posted, lost, faults>>

FlushFailsKeepsFlag ==
    /\ IF attempt < MaxRetry - 1
       THEN /\ queue' = tasks \o queue
            /\ timers' = timers \cup {attempt + 1}
       ELSE /\ queue' = queue \o tasks
            /\ UNCHANGED timers
    /\ tasks' = <<>>
    /\ UNCHANGED <<flushing, attempt>>
FlushFailsForgets ==
    /\ flushing' = FALSE
    /\ timers' = IF attempt < MaxRetry - 1 THEN timers \cup {attempt + 1}
                                           ELSE timers
    /\ tasks' = <<>>
    /\ UNCHANGED <<queue, attempt>>
\* The tasks go back to the front with a retry timer, after the last retry
\* to the back.
FlushFails ==
    /\ flushing' = FALSE
    /\ IF attempt < MaxRetry - 1
       THEN /\ queue' = tasks \o queue
            /\ timers' = timers \cup {attempt + 1}
       ELSE /\ queue' = queue \o tasks
            /\ UNCHANGED timers
    /\ tasks' = <<>>
    /\ UNCHANGED attempt

-----------------------------------------------------------------------------
(* processBillingJobs, run by the worker and by the flush.                 *)

\* The channels' price ratios are read.
Read(h) ==
    /\ stage[h] = "reading"
    /\ Enter(h, "writing")
    /\ UNCHANGED <<accepted, boss, queue, flush, fetched, posted, lost,
                   faults>>

Post(h) == posted' = [r \in Records |-> IF r \in BatchOf(h)
                                        THEN posted[r] + 1 ELSE posted[r]]

\* The transaction: used_quota of users, tokens, organisations; log rows.
Commit(h) ==
    /\ stage[h] = "writing"
    /\ Post(h)
    /\ Enter(h, "alerting")
    /\ UNCHANGED <<accepted, boss, queue, flush, fetched, lost, faults>>

\* The caller learns that the batch failed.
Failed(h) ==
    /\ Enter(h, "idle")
    /\ IF h = "worker"
       THEN /\ FailJobs(fetched)
            /\ fetched' = {}
            /\ UNCHANGED <<queue, flush>>
       ELSE /\ FlushFails
            /\ UNCHANGED <<boss, fetched>>

ReadFails(h) ==
    /\ stage[h] = "reading"
    /\ Fault("read")
    /\ Failed(h)
    /\ UNCHANGED <<accepted, posted, lost>>

\* The transaction is rolled back.
TxFails(h) ==
    /\ stage[h] = "writing"
    /\ Fault("tx")
    /\ Failed(h)
    /\ UNCHANGED <<accepted, posted, lost>>

\* It is committed, but the connection breaks before the answer.
TxAckLost(h) ==
    /\ stage[h] = "writing"
    /\ Fault("txAck")
    /\ Post(h)
    /\ Failed(h)
    /\ UNCHANGED <<accepted, lost>>

\* After the commit, the select of the organisations throws.
AlertFails(h) ==
    /\ stage[h] = "alerting"
    /\ BatchOf(h) \cap OrgRecords # {}
    /\ Fault("alert")
    /\ Failed(h)
    /\ UNCHANGED <<accepted, posted, lost>>

Finish(h) ==
    /\ stage[h] = "alerting"
    /\ Enter(h, "idle")
    /\ IF h = "worker"
       THEN /\ job' = [r \in Records |-> IF r \in fetched THEN "done"
                                                          ELSE job[r]]
            /\ fetched' = {}
            /\ UNCHANGED flush
       ELSE /\ flushing' = FALSE
            /\ tasks' = <<>>
            /\ UNCHANGED <<job, fetched, attempt, timers>>
    /\ UNCHANGED <<accepted, tries, queue, posted, lost, faults>>

\* The process dies and restarts: its memory is gone, pg-boss' jobs stay.
Crash ==
    /\ Fault("crash")
    /\ lost' = lost \cup Entries(queue) \cup Entries(tasks)
    /\ queue' = <<>> /\ tasks' = <<>>
    /\ flushing' = FALSE /\ attempt' = 0 /\ timers' = {}
    /\ stage' = [h \in Handlers |-> "idle"]
    /\ fetched' = {}
    /\ UNCHANGED <<accepted, boss, posted>>

-----------------------------------------------------------------------------
Accept(r) == Send(r) \/ SendFails(r) \/ SendAckLost(r)
Run(h) ==
    \/ Read(h) \/ Commit(h) \/ Finish(h)
    \/ ReadFails(h) \/ TxFails(h) \/ TxAckLost(h) \/ AlertFails(h)

Next ==
    \/ \E r \in Records : Accept(r) \/ Expire(r)
    \/ Fetch \/ IntervalFlush \/ Crash
    \/ \E n \in timers : RetryFlush(n) \/ RetryIdle(n)
    \/ \E h \in Handlers : Run(h)

\* The interval keeps firing, pg-boss keeps polling and expiring, and the
\* database answers (faults are bounded by MaxFaults).
Fairness ==
    /\ WF_vars(IntervalFlush)
    /\ WF_vars(Fetch)
    /\ \A h \in Handlers : WF_vars(Run(h))
    /\ \A r \in Records : WF_vars(Expire(r))

Spec == Init /\ [][Next]_vars /\ Fairness

-----------------------------------------------------------------------------
(* Correctness.                                                            *)

Kept(r) == r \in Entries(queue) \cup Entries(tasks)

\* Every record billAndLog took is posted, or still held by the process, by
\* pg-boss, or was given up in one of the three ways the code allows: a full
\* queue, a crash of its holder, or retries used up.  No retry path of the
\* flush forgets its tasks.
NothingForgotten ==
    \A r \in accepted :
        \/ posted[r] > 0
        \/ Kept(r)
        \/ job[r] \in {"waiting", "active", "failed"}
        \/ r \in lost

\* The process holds at most one copy of a record: the flush takes its tasks
\* out of the queue and puts them back once.
HeldOnce ==
    /\ \A i, j \in 1..Len(queue) : queue[i] = queue[j] => i = j
    /\ \A i, j \in 1..Len(tasks) : tasks[i] = tasks[j] => i = j
    /\ Entries(queue) \cap Entries(tasks) = {}

\* As long as no failure has followed a commit or a stored job (and nothing
\* has crashed), no record is posted twice, whatever failed and was retried.
PostedOnce == faults.clean => \A r \in Records : posted[r] <= 1

\* No path of the flush, its timers or pg-boss doubles a record, in memory or
\* in the database.
CountedOnce == HeldOnce /\ PostedOnce

\* Every record is posted or given up, once the faults stop: neither the
\* flag, nor the retry timers, nor pg-boss leave it behind.
EventuallySettled ==
    \A r \in Records :
        r \in accepted ~> posted[r] > 0 \/ r \in lost \/ job[r] = "failed"

\* How many steps pg-boss can still take with a job, and a run with its batch.
JobPlaces == [none |-> 0, waiting |-> 2, active |-> 1, done |-> 0, failed |-> 0]
JobSteps ==
    [r \in Records |-> 2 * (RetryLimit - tries[r]) + JobPlaces[job[r]]]
RunPlaces == [reading |-> 3, writing |-> 2, alerting |-> 1, idle |-> 0]
RunSteps == [h \in Handlers |-> RunPlaces[stage[h]]]

\* At least one of a family of numbers has fallen and none has risen.
Falls(new, old, S) ==
    /\ \A x \in S : new[x] <= old[x]
    /\ \E x \in S : new[x] < old[x]

\* Why the retries do not keep each other alive: but for new records and
\* faults, a step takes pg-boss further with its jobs, else empties the queue,
\* else uses up a retry timer, else takes a run further.  No such descent goes
\* on for ever, so the queue cannot be flushed and refilled in a circle.
RetriesRunDown ==
    [][\/ accepted \subseteq accepted' /\ accepted' # accepted
       \/ faults'.count > faults.count
       \/ Falls(JobSteps', JobSteps, Records)
       \/ /\ JobSteps' = JobSteps
          /\ \/ queue # <<>> /\ queue' = <<>>
             \/ queue' = queue /\ timers' \subseteq timers /\ timers' # timers
             \/ /\ UNCHANGED <<queue, timers>>
                /\ Falls(RunSteps', RunSteps, Handlers)]_vars
=============================================================================
