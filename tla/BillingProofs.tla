---------------------------- MODULE BillingProofs ----------------------------
(***************************************************************************)
(* For any number of records, any queue sizes and retry limits, and every  *)
(* combination of faults: no record is forgotten, none is held twice; and  *)
(* none is posted twice when no failure follows a commit or a stored job.  *)
(* The retries of the flush and of pg-boss run down.                       *)
(***************************************************************************)
EXTENDS BillingQueue, SequenceTheorems, TLAPS

Distinct(q) == \A i, j \in 1..Len(q) : q[i] = q[j] => i = j

\* The flags say which runs exist; what a run that has committed works on is
\* posted, and so is what pg-boss has completed.
RunsInv ==
    /\ flushing <=> stage["flush"] # "idle"
    /\ ~flushing => tasks = <<>>
    /\ stage["worker"] = "idle" => fetched = {}
    /\ \A h \in Handlers : stage[h] = "alerting" =>
         \A r \in BatchOf(h) : posted[r] > 0
    /\ \A r \in Records : job[r] = "done" => posted[r] > 0

\* A record is new, or one copy of it is held by pg-boss, the queue or the
\* flush, and a copy whose run has not committed was not posted.
CopiesInv ==
    /\ \A r \in Records \ accepted : job[r] = "none" /\ posted[r] = 0
    /\ \A r \in Records : Kept(r) => r \in accepted /\ job[r] = "none"
    /\ \A r \in Records : job[r] = "active" <=> r \in fetched
    /\ \A r \in Records :
         job[r] = "waiting" \/ r \in Entries(queue) => posted[r] = 0
    /\ \A h \in Handlers : stage[h] \in {"reading", "writing"} =>
         \A r \in BatchOf(h) : posted[r] = 0
    /\ \A r \in Records : posted[r] <= 1

HeldInv ==
    /\ \A r \in Records : Kept(r) => r \in accepted
    /\ Distinct(queue) /\ Distinct(tasks)
    /\ Entries(queue) \cap Entries(tasks) = {}

Mild == faults.clean

IInv ==
    /\ TypeOK /\ RunsInv /\ HeldInv /\ NothingForgotten
    /\ Mild => CopiesInv

-----------------------------------------------------------------------------
(* Lemmas about sequences.                                                 *)

LEMMA RangeEmpty == Entries(<<>>) = {} /\ Distinct(<<>>)
BY DEF Entries, Distinct

LEMMA RangeIn ==
    ASSUME NEW S, NEW q \in Seq(S) PROVE Entries(q) \subseteq S
BY ElementOfSeq DEF Entries

LEMMA AppendRange ==
    ASSUME NEW S, NEW q \in Seq(S), NEW x \in S, Distinct(q), x \notin Entries(q)
    PROVE  /\ Append(q, x) \in Seq(S)
           /\ Entries(Append(q, x)) = Entries(q) \cup {x}
           /\ Distinct(Append(q, x))
<1>1. /\ Append(q, x) \in Seq(S) /\ Len(Append(q, x)) = Len(q) + 1
      /\ Len(q) \in Nat
      /\ \A i \in 1..Len(q) : Append(q, x)[i] = q[i]
      /\ Append(q, x)[Len(q) + 1] = x
  BY AppendProperties
<1>2. \A i \in 1..(Len(q) + 1) : i \in 1..Len(q) \/ i = Len(q) + 1
  BY <1>1
<1>3. 1..Len(q) \subseteq 1..(Len(q) + 1) /\ Len(q) + 1 \in 1..(Len(q) + 1)
  BY <1>1
<1>4. Entries(Append(q, x)) = Entries(q) \cup {x}
  BY <1>1, <1>2, <1>3 DEF Entries
<1>5. Distinct(Append(q, x))
  BY <1>1, <1>2 DEF Distinct, Entries
<1>. QED BY <1>1, <1>4, <1>5

LEMMA TailRange ==
    ASSUME NEW S, NEW q \in Seq(S), q # <<>>, Distinct(q)
    PROVE  /\ Tail(q) \in Seq(S) /\ Distinct(Tail(q)) /\ Head(q) \in S
           /\ Entries(q) = Entries(Tail(q)) \cup {Head(q)}
<1>1. /\ Tail(q) \in Seq(S) /\ Head(q) = q[1] /\ Head(q) \in S
      /\ Len(q) \in Nat \ {0} /\ Len(Tail(q)) = Len(q) - 1
      /\ \A i \in 1..(Len(q) - 1) : Tail(q)[i] = q[i + 1]
  BY HeadTailProperties
<1>2. /\ \A i \in 1..(Len(q) - 1) : i + 1 \in 1..Len(q)
      /\ \A i \in 1..Len(q) : i = 1 \/ (i - 1 \in 1..(Len(q) - 1)
                                        /\ (i - 1) + 1 = i)
      /\ 1 \in 1..Len(q)
  BY <1>1
<1>3. Distinct(Tail(q))
  <2>1. ASSUME NEW i \in 1..Len(Tail(q)), NEW j \in 1..Len(Tail(q)),
               Tail(q)[i] = Tail(q)[j]
        PROVE  i = j
    <3>1. q[i + 1] = q[j + 1] BY <1>1, <2>1
    <3>2. i + 1 = j + 1 BY <1>1, <1>2, <3>1 DEF Distinct
    <3>. QED BY <1>1, <3>2
  <2>. QED BY <2>1 DEF Distinct
<1>4. ASSUME NEW y \in Entries(q) PROVE y \in Entries(Tail(q)) \cup {Head(q)}
  <2>1. PICK i \in 1..Len(q) : q[i] = y BY DEF Entries
  <2>2. CASE i = 1
    <3>1. y = Head(q) BY <1>1, <2>1, <2>2
    <3>. QED BY <3>1
  <2>3. CASE i # 1
    <3>1. i - 1 \in 1..Len(Tail(q)) /\ Tail(q)[i - 1] = y
      BY <1>1, <1>2, <2>1, <2>3
    <3>. QED BY <3>1 DEF Entries
  <2>. QED BY <2>2, <2>3
<1>5. Entries(Tail(q)) \cup {Head(q)} \subseteq Entries(q)
  BY <1>1, <1>2 DEF Entries
<1>. QED BY <1>1, <1>3, <1>4, <1>5

LEMMA ConcatRange ==
    ASSUME NEW S, NEW p \in Seq(S), NEW q \in Seq(S), Distinct(p), Distinct(q),
           Entries(p) \cap Entries(q) = {}
    PROVE  /\ p \o q \in Seq(S) /\ Distinct(p \o q)
           /\ Entries(p \o q) = Entries(p) \cup Entries(q)
<1>1. /\ p \o q \in Seq(S) /\ Len(p \o q) = Len(p) + Len(q)
      /\ Len(p) \in Nat /\ Len(q) \in Nat
      /\ \A i \in 1..(Len(p) + Len(q)) :
           (p \o q)[i] = IF i <= Len(p) THEN p[i] ELSE q[i - Len(p)]
  BY ConcatProperties, LenProperties
<1>2. ASSUME NEW i \in 1..(Len(p) + Len(q))
      PROVE  \/ i \in 1..Len(p) /\ (p \o q)[i] = p[i]
             \/ i - Len(p) \in 1..Len(q) /\ (p \o q)[i] = q[i - Len(p)]
  BY <1>1
<1>3. Entries(p \o q) \subseteq Entries(p) \cup Entries(q)
  BY <1>1, <1>2 DEF Entries
<1>4. Entries(p) \subseteq Entries(p \o q)
  <2>1. \A i \in 1..Len(p) : i \in 1..(Len(p) + Len(q)) /\ i <= Len(p)
    BY <1>1
  <2>. QED BY <1>1, <2>1 DEF Entries
<1>5. Entries(q) \subseteq Entries(p \o q)
  <2>1. ASSUME NEW i \in 1..Len(q)
        PROVE  /\ Len(p) + i \in 1..Len(p \o q)
               /\ (p \o q)[Len(p) + i] = q[i]
    BY <1>1
  <2>. QED BY <2>1 DEF Entries
<1>6. Distinct(p \o q)
  <2>1. ASSUME NEW i \in 1..(Len(p) + Len(q)), NEW j \in 1..(Len(p) + Len(q)),
               (p \o q)[i] = (p \o q)[j]
        PROVE  i = j
    <3>1. CASE i \in 1..Len(p) /\ j \in 1..Len(p)
      BY <1>1, <2>1, <3>1 DEF Distinct
    <3>2. CASE i \notin 1..Len(p) /\ j \notin 1..Len(p)
      <4>1. /\ i - Len(p) \in 1..Len(q) /\ j - Len(p) \in 1..Len(q)
            /\ q[i - Len(p)] = q[j - Len(p)]
        BY <1>2, <2>1, <3>2
      <4>2. i - Len(p) = j - Len(p) BY <4>1 DEF Distinct
      <4>. QED BY <1>1, <4>2
    <3>3. CASE i \in 1..Len(p) /\ j \notin 1..Len(p)
      <4>1. (p \o q)[i] \in Entries(p) BY <1>1, <3>3 DEF Entries
      <4>2. (p \o q)[j] \in Entries(q) BY <1>2, <3>3 DEF Entries
      <4>. QED BY <2>1, <4>1, <4>2
    <3>4. CASE i \notin 1..Len(p) /\ j \in 1..Len(p)
      <4>1. (p \o q)[j] \in Entries(p) BY <1>1, <3>4 DEF Entries
      <4>2. (p \o q)[i] \in Entries(q) BY <1>2, <3>4 DEF Entries
      <4>. QED BY <2>1, <4>1, <4>2
    <3>. QED BY <3>1, <3>2, <3>3, <3>4
  <2>. QED BY <1>1, <2>1 DEF Distinct
<1>. QED BY <1>1, <1>3, <1>4, <1>5, <1>6

-----------------------------------------------------------------------------
LEMMA InitInv == Init => IInv
<1>. SUFFICES ASSUME Init PROVE IInv
  OBVIOUS
<1>1. TypeOK
  <2>1. 0 \in 0..RetryLimit /\ 0 \in 0..(MaxRetry - 1) /\ [count |-> 0, clean |-> TRUE] \in FaultHistory
    BY BillingConstants DEF FaultHistory
  <2>2. <<>> \in Seq(Records) BY EmptySeq
  <2>. QED BY <2>1, <2>2 DEF Init, TypeOK, Handlers
<1>2. RunsInv BY DEF Init, RunsInv, Handlers
<1>3. HeldInv /\ NothingForgotten
  BY RangeEmpty DEF Init, HeldInv, NothingForgotten, Kept
<1>4. CopiesInv
  BY RangeEmpty DEF Init, CopiesInv, Kept, Handlers, BatchOf
<1>. QED BY <1>1, <1>2, <1>3, <1>4 DEF IInv

LEMMA SendStep ==
    ASSUME IInv, NEW r \in Records, Send(r)
    PROVE  IInv'
<1>. USE DEF IInv, Send, flush, Kept, BatchOf
<1>1. TypeOK' BY DEF TypeOK
<1>2. RunsInv' BY DEF RunsInv, TypeOK, Handlers
<1>3. HeldInv' /\ NothingForgotten'
  BY DEF HeldInv, NothingForgotten, TypeOK
<1>4. Mild => CopiesInv'
  BY DEF CopiesInv, TypeOK, Handlers
<1>. QED BY <1>1, <1>2, <1>3, <1>4 DEF IInv, Mild

\* The fallback queue after a record that the process did not hold.
LEMMA FallbackQueue ==
    ASSUME IInv, NEW r \in Records, r \notin accepted, Fallback(r)
    PROVE  /\ queue' \in Seq(Records) /\ Distinct(queue')
           /\ Entries(queue') \subseteq Entries(queue) \cup {r}
           /\ r \in Entries(queue')
           /\ lost' \subseteq Records
           /\ lost \subseteq lost'
           /\ Entries(queue) \subseteq Entries(queue') \cup lost'
<1>1. queue \in Seq(Records) /\ Distinct(queue) /\ r \notin Entries(queue)
      /\ lost \subseteq Records
  BY DEF IInv, TypeOK, HeldInv, Kept
<1>2. CASE Len(queue) >= MaxQueue
  <2>1. queue # <<>> BY <1>1, <1>2, BillingConstants
  <2>2. /\ Tail(queue) \in Seq(Records) /\ Distinct(Tail(queue))
        /\ Head(queue) \in Records
        /\ Entries(queue) = Entries(Tail(queue)) \cup {Head(queue)}
    BY <1>1, <2>1, TailRange
  <2>3. queue' = Append(Tail(queue), r) /\ lost' = lost \cup {Head(queue)}
    BY <1>2 DEF Fallback
  <2>4. /\ queue' \in Seq(Records) /\ Distinct(queue')
        /\ Entries(queue') = Entries(Tail(queue)) \cup {r}
    <3>. DEFINE t == Tail(queue)
    <3>1. t \in Seq(Records) /\ Distinct(t) /\ r \notin Entries(t)
      BY <1>1, <2>2
    <3>. HIDE DEF t
    <3>2. /\ Append(t, r) \in Seq(Records) /\ Distinct(Append(t, r))
          /\ Entries(Append(t, r)) = Entries(t) \cup {r}
      BY <3>1, AppendRange
    <3>. QED BY <2>3, <3>2 DEF t
  <2>. QED BY <1>1, <2>2, <2>3, <2>4
<1>3. CASE ~(Len(queue) >= MaxQueue)
  <2>1. queue' = Append(queue, r) /\ lost' = lost
    BY <1>3 DEF Fallback
  <2>2. /\ queue' \in Seq(Records) /\ Distinct(queue')
        /\ Entries(queue') = Entries(queue) \cup {r}
    BY <1>1, <2>1, AppendRange
  <2>. QED BY <1>1, <2>1, <2>2
<1>. QED BY <1>2, <1>3

\* A fault is counted, and only clean ones keep the history clean.
LEMMA FaultStep ==
    ASSUME IInv, NEW k, Fault(k)
    PROVE  /\ faults' \in FaultHistory
           /\ Mild' => Mild
           /\ Mild' => k \in CleanFaults
<1>1. faults \in FaultHistory BY DEF IInv, TypeOK
<1>2. faults' = [count |-> faults.count + 1,
                clean |-> (faults.clean /\ k \in CleanFaults)]
  BY DEF Fault
<1>3. faults.count \in 0..MaxFaults BY <1>1 DEF FaultHistory
<1>4. faults.count + 1 \in 0..MaxFaults
  BY <1>3, BillingConstants DEF Fault
<1>5. (faults.clean /\ k \in CleanFaults) \in BOOLEAN
  OBVIOUS
<1>6. faults' \in FaultHistory
  BY <1>2, <1>4, <1>5 DEF FaultHistory
<1>7. faults'.clean = (faults.clean /\ k \in CleanFaults)
  BY <1>2
<1>. QED BY <1>6, <1>7, Zenon DEF Mild

LEMMA Unclean ==
    \A k \in {"sendAck", "txAck", "alert", "crash"} : k \notin CleanFaults
BY DEF CleanFaults

LEMMA FallbackStep ==
    ASSUME IInv, NEW r \in Records, SendFails(r) \/ SendAckLost(r)
    PROVE  IInv'
<1>0. /\ r \notin accepted /\ Fallback(r) /\ accepted' = accepted \cup {r}
      /\ faults' \in FaultHistory /\ (Mild' => Mild)
      /\ UNCHANGED <<tries, flush, stage, fetched, posted>>
      /\ \/ job' = job
         \/ ~Mild' /\ job' = [job EXCEPT ![r] = "waiting"]
  <2>1. ASSUME NEW k, Fault(k)
        PROVE  /\ faults' \in FaultHistory /\ (Mild' => Mild)
               /\ Mild' => k \in CleanFaults
    BY <2>1, FaultStep
  <2>2. CASE SendFails(r)
    BY <2>1, <2>2 DEF SendFails, Fallback, boss
  <2>3. CASE SendAckLost(r)
    <3>1. ~Mild' BY <2>1, <2>3 DEF SendAckLost, CleanFaults
    <3>. QED BY <2>1, <2>3, <3>1 DEF SendAckLost, Fallback
  <2>. QED BY <2>2, <2>3
<1>1. /\ queue' \in Seq(Records) /\ Distinct(queue')
      /\ Entries(queue') \subseteq Entries(queue) \cup {r}
      /\ r \in Entries(queue')
      /\ lost' \subseteq Records /\ lost \subseteq lost'
      /\ Entries(queue) \subseteq Entries(queue') \cup lost'
  BY <1>0, FallbackQueue
<1>2. TypeOK'
  BY <1>0, <1>1 DEF IInv, TypeOK, flush
<1>3. RunsInv'
  BY <1>0 DEF IInv, RunsInv, flush, BatchOf, TypeOK, Handlers
<1>4. HeldInv'
  BY <1>0, <1>1 DEF IInv, HeldInv, flush, Kept
<1>5. NothingForgotten'
  BY <1>0, <1>1 DEF IInv, NothingForgotten, flush, Kept, TypeOK
<1>6. Mild' => CopiesInv'
  <2>1. SUFFICES ASSUME Mild' PROVE CopiesInv'
    OBVIOUS
  <2>2. job' = job /\ CopiesInv BY <1>0, <2>1 DEF IInv
  <2>3. posted[r] = 0 /\ job[r] = "none"
    BY <1>0, <2>2 DEF CopiesInv
  <2>. QED BY <1>0, <1>1, <2>2, <2>3
    DEF CopiesInv, Kept, flush, BatchOf, Handlers
<1>. QED BY <1>2, <1>3, <1>4, <1>5, <1>6 DEF IInv

LEMMA FetchStep ==
    ASSUME IInv, Fetch
    PROVE  IInv'
<1>0. PICK batch \in SUBSET Waiting :
        /\ batch # {} /\ fetched' = batch
        /\ job' = [r \in Records |-> IF r \in batch THEN "active" ELSE job[r]]
  BY DEF Fetch
<1>1. /\ stage["worker"] = "idle" /\ fetched = {}
      /\ stage' = [stage EXCEPT !["worker"] = "reading"]
      /\ UNCHANGED <<accepted, tries, queue, flush, posted, lost, faults>>
      /\ batch \subseteq Records /\ \A r \in batch : job[r] = "waiting"
  BY DEF Fetch, Enter, IInv, RunsInv, Waiting
<1>2. TypeOK' BY <1>0, <1>1 DEF IInv, TypeOK, Handlers, flush
<1>3. RunsInv'
  BY <1>0, <1>1 DEF IInv, RunsInv, TypeOK, Handlers, BatchOf, flush
<1>4. HeldInv' /\ NothingForgotten'
  <2>1. HeldInv' BY <1>1 DEF IInv, HeldInv, Kept, flush
  <2>2. NothingForgotten'
    BY <1>0, <1>1 DEF IInv, TypeOK, NothingForgotten, Kept, flush
  <2>. QED BY <2>1, <2>2
<1>5. Mild => CopiesInv'
  <2>1. SUFFICES ASSUME Mild PROVE CopiesInv'
    OBVIOUS
  <2>2. CopiesInv BY <2>1 DEF IInv
  <2>3. ASSUME NEW r \in Records
        PROVE  /\ r \notin accepted => job'[r] = "none"
               /\ Kept(r)' => job'[r] = "none" /\ r \in accepted
               /\ job'[r] = "active" <=> r \in fetched'
               /\ job'[r] = "waiting" => posted[r] = 0
    BY <1>0, <1>1, <2>2 DEF CopiesInv, Kept, flush
  <2>4. \A h \in Handlers : stage'[h] \in {"reading", "writing"} =>
          \A r \in BatchOf(h)' : posted'[r] = 0
    BY <1>0, <1>1, <2>2 DEF CopiesInv, BatchOf, Handlers, IInv, TypeOK, flush
  <2>. QED BY <1>1, <2>2, <2>3, <2>4 DEF CopiesInv, Kept, flush
<1>6. Mild' = Mild BY DEF Mild, Fetch
<1>. QED BY <1>2, <1>3, <1>4, <1>5, <1>6 DEF IInv

LEMMA ExpireStep ==
    ASSUME IInv, NEW x \in Records, Expire(x)
    PROVE  IInv'
<1>0. /\ job[x] = "active" /\ x \notin fetched
      /\ UNCHANGED <<accepted, queue, flush, stage, fetched, posted, lost,
                     faults>>
      /\ \A r \in Records \ {x} : job'[r] = job[r]
      /\ job'[x] \in {"waiting", "failed"}
      /\ job' \in [Records -> {"none", "waiting", "active", "done", "failed"}]
  BY DEF Expire, FailJobs, IInv, TypeOK
<1>1. tries' \in [Records -> 0..RetryLimit]
  BY BillingConstants DEF Expire, FailJobs, IInv, TypeOK
<1>2. TypeOK' BY <1>0, <1>1 DEF IInv, TypeOK, flush
<1>3. RunsInv'
  BY <1>0 DEF IInv, RunsInv, Handlers, BatchOf, flush
<1>4. HeldInv' /\ NothingForgotten'
  <2>1. HeldInv' BY <1>0 DEF IInv, HeldInv, Kept, flush
  <2>2. NothingForgotten'
    BY <1>0 DEF IInv, TypeOK, NothingForgotten, Kept, flush
  <2>. QED BY <2>1, <2>2
<1>5. ~Mild
  BY <1>0 DEF IInv, CopiesInv
<1>. QED BY <1>0, <1>2, <1>3, <1>4, <1>5 DEF IInv, Mild

LEMMA StartFlushStep ==
    ASSUME IInv, NEW n \in 0..(MaxRetry - 1), StartFlush(n),
           timers' \subseteq timers
    PROVE  IInv'
<1>0. /\ stage["flush"] = "idle" /\ tasks = <<>> /\ flushing' = TRUE
      /\ tasks' = queue /\ queue' = <<>> /\ attempt' = n
      /\ stage' = [stage EXCEPT !["flush"] = "reading"]
      /\ UNCHANGED <<accepted, boss, fetched, posted, lost, faults>>
  BY DEF StartFlush, TakeAll, Enter, IInv, RunsInv, TypeOK
<1>1. TypeOK' BY <1>0 DEF IInv, TypeOK, boss, Handlers
<1>2. RunsInv'
  BY <1>0 DEF IInv, RunsInv, TypeOK, Handlers, BatchOf, boss
<1>3. HeldInv' /\ NothingForgotten'
  BY <1>0, RangeEmpty DEF IInv, HeldInv, NothingForgotten, Kept, boss
<1>4. Mild => CopiesInv'
  <2>1. SUFFICES ASSUME Mild PROVE CopiesInv'
    OBVIOUS
  <2>2. CopiesInv BY <2>1 DEF IInv
  <2>3. \A r \in Records : Kept(r)' => Kept(r)
    BY <1>0, RangeEmpty DEF Kept
  <2>4. \A h \in Handlers : stage'[h] \in {"reading", "writing"} =>
          \A r \in BatchOf(h)' : posted'[r] = 0
    <3>1. queue \in Seq(Records) BY DEF IInv, TypeOK
    <3>2. Entries(queue) \subseteq Records BY <3>1, RangeIn
    <3>. QED BY <1>0, <2>2, <3>2
      DEF CopiesInv, BatchOf, Handlers, IInv, TypeOK
  <2>. QED BY <1>0, <2>2, <2>3, <2>4, RangeEmpty DEF CopiesInv, boss
<1>. QED BY <1>0, <1>1, <1>2, <1>3, <1>4 DEF IInv, Mild

LEMMA RetryIdleStep ==
    ASSUME IInv, NEW n, RetryIdle(n)
    PROVE  IInv'
<1>. USE DEF IInv, RetryIdle, boss
<1>1. TypeOK' BY DEF TypeOK
<1>2. RunsInv' BY DEF RunsInv, Handlers, BatchOf
<1>3. HeldInv' /\ NothingForgotten' BY DEF HeldInv, NothingForgotten, Kept
<1>4. Mild => CopiesInv' BY DEF CopiesInv, Kept, Handlers, BatchOf
<1>. QED BY <1>1, <1>2, <1>3, <1>4 DEF IInv, Mild

LEMMA ReadStep ==
    ASSUME IInv, NEW h \in Handlers, Read(h)
    PROVE  IInv'
<1>0. /\ stage[h] = "reading" /\ stage' = [stage EXCEPT ![h] = "writing"]
      /\ UNCHANGED <<accepted, boss, queue, flush, fetched, posted, lost,
                     faults>>
  BY DEF Read, Enter
<1>1. TypeOK' BY <1>0 DEF IInv, TypeOK, boss, flush
<1>2. RunsInv'
  BY <1>0 DEF IInv, TypeOK, RunsInv, Handlers, BatchOf, boss, flush
<1>3. HeldInv' /\ NothingForgotten'
  BY <1>0 DEF IInv, HeldInv, NothingForgotten, Kept, boss, flush
<1>4. Mild => CopiesInv'
  BY <1>0 DEF IInv, TypeOK, CopiesInv, Kept, Handlers, BatchOf, boss, flush
<1>. QED BY <1>0, <1>1, <1>2, <1>3, <1>4 DEF IInv, Mild

LEMMA BatchRecords ==
    ASSUME IInv, NEW h \in Handlers PROVE BatchOf(h) \subseteq Records
<1>1. tasks \in Seq(Records) /\ fetched \subseteq Records
  BY DEF IInv, TypeOK
<1>2. Entries(tasks) \subseteq Records BY <1>1, RangeIn
<1>. QED BY <1>1, <1>2 DEF BatchOf

\* What a posting does to the counts, and that two runs never share a batch
\* as long as nothing follows a commit.
LEMMA PostCounts ==
    ASSUME IInv, NEW h \in Handlers, Post(h)
    PROVE  /\ posted' \in [Records -> Nat]
           /\ \A r \in Records : posted'[r] >= posted[r]
           /\ \A r \in BatchOf(h) : posted'[r] = posted[r] + 1
           /\ \A r \in Records \ BatchOf(h) : posted'[r] = posted[r]
<1>1. posted \in [Records -> Nat] BY DEF IInv, TypeOK
<1>2. BatchOf(h) \subseteq Records BY BatchRecords
<1>. QED BY <1>1, <1>2 DEF Post

LEMMA CommitStep ==
    ASSUME IInv, NEW h \in Handlers, Commit(h)
    PROVE  IInv'
<1>0. /\ stage[h] = "writing" /\ stage' = [stage EXCEPT ![h] = "alerting"]
      /\ UNCHANGED <<accepted, boss, queue, flush, fetched, lost, faults>>
      /\ Post(h)
  BY DEF Commit, Enter
<1>1. /\ posted' \in [Records -> Nat]
      /\ \A r \in Records : posted'[r] >= posted[r]
      /\ \A r \in BatchOf(h) : posted'[r] = posted[r] + 1
      /\ \A r \in Records \ BatchOf(h) : posted'[r] = posted[r]
  BY <1>0, PostCounts
<1>2. posted \in [Records -> Nat] /\ \A x \in Handlers : BatchOf(x) \subseteq Records
  BY BatchRecords DEF IInv, TypeOK
<1>3. /\ \A r \in Records : posted[r] > 0 => posted'[r] > 0
      /\ \A r \in BatchOf(h) : posted'[r] > 0
  BY <1>1, <1>2
<1>4. \A x \in Handlers : BatchOf(x)' = BatchOf(x)
  BY <1>0 DEF BatchOf, flush
<1>5. TypeOK' BY <1>0, <1>1 DEF IInv, TypeOK, boss, flush
<1>6. RunsInv'
  <2>1. \A x \in Handlers : stage'[x] = "alerting" =>
          \A r \in BatchOf(x)' : posted'[r] > 0
    BY <1>0, <1>2, <1>3, <1>4 DEF IInv, TypeOK, RunsInv
  <2>2. \A r \in Records : job'[r] = "done" => posted'[r] > 0
    BY <1>0, <1>3 DEF IInv, RunsInv, boss
  <2>. QED BY <1>0, <2>1, <2>2 DEF IInv, TypeOK, RunsInv, Handlers, flush
<1>7. HeldInv' BY <1>0 DEF IInv, HeldInv, Kept, boss, flush
<1>8. NothingForgotten'
  BY <1>0, <1>3 DEF IInv, TypeOK, NothingForgotten, Kept, boss, flush
<1>9. Mild => CopiesInv'
  <2>1. SUFFICES ASSUME Mild PROVE CopiesInv'
    OBVIOUS
  <2>2. CopiesInv BY <2>1 DEF IInv
  <2>3. \A r \in BatchOf(h) : posted[r] = 0
    BY <1>0, <2>2 DEF CopiesInv
  <2>4. ASSUME NEW r \in BatchOf(h), NEW x \in Handlers, x # h
        PROVE  r \notin BatchOf(x) /\ r \notin Entries(queue)
               /\ r \in accepted /\ job[r] # "waiting"
    <3>1. r \in Records BY <1>2
    <3>2. CASE h = "worker"
      BY <2>2, <2>4, <3>1, <3>2 DEF CopiesInv, BatchOf, Handlers, Kept
    <3>3. CASE h = "flush"
      BY <2>2, <2>4, <3>1, <3>3
        DEF CopiesInv, BatchOf, Handlers, Kept, IInv, HeldInv
    <3>. QED BY <3>2, <3>3 DEF Handlers
  <2>5. PICK x \in Handlers : x # h BY DEF Handlers
  <2>6. \A r \in Records \ accepted : job'[r] = "none" /\ posted'[r] = 0
    BY <1>0, <1>1, <2>2, <2>4, <2>5 DEF CopiesInv, boss
  <2>7. \A r \in Records :
          job'[r] = "waiting" \/ r \in Entries(queue)' => posted'[r] = 0
    BY <1>0, <1>1, <2>2, <2>4, <2>5 DEF CopiesInv, boss
  <2>8. \A y \in Handlers : stage'[y] \in {"reading", "writing"} =>
          \A r \in BatchOf(y)' : posted'[r] = 0
    <3>1. ASSUME NEW y \in Handlers, stage'[y] \in {"reading", "writing"},
                 NEW r \in BatchOf(y)
          PROVE  posted'[r] = 0
      <4>1. y # h /\ stage[y] \in {"reading", "writing"}
        BY <1>0, <3>1 DEF IInv, TypeOK
      <4>2. r \notin BatchOf(h) BY <2>4, <4>1
      <4>. QED BY <1>1, <1>2, <2>2, <4>1, <4>2 DEF CopiesInv
    <3>. QED BY <1>4, <3>1
  <2>9. \A r \in Records : posted'[r] <= 1
    BY <1>1, <2>2, <2>3 DEF CopiesInv
  <2>. QED BY <1>0, <2>2, <2>6, <2>7, <2>8, <2>9
    DEF CopiesInv, Kept, boss, flush
<1>. QED BY <1>0, <1>5, <1>6, <1>7, <1>8, <1>9 DEF IInv, Mild

\* A failed run of either caller, whatever it had posted; under mild faults
\* it had posted nothing.
LEMMA FailedStep ==
    ASSUME IInv, NEW h \in Handlers, Failed(h), stage[h] # "idle",
           accepted' = accepted, lost' = lost, faults' \in FaultHistory,
           posted' \in [Records -> Nat],
           \A r \in Records : posted'[r] >= posted[r],
           Mild' => Mild /\ posted' = posted /\ stage[h] \in {"reading", "writing"}
    PROVE  IInv'
<1>0. /\ stage' = [stage EXCEPT ![h] = "idle"]
      /\ posted \in [Records -> Nat]
      /\ \A r \in Records : posted[r] > 0 => posted'[r] > 0
  <2>1. posted \in [Records -> Nat] BY DEF IInv, TypeOK
  <2>2. \A r \in Records : posted[r] > 0 => posted'[r] > 0 BY <2>1
  <2>. QED BY <2>1, <2>2 DEF Failed, Enter
<1>1. CASE h = "worker"
  <2>1. /\ fetched' = {} /\ UNCHANGED <<queue, flush>>
        /\ \A r \in Records \ fetched : job'[r] = job[r]
        /\ \A r \in fetched : job'[r] \in {"waiting", "failed"}
        /\ job' \in [Records -> {"none", "waiting", "active", "done", "failed"}]
    BY <1>1 DEF Failed, FailJobs, IInv, TypeOK
  <2>2. tries' \in [Records -> 0..RetryLimit]
    <3>1. tries \in [Records -> 0..RetryLimit] BY DEF IInv, TypeOK
    <3>2. \A r \in Records :
            tries[r] < RetryLimit => tries[r] + 1 \in 0..RetryLimit
      BY <3>1, BillingConstants
    <3>. QED BY <1>1, <3>1, <3>2 DEF Failed, FailJobs
  <2>3. TypeOK' BY <1>0, <2>1, <2>2 DEF IInv, TypeOK, flush
  <2>4. RunsInv'
    <3>1. \A x \in Handlers : stage'[x] = "alerting" =>
            \A r \in BatchOf(x)' : posted'[r] > 0
      <4>1. ASSUME stage'["flush"] = "alerting", NEW r \in BatchOf("flush")'
            PROVE  posted'[r] > 0
        <5>1. r \in BatchOf("flush") /\ stage["flush"] = "alerting"
          BY <1>0, <1>1, <2>1, <4>1 DEF BatchOf, flush, IInv, TypeOK
        <5>2. r \in Records /\ posted[r] > 0
          BY <5>1, BatchRecords DEF IInv, RunsInv, Handlers
        <5>. QED BY <1>0, <5>2
      <4>2. stage'["worker"] # "alerting"
        BY <1>0, <1>1 DEF IInv, TypeOK
      <4>. QED BY <4>1, <4>2 DEF Handlers
    <3>2. \A r \in Records : job'[r] = "done" => posted'[r] > 0
      BY <1>0, <2>1 DEF IInv, RunsInv
    <3>. QED BY <1>0, <1>1, <2>1, <3>1, <3>2
      DEF IInv, TypeOK, RunsInv, flush
  <2>5. HeldInv' BY <2>1 DEF IInv, HeldInv, Kept, flush
  <2>6. NothingForgotten'
    BY <1>0, <2>1 DEF IInv, TypeOK, NothingForgotten, Kept, flush
  <2>7. Mild' => CopiesInv'
    <3>1. SUFFICES ASSUME Mild' PROVE CopiesInv'
      OBVIOUS
    <3>2. /\ CopiesInv /\ posted' = posted
          /\ stage["worker"] \in {"reading", "writing"}
      BY <1>1, <3>1 DEF IInv
    <3>3. \A r \in fetched : job[r] = "active" /\ posted[r] = 0
      BY <3>2 DEF CopiesInv, BatchOf, Handlers, IInv, TypeOK
    <3>4. ASSUME NEW r \in Records
          PROVE  /\ r \notin accepted => job'[r] = "none"
                 /\ Kept(r) => job'[r] = "none" /\ r \in accepted
                 /\ job'[r] # "active"
                 /\ job'[r] = "waiting" => posted[r] = 0
      BY <2>1, <3>2, <3>3 DEF CopiesInv
    <3>5. \A x \in Handlers : stage'[x] \in {"reading", "writing"} =>
            \A r \in BatchOf(x)' : posted'[r] = 0
      BY <1>0, <1>1, <2>1, <3>2
        DEF CopiesInv, BatchOf, Handlers, IInv, TypeOK, flush
    <3>. QED BY <2>1, <3>2, <3>4, <3>5 DEF CopiesInv, Kept, flush
  <2>. QED BY <2>3, <2>4, <2>5, <2>6, <2>7 DEF IInv
<1>2. CASE h = "flush"
  <2>1. /\ UNCHANGED <<boss, fetched, attempt>> /\ tasks' = <<>>
        /\ flushing' = FALSE
        /\ queue' = tasks \o queue \/ queue' = queue \o tasks
    BY <1>2 DEF Failed, FlushFails
  <2>2. timers' \subseteq 1..(MaxRetry - 1)
    <3>1. timers \subseteq 1..(MaxRetry - 1) /\ attempt \in 0..(MaxRetry - 1)
      BY DEF IInv, TypeOK
    <3>2. attempt < MaxRetry - 1 => attempt + 1 \in 1..(MaxRetry - 1)
      BY <3>1, BillingConstants
    <3>3. \/ timers' = timers
          \/ attempt < MaxRetry - 1 /\ timers' = timers \cup {attempt + 1}
      BY <1>2 DEF Failed, FlushFails
    <3>. QED BY <3>1, <3>2, <3>3
  <2>3. /\ queue' \in Seq(Records) /\ Distinct(queue')
        /\ Entries(queue') = Entries(queue) \cup Entries(tasks)
    <3>1. /\ queue \in Seq(Records) /\ tasks \in Seq(Records)
          /\ Distinct(queue) /\ Distinct(tasks)
          /\ Entries(queue) \cap Entries(tasks) = {}
          /\ Entries(tasks) \cap Entries(queue) = {}
      BY DEF IInv, TypeOK, HeldInv
    <3>2. CASE queue' = tasks \o queue
      <4>1. /\ tasks \o queue \in Seq(Records) /\ Distinct(tasks \o queue)
            /\ Entries(tasks \o queue) = Entries(tasks) \cup Entries(queue)
        BY <3>1, ConcatRange
      <4>. QED BY <3>2, <4>1
    <3>3. CASE queue' = queue \o tasks
      <4>1. /\ queue \o tasks \in Seq(Records) /\ Distinct(queue \o tasks)
            /\ Entries(queue \o tasks) = Entries(queue) \cup Entries(tasks)
        BY <3>1, ConcatRange
      <4>. QED BY <3>3, <4>1
    <3>. QED BY <2>1, <3>2, <3>3
  <2>4. \A r : Kept(r)' <=> Kept(r)
    BY <2>1, <2>3, RangeEmpty DEF Kept
  <2>5. TypeOK'
    <3>1. <<>> \in Seq(Records) BY EmptySeq
    <3>. QED BY <1>0, <2>1, <2>2, <2>3, <3>1 DEF IInv, TypeOK, boss
  <2>6. RunsInv'
    <3>1. \A x \in Handlers : stage'[x] = "alerting" =>
            \A r \in BatchOf(x)' : posted'[r] > 0
      <4>1. ASSUME stage'["worker"] = "alerting", NEW r \in BatchOf("worker")'
            PROVE  posted'[r] > 0
        <5>1. r \in BatchOf("worker") /\ stage["worker"] = "alerting"
          BY <1>0, <1>2, <2>1, <4>1 DEF BatchOf, IInv, TypeOK
        <5>2. r \in Records /\ posted[r] > 0
          BY <5>1, BatchRecords DEF IInv, RunsInv, Handlers
        <5>. QED BY <1>0, <5>2
      <4>2. stage'["flush"] # "alerting"
        BY <1>0, <1>2 DEF IInv, TypeOK
      <4>. QED BY <4>1, <4>2 DEF Handlers
    <3>2. \A r \in Records : job'[r] = "done" => posted'[r] > 0
      BY <1>0, <2>1 DEF IInv, RunsInv, boss
    <3>. QED BY <1>0, <1>2, <2>1, <3>1, <3>2
      DEF IInv, TypeOK, RunsInv, Handlers
  <2>7. HeldInv' /\ NothingForgotten'
    <3>1. HeldInv'
      BY <2>1, <2>3, <2>4, RangeEmpty DEF IInv, HeldInv
    <3>2. NothingForgotten'
      BY <1>0, <2>1, <2>4 DEF IInv, TypeOK, NothingForgotten, boss
    <3>. QED BY <3>1, <3>2
  <2>8. Mild' => CopiesInv'
    <3>1. SUFFICES ASSUME Mild' PROVE CopiesInv'
      OBVIOUS
    <3>2. /\ CopiesInv /\ posted' = posted
          /\ stage["flush"] \in {"reading", "writing"}
      BY <1>2, <3>1 DEF IInv
    <3>3. \A r \in Entries(tasks) : posted[r] = 0
      BY <3>2 DEF CopiesInv, BatchOf, Handlers
    <3>4. \A x \in Handlers : stage'[x] \in {"reading", "writing"} =>
            \A r \in BatchOf(x)' : posted'[r] = 0
      BY <1>0, <1>2, <2>1, <3>2
        DEF CopiesInv, BatchOf, Handlers, IInv, TypeOK
    <3>. QED BY <2>1, <2>3, <2>4, <3>2, <3>3, <3>4 DEF CopiesInv, boss
  <2>. QED BY <2>5, <2>6, <2>7, <2>8 DEF IInv
<1>. QED BY <1>1, <1>2 DEF Handlers

LEMMA FailuresStep ==
    ASSUME IInv, NEW h \in Handlers,
           ReadFails(h) \/ TxFails(h) \/ TxAckLost(h) \/ AlertFails(h)
    PROVE  IInv'
<1>0. posted \in [Records -> Nat] /\ \A r \in Records : posted[r] >= posted[r]
  BY DEF IInv, TypeOK
<1>1. CASE ReadFails(h)
  <2>1. Fault("read") BY <1>1 DEF ReadFails
  <2>2. faults' \in FaultHistory /\ (Mild' => Mild) BY <2>1, FaultStep
  <2>. QED BY <1>0, <1>1, <2>2, FailedStep DEF ReadFails
<1>2. CASE TxFails(h)
  <2>1. Fault("tx") BY <1>2 DEF TxFails
  <2>2. faults' \in FaultHistory /\ (Mild' => Mild) BY <2>1, FaultStep
  <2>. QED BY <1>0, <1>2, <2>2, FailedStep DEF TxFails
<1>3. CASE TxAckLost(h)
  <2>1. Fault("txAck") BY <1>3 DEF TxAckLost
  <2>2. faults' \in FaultHistory /\ ~Mild'
    BY <2>1, FaultStep, Unclean
  <2>3. /\ posted' \in [Records -> Nat]
        /\ \A r \in Records : posted'[r] >= posted[r]
    BY <1>3, PostCounts DEF TxAckLost
  <2>. QED BY <1>3, <2>2, <2>3, FailedStep DEF TxAckLost
<1>4. CASE AlertFails(h)
  <2>1. Fault("alert") BY <1>4 DEF AlertFails
  <2>2. faults' \in FaultHistory /\ ~Mild'
    BY <2>1, FaultStep, Unclean
  <2>. QED BY <1>0, <1>4, <2>2, FailedStep DEF AlertFails
<1>. QED BY <1>1, <1>2, <1>3, <1>4

LEMMA FinishStep ==
    ASSUME IInv, NEW h \in Handlers, Finish(h)
    PROVE  IInv'
<1>0. /\ stage[h] = "alerting" /\ stage' = [stage EXCEPT ![h] = "idle"]
      /\ UNCHANGED <<accepted, tries, queue, posted, lost, faults>>
      /\ \A r \in BatchOf(h) : posted[r] > 0
      /\ BatchOf(h) \subseteq Records
  BY BatchRecords DEF Finish, Enter, IInv, RunsInv
<1>1. CASE h = "worker"
  <2>1. /\ fetched' = {} /\ UNCHANGED flush
        /\ \A r \in Records \ fetched : job'[r] = job[r]
        /\ \A r \in fetched : job'[r] = "done" /\ posted[r] > 0
        /\ job' \in [Records -> {"none", "waiting", "active", "done", "failed"}]
    BY <1>0, <1>1 DEF Finish, IInv, TypeOK, BatchOf
  <2>2. TypeOK' BY <1>0, <2>1 DEF IInv, TypeOK, flush
  <2>3. RunsInv'
    BY <1>0, <1>1, <2>1 DEF IInv, TypeOK, RunsInv, Handlers, BatchOf, flush
  <2>4. HeldInv' BY <1>0, <2>1 DEF IInv, HeldInv, Kept, flush
  <2>5. NothingForgotten'
    BY <1>0, <2>1 DEF IInv, TypeOK, NothingForgotten, Kept, flush
  <2>6. Mild => CopiesInv'
    <3>1. SUFFICES ASSUME Mild PROVE CopiesInv'
      OBVIOUS
    <3>2. CopiesInv BY <3>1 DEF IInv
    <3>3. \A r \in fetched : job[r] = "active" BY <3>2 DEF CopiesInv, IInv, TypeOK
    <3>4. ASSUME NEW r \in Records
          PROVE  /\ r \notin accepted => job'[r] = "none"
                 /\ Kept(r) => job'[r] = "none" /\ r \in accepted
                 /\ job'[r] # "active"
                 /\ job'[r] = "waiting" => posted[r] = 0
      BY <2>1, <3>2, <3>3 DEF CopiesInv
    <3>5. \A x \in Handlers : stage'[x] \in {"reading", "writing"} =>
            \A r \in BatchOf(x)' : posted'[r] = 0
      BY <1>0, <1>1, <2>1, <3>2
        DEF CopiesInv, BatchOf, Handlers, IInv, TypeOK, flush
    <3>. QED BY <1>0, <2>1, <3>2, <3>4, <3>5 DEF CopiesInv, Kept, flush
  <2>7. Mild' = Mild BY <1>0 DEF Mild
  <2>. QED BY <2>2, <2>3, <2>4, <2>5, <2>6, <2>7 DEF IInv
<1>2. CASE h = "flush"
  <2>1. /\ flushing' = FALSE /\ tasks' = <<>>
        /\ UNCHANGED <<job, fetched, attempt, timers>>
        /\ \A r \in Entries(tasks) : posted[r] > 0
    BY <1>0, <1>2 DEF Finish, BatchOf
  <2>2. TypeOK'
    <3>1. <<>> \in Seq(Records) BY EmptySeq
    <3>. QED BY <1>0, <2>1, <3>1 DEF IInv, TypeOK
  <2>3. RunsInv'
    BY <1>0, <1>2, <2>1 DEF IInv, TypeOK, RunsInv, Handlers, BatchOf
  <2>4. HeldInv' BY <1>0, <2>1, RangeEmpty DEF IInv, HeldInv, Kept
  <2>5. NothingForgotten'
    BY <1>0, <2>1 DEF IInv, TypeOK, NothingForgotten, Kept
  <2>6. Mild => CopiesInv'
    <3>1. SUFFICES ASSUME Mild PROVE CopiesInv'
      OBVIOUS
    <3>2. CopiesInv BY <3>1 DEF IInv
    <3>3. \A r : Kept(r)' => Kept(r) BY <1>0, <2>1, RangeEmpty DEF Kept
    <3>4. \A x \in Handlers : stage'[x] \in {"reading", "writing"} =>
            \A r \in BatchOf(x)' : posted'[r] = 0
      BY <1>0, <1>2, <2>1, <3>2
        DEF CopiesInv, BatchOf, Handlers, IInv, TypeOK
    <3>. QED BY <1>0, <2>1, <3>2, <3>3, <3>4 DEF CopiesInv
  <2>. QED BY <1>0, <2>2, <2>3, <2>4, <2>5, <2>6 DEF IInv, Mild
<1>. QED BY <1>1, <1>2 DEF Handlers

LEMMA CrashStep ==
    ASSUME IInv, Crash
    PROVE  IInv'
<1>0. /\ faults' \in FaultHistory /\ ~Mild'
  <2>1. Fault("crash") BY DEF Crash
  <2>. QED BY <2>1, FaultStep, Unclean
<1>1. /\ lost' = lost \cup Entries(queue) \cup Entries(tasks)
      /\ queue' = <<>> /\ tasks' = <<>> /\ flushing' = FALSE /\ attempt' = 0
      /\ timers' = {} /\ stage' = [h \in Handlers |-> "idle"] /\ fetched' = {}
      /\ UNCHANGED <<accepted, boss, posted>>
  BY DEF Crash
<1>2. Entries(queue) \subseteq Records /\ Entries(tasks) \subseteq Records
  BY RangeIn DEF IInv, TypeOK
<1>3. TypeOK'
  <2>1. <<>> \in Seq(Records) /\ 0 \in 0..(MaxRetry - 1)
    BY EmptySeq, BillingConstants
  <2>. QED BY <1>0, <1>1, <1>2, <2>1 DEF IInv, TypeOK, boss
<1>4. RunsInv' BY <1>1 DEF IInv, RunsInv, Handlers, boss
<1>5. HeldInv' BY <1>1, RangeEmpty DEF HeldInv, Kept
<1>6. NothingForgotten'
  BY <1>1 DEF IInv, TypeOK, NothingForgotten, Kept, boss
<1>. QED BY <1>0, <1>3, <1>4, <1>5, <1>6 DEF IInv

LEMMA StutterStep ==
    ASSUME IInv, UNCHANGED vars
    PROVE  IInv'
<1>. USE DEF IInv, vars, boss, flush
<1>1. TypeOK' BY DEF TypeOK
<1>2. RunsInv' BY DEF RunsInv, Handlers, BatchOf
<1>3. HeldInv' /\ NothingForgotten' BY DEF HeldInv, NothingForgotten, Kept
<1>4. Mild => CopiesInv' BY DEF CopiesInv, Kept, Handlers, BatchOf
<1>. QED BY <1>1, <1>2, <1>3, <1>4 DEF IInv, Mild

LEMMA Inductive == IInv /\ [Next]_vars => IInv'
<1>. SUFFICES ASSUME IInv, [Next]_vars PROVE IInv'
  OBVIOUS
<1>1. CASE \E r \in Records : Accept(r)
  BY <1>1, SendStep, FallbackStep DEF Accept
<1>2. CASE \E r \in Records : Expire(r)
  BY <1>2, ExpireStep
<1>3. CASE Fetch
  BY <1>3, FetchStep
<1>4. CASE IntervalFlush
  <2>1. 0 \in 0..(MaxRetry - 1) BY BillingConstants
  <2>. QED BY <1>4, <2>1, StartFlushStep DEF IntervalFlush
<1>5. CASE Crash
  BY <1>5, CrashStep
<1>6. CASE \E n \in timers : RetryFlush(n)
  <2>1. PICK n \in timers : RetryFlush(n) BY <1>6
  <2>2. n \in 0..(MaxRetry - 1) BY BillingConstants DEF IInv, TypeOK
  <2>. QED BY <2>1, <2>2, StartFlushStep DEF RetryFlush
<1>7. CASE \E n \in timers : RetryIdle(n)
  BY <1>7, RetryIdleStep
<1>8. CASE \E h \in Handlers : Run(h)
  <2>1. PICK h \in Handlers : Run(h) BY <1>8
  <2>. QED BY <2>1, ReadStep, CommitStep, FinishStep, FailuresStep DEF Run
<1>9. CASE UNCHANGED vars
  BY <1>9, StutterStep
<1>. QED BY <1>1, <1>2, <1>3, <1>4, <1>5, <1>6, <1>7, <1>8, <1>9 DEF Next

LEMMA Invariant == Spec => []IInv
BY InitInv, Inductive, PTL DEF Spec

-----------------------------------------------------------------------------
\* Every variable keeps its type: in particular the retry counters of flush
\* and pg-boss stay within their limits.
THEOREM TypeCorrect == Spec => []TypeOK
<1>1. IInv => TypeOK BY DEF IInv
<1>. QED BY <1>1, Invariant, PTL

\* No accepted record is forgotten by the process or by pg-boss, whatever
\* fails, and a full queue and a crash are the only ways to lose one.
THEOREM RecordsKept == Spec => []NothingForgotten
<1>1. IInv => NothingForgotten BY DEF IInv
<1>. QED BY <1>1, Invariant, PTL

\* The flush and the fallback queue never hold two copies of a record; and if
\* sends, reads and transactions fail cleanly, and nothing else does, no record
\* is posted twice.
THEOREM NoDoubleCounting == Spec => []CountedOnce
<1>1. IInv => HeldOnce BY DEF IInv, HeldInv, HeldOnce, Distinct
<1>2. IInv => PostedOnce BY DEF IInv, CopiesInv, PostedOnce, Mild
<1>3. IInv => CountedOnce BY <1>1, <1>2 DEF CountedOnce
<1>. QED BY <1>3, Invariant, PTL

-----------------------------------------------------------------------------
(* The descent of the retries.                                             *)

LEMMA SameOrFalls ==
    ASSUME NEW S, NEW f \in [S -> Nat], NEW g \in [S -> Nat],
           \A x \in S : g[x] <= f[x]
    PROVE  g = f \/ Falls(g, f, S)
<1>1. CASE \E x \in S : g[x] < f[x]
  BY <1>1 DEF Falls
<1>2. CASE \A x \in S : g[x] = f[x]
  BY <1>2
<1>3. ASSUME NEW x \in S, g[x] # f[x] PROVE g[x] < f[x]
  <2>1. g[x] \in Nat /\ f[x] \in Nat /\ g[x] <= f[x] OBVIOUS
  <2>. QED BY <1>3, <2>1
<1>. QED BY <1>1, <1>2, <1>3

LEMMA JobStepsOf ==
    /\ JobSteps = [r \in Records |->
                     2 * (RetryLimit - tries[r]) + JobPlaces[job[r]]]
    /\ JobSteps' = [r \in Records |->
                     2 * (RetryLimit - tries'[r]) + JobPlaces[job'[r]]]
BY DEF JobSteps

LEMMA JobStepsTyped ==
    /\ TypeOK => JobSteps \in [Records -> Nat]
    /\ TypeOK' => JobSteps' \in [Records -> Nat]
<1>1. ASSUME NEW n \in 0..RetryLimit,
             NEW j \in {"none", "waiting", "active", "done", "failed"}
      PROVE  2 * (RetryLimit - n) + JobPlaces[j] \in Nat
  <2>1. JobPlaces[j] \in Nat BY DEF JobPlaces
  <2>2. RetryLimit - n \in Nat BY BillingConstants
  <2>. QED BY <2>1, <2>2
<1>2. ASSUME TypeOK PROVE JobSteps \in [Records -> Nat]
  BY <1>1, <1>2, JobStepsOf DEF TypeOK
<1>3. ASSUME TypeOK' PROVE JobSteps' \in [Records -> Nat]
  BY <1>1, <1>3, JobStepsOf DEF TypeOK
<1>. QED BY <1>2, <1>3

\* pg-boss: a batch that is fetched, and a job that expires, come nearer to
\* the end of their retries.
LEMMA FetchFalls ==
    ASSUME TypeOK, TypeOK', Fetch
    PROVE  Falls(JobSteps', JobSteps, Records)
<1>1. PICK batch \in SUBSET Waiting :
        /\ batch # {}
        /\ job' = [r \in Records |-> IF r \in batch THEN "active" ELSE job[r]]
        /\ tries' = tries
  BY DEF Fetch, boss
<1>2. ASSUME NEW r \in Records
      PROVE  /\ JobSteps[r] \in Nat /\ JobSteps'[r] \in Nat
             /\ JobSteps[r] = 2 * (RetryLimit - tries[r]) + JobPlaces[job[r]]
             /\ JobSteps'[r] = 2 * (RetryLimit - tries[r]) + JobPlaces[job'[r]]
             /\ RetryLimit - tries[r] \in Nat
  <2>1. /\ JobSteps[r] = 2 * (RetryLimit - tries[r]) + JobPlaces[job[r]]
        /\ JobSteps'[r] = 2 * (RetryLimit - tries'[r]) + JobPlaces[job'[r]]
    BY JobStepsOf
  <2>2. JobSteps[r] \in Nat /\ JobSteps'[r] \in Nat BY JobStepsTyped
  <2>3. RetryLimit - tries[r] \in Nat BY BillingConstants DEF TypeOK
  <2>. QED BY <1>1, <2>1, <2>2, <2>3
<1>3. ASSUME NEW r \in Records
      PROVE  /\ JobSteps'[r] <= JobSteps[r]
             /\ r \in batch => JobSteps'[r] < JobSteps[r]
  <2>1. CASE r \in batch
    <3>1. job[r] = "waiting" /\ job'[r] = "active"
      BY <1>1, <2>1 DEF Waiting
    <3>2. JobPlaces[job[r]] = 2 /\ JobPlaces[job'[r]] = 1
      BY <3>1 DEF JobPlaces
    <3>. QED BY <1>2, <3>2
  <2>2. CASE r \notin batch
    BY <1>1, <1>2, <2>2
  <2>. QED BY <2>1, <2>2
<1>4. PICK r \in Records : r \in batch BY <1>1 DEF Waiting
<1>. QED BY <1>3, <1>4 DEF Falls

LEMMA ExpireFalls ==
    ASSUME TypeOK, TypeOK', NEW q \in Records, Expire(q)
    PROVE  Falls(JobSteps', JobSteps, Records)
<1>1. /\ job[q] = "active"
      /\ job' = [r \in Records |-> IF r # q THEN job[r]
                   ELSE IF tries[r] < RetryLimit THEN "waiting" ELSE "failed"]
      /\ tries' = [r \in Records |-> IF r = q /\ tries[r] < RetryLimit
                                     THEN tries[r] + 1 ELSE tries[r]]
  BY DEF Expire, FailJobs
<1>2. ASSUME NEW r \in Records
      PROVE  /\ JobSteps[r] = 2 * (RetryLimit - tries[r]) + JobPlaces[job[r]]
             /\ JobSteps'[r]
                  = 2 * (RetryLimit - tries'[r]) + JobPlaces[job'[r]]
             /\ tries[r] \in Nat /\ RetryLimit \in Nat /\ JobSteps[r] \in Nat
  <2>1. /\ JobSteps[r] = 2 * (RetryLimit - tries[r]) + JobPlaces[job[r]]
        /\ JobSteps'[r] = 2 * (RetryLimit - tries'[r]) + JobPlaces[job'[r]]
    BY JobStepsOf
  <2>2. JobSteps[r] \in Nat BY JobStepsTyped
  <2>3. tries[r] \in Nat /\ RetryLimit \in Nat BY BillingConstants DEF TypeOK
  <2>. QED BY <2>1, <2>2, <2>3
<1>3. JobSteps'[q] < JobSteps[q]
  <2>1. JobPlaces[job[q]] = 1 BY <1>1 DEF JobPlaces
  <2>2. CASE tries[q] < RetryLimit
    <3>1. JobPlaces[job'[q]] = 2 /\ tries'[q] = tries[q] + 1
      BY <1>1, <2>2 DEF JobPlaces
    <3>. QED BY <1>2, <2>1, <3>1
  <2>3. CASE ~(tries[q] < RetryLimit)
    <3>1. JobPlaces[job'[q]] = 0 /\ tries'[q] = tries[q]
      BY <1>1, <2>3 DEF JobPlaces
    <3>. QED BY <1>2, <2>1, <3>1
  <2>. QED BY <2>2, <2>3
<1>4. ASSUME NEW r \in Records, r # q PROVE JobSteps'[r] = JobSteps[r]
  BY <1>1, <1>2, <1>4
<1>5. ASSUME NEW r \in Records PROVE JobSteps'[r] <= JobSteps[r]
  BY <1>2, <1>3, <1>4, JobStepsTyped
<1>. QED BY <1>3, <1>5 DEF Falls

\* A run of one handler goes on, the other's stays.
LEMMA RunFalls ==
    ASSUME TypeOK, NEW h \in Handlers, NEW place \in {"writing", "alerting", "idle"},
           Enter(h, place), RunPlaces[place] < RunPlaces[stage[h]]
    PROVE  Falls(RunSteps', RunSteps, Handlers)
<1>1. ASSUME NEW g \in Handlers
      PROVE  /\ RunSteps[g] = RunPlaces[stage[g]] /\ RunSteps[g] \in Nat
             /\ RunSteps'[g] = RunPlaces[stage'[g]]
  BY DEF RunSteps, RunPlaces, TypeOK
<1>2. RunSteps'[h] < RunSteps[h] BY <1>1 DEF Enter, TypeOK
<1>3. ASSUME NEW g \in Handlers, g # h PROVE RunSteps'[g] = RunSteps[g]
  BY <1>1, <1>3 DEF Enter, TypeOK
<1>4. ASSUME NEW g \in Handlers PROVE RunSteps'[g] <= RunSteps[g]
  <2>1. CASE g = h BY <1>1, <1>2, <2>1 DEF RunPlaces, Enter, TypeOK
  <2>2. CASE g # h BY <1>1, <1>3, <2>2
  <2>. QED BY <2>1, <2>2
<1>. QED BY <1>2, <1>4 DEF Falls

LEMMA RunDescends ==
    ASSUME TypeOK, TypeOK', NEW h \in Handlers,
           Read(h) \/ Commit(h) \/ Finish(h)
    PROVE  \/ Falls(JobSteps', JobSteps, Records)
           \/ /\ JobSteps' = JobSteps /\ UNCHANGED <<queue, timers>>
              /\ Falls(RunSteps', RunSteps, Handlers)
<1>1. CASE Read(h)
  <2>1. Falls(RunSteps', RunSteps, Handlers)
    <3>1. stage[h] = "reading" /\ Enter(h, "writing") BY <1>1 DEF Read
    <3>2. RunPlaces["writing"] < RunPlaces[stage[h]] BY <3>1 DEF RunPlaces
    <3>. QED BY <3>1, <3>2, RunFalls
  <2>2. JobSteps' = JobSteps BY <1>1, JobStepsOf DEF Read, boss
  <2>. QED BY <1>1, <2>1, <2>2 DEF Read, flush
<1>2. CASE Commit(h)
  <2>1. Falls(RunSteps', RunSteps, Handlers)
    <3>1. stage[h] = "writing" /\ Enter(h, "alerting") BY <1>2 DEF Commit
    <3>2. RunPlaces["alerting"] < RunPlaces[stage[h]] BY <3>1 DEF RunPlaces
    <3>. QED BY <3>1, <3>2, RunFalls
  <2>2. JobSteps' = JobSteps BY <1>2, JobStepsOf DEF Commit, boss
  <2>. QED BY <1>2, <2>1, <2>2 DEF Commit, flush
<1>3. CASE Finish(h)
  <2>1. Falls(RunSteps', RunSteps, Handlers)
    <3>1. stage[h] = "alerting" /\ Enter(h, "idle") BY <1>3 DEF Finish
    <3>2. RunPlaces["idle"] < RunPlaces[stage[h]] BY <3>1 DEF RunPlaces
    <3>. QED BY <3>1, <3>2, RunFalls
  <2>2. tries' = tries /\ UNCHANGED <<queue, timers>>
        /\ \A r \in Records : job'[r] = job[r] \/ job'[r] = "done"
    BY <1>3 DEF Finish, TypeOK, boss, flush
  <2>3. ASSUME NEW r \in Records PROVE JobSteps'[r] <= JobSteps[r]
    <3>1. /\ JobSteps[r] = 2 * (RetryLimit - tries[r]) + JobPlaces[job[r]]
          /\ JobSteps'[r] = 2 * (RetryLimit - tries[r]) + JobPlaces[job'[r]]
          /\ RetryLimit - tries[r] \in Nat
      BY <2>2, BillingConstants, JobStepsOf DEF TypeOK
    <3>2. JobPlaces[job'[r]] <= JobPlaces[job[r]] /\ JobPlaces[job[r]] \in Nat
          /\ JobPlaces[job'[r]] \in Nat
      BY <2>2 DEF JobPlaces, TypeOK
    <3>. QED BY <3>1, <3>2
  <2>4. JobSteps' = JobSteps \/ Falls(JobSteps', JobSteps, Records)
    BY <2>3, JobStepsTyped, SameOrFalls
  <2>. QED BY <2>1, <2>2, <2>4
<1>. QED BY <1>1, <1>2, <1>3

\* A flush starts only with something in the queue, and empties it.
LEMMA FlushDescends ==
    ASSUME TypeOK, IntervalFlush \/ (\E n \in timers : RetryFlush(n))
    PROVE  JobSteps' = JobSteps /\ queue # <<>> /\ queue' = <<>>
<1>1. PICK n : StartFlush(n) BY DEF IntervalFlush, RetryFlush
<1>. QED BY <1>1, JobStepsOf DEF StartFlush, TakeAll, boss

\* No circle of flushes: between two new records or faults, the interval, the
\* retry timers, pg-boss and both runs of processBillingJobs can only take
\* finitely many steps, whatever the limits and the number of records.
THEOREM RetriesEnd == Spec => RetriesRunDown
<1> DEFINE Descends ==
        \/ accepted \subseteq accepted' /\ accepted' # accepted
        \/ faults'.count > faults.count
        \/ Falls(JobSteps', JobSteps, Records)
        \/ /\ JobSteps' = JobSteps
           /\ \/ queue # <<>> /\ queue' = <<>>
              \/ queue' = queue /\ timers' \subseteq timers /\ timers' # timers
              \/ /\ UNCHANGED <<queue, timers>>
                 /\ Falls(RunSteps', RunSteps, Handlers)
<1>1. ASSUME TypeOK, TypeOK', Next PROVE Descends
  <2>1. ASSUME NEW kind, Fault(kind) PROVE faults'.count > faults.count
    BY <1>1, <2>1 DEF Fault, TypeOK, FaultHistory
  <2>2. ASSUME NEW r \in Records, Accept(r)
        PROVE  accepted \subseteq accepted' /\ accepted' # accepted
    BY <2>2 DEF Accept, Send, SendFails, SendAckLost, Fallback
  <2>3. ASSUME NEW n \in timers, RetryIdle(n)
        PROVE  /\ JobSteps' = JobSteps /\ queue' = queue
               /\ timers' \subseteq timers /\ timers' # timers
    BY <2>3, JobStepsOf DEF RetryIdle, boss
  <2>4. ASSUME NEW h \in Handlers, Run(h) PROVE Descends
    <3>1. CASE Read(h) \/ Commit(h) \/ Finish(h)
      BY <1>1, <3>1, RunDescends
    <3>2. CASE ReadFails(h) \/ TxFails(h) \/ TxAckLost(h) \/ AlertFails(h)
      BY <2>1, <3>2 DEF ReadFails, TxFails, TxAckLost, AlertFails
    <3>. QED BY <2>4, <3>1, <3>2 DEF Run
  <2>5. CASE Crash BY <2>1, <2>5 DEF Crash
  <2>6. CASE Fetch BY <1>1, <2>6, FetchFalls
  <2>7. ASSUME NEW r \in Records, Expire(r) PROVE Descends
    BY <1>1, <2>7, ExpireFalls
  <2>8. CASE IntervalFlush \/ (\E n \in timers : RetryFlush(n))
    BY <1>1, <2>8, FlushDescends
  <2>. HIDE DEF Descends
  <2>9. ASSUME NEW r \in Records, Accept(r) PROVE Descends
    BY <2>2, <2>9 DEF Descends
  <2>10. ASSUME NEW n \in timers, RetryIdle(n) PROVE Descends
    BY <2>3, <2>10 DEF Descends
  <2>. QED BY <1>1, <2>4, <2>5, <2>6, <2>7, <2>8, <2>9, <2>10 DEF Next
<1>2. TypeOK /\ TypeOK' /\ [Next]_vars => [Descends]_vars
  BY <1>1
<1>. QED BY <1>2, TypeCorrect, PTL DEF Spec, RetriesRunDown
=============================================================================
