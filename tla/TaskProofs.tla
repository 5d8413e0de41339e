----------------------------- MODULE TaskProofs -----------------------------
(***************************************************************************)
(* For any tasks and batches, any retry limit and any number of faults: a  *)
(* task runs once unless its job expires under a living handler, a         *)
(* cancellation nobody is ahead of is final, and nothing is forgotten but  *)
(* in the ways the code forgets a batch.                                   *)
(***************************************************************************)
EXTENDS TaskQueue, SequenceTheorems, TLAPS

\* A queued job has a try left.
TriesInv(i) == job[i] = "queued" => tries[i] <= RetryLimit

\* Without an expiration under a living handler, the handler of the active
\* attempt is the only one alive, a task that is to be started was never
\* dispatched, and neither was one its handler is about to dispatch.
OnceInv(t) ==
    t \notin overlap =>
        /\ \A r \in Alive(t) : r = Len(runs[t]) /\ job[t] = "active"
        /\ executed[t] <= 1
        /\ status[t] \in {"none", "pending"} =>
              /\ executed[t] = 0
              /\ \A r \in DOMAIN runs[t] : runs[t][r] \notin {"marked", "executed"}
        /\ \A r \in DOMAIN runs[t] :
              runs[t][r] \in {"read", "marked"} => executed[t] = 0

\* No handler of a cancelled item has read its status before.
CancelInv(i) ==
    i \in cancelled \ blind =>
        /\ status[i] = "cancelled" /\ i \notin sender
        /\ \A r \in Alive(i) : runs[i][r] = "fetched"

KnownInv(i) ==
    status[i] \in {Waiting(i), Working(i)} =>
        \/ status[i] = Waiting(i) \/ i \in Tasks
        \/ i \in sender \/ job[i] \in {"queued", "active"} \/ Alive(i) # {}
        \/ i \in stranded

ItemInv(i) == TriesInv(i) /\ (i \in Tasks => OnceInv(i)) /\ CancelInv(i) /\ KnownInv(i)

IInv == TypeOK /\ \A i \in Items : ItemInv(i)

-----------------------------------------------------------------------------
(* Every step is one item's.                                               *)

Move(i) ==
    \/ Create(i) \/ Cancel(i)
    \/ i \in Tasks /\ (ScanPendingTasks(i) \/ CleanupTasks(i))
    \/ i \in Batches /\ ScanPendingBatches(i)
    \/ Send(i) \/ SendFails(i) \/ SenderDies(i)
    \/ Fetch(i) \/ Expire(i) \/ ThrottlingEnds(i)
    \/ \E r \in DOMAIN runs[i] :
          \/ Throw(i, r) \/ Die(i, r)
          \/ Read(i, r) \/ Mark(i, r) \/ Execute(i, r)
          \/ Refuse(i, r) \/ Answer(i, r)

LEMMA NextMoves == Next => \E i \in Items : Move(i)
BY DEF Next, Move, Handler, Items

\* What the invariant of an item is about.
Same(i) ==
    /\ status'[i] = status[i] /\ job'[i] = job[i] /\ tries'[i] = tries[i]
    /\ runs'[i] = runs[i] /\ executed'[i] = executed[i]
    /\ i \in sender' <=> i \in sender
    /\ i \in cancelled' <=> i \in cancelled
    /\ i \in blind' <=> i \in blind
    /\ i \in overlap' <=> i \in overlap
    /\ i \in stranded' <=> i \in stranded

LEMMA SameKeeps ==
    ASSUME NEW i \in Items, ItemInv(i), Same(i) PROVE ItemInv(i)'
<1>1. Alive(i)' = Alive(i) BY DEF Same, Alive
<1>2. TriesInv(i)' BY DEF ItemInv, TriesInv, Same
<1>3. i \in Tasks => OnceInv(i)'
  BY <1>1 DEF ItemInv, OnceInv, Same
<1>4. CancelInv(i)' BY <1>1 DEF ItemInv, CancelInv, Same
<1>5. KnownInv(i)' BY <1>1 DEF ItemInv, KnownInv, Same, Waiting, Working
<1>. QED BY <1>2, <1>3, <1>4, <1>5 DEF ItemInv

LEMMA Elsewhere ==
    ASSUME TypeOK, NEW i \in Items, NEW j \in Items, i # j, Move(i)
    PROVE  Same(j)
<1>. USE DEF TypeOK
<1>1. CASE Create(i) BY <1>1 DEF Create, SetStatus, Same, jobVars, history
<1>2. CASE Cancel(i) BY <1>2 DEF Cancel, SetStatus, Same, jobVars
<1>3. CASE ScanPendingTasks(i) BY <1>3 DEF ScanPendingTasks, Same, jobVars, history
<1>4. CASE CleanupTasks(i) BY <1>4 DEF CleanupTasks, SetStatus, Same, jobVars, history
<1>5. CASE ScanPendingBatches(i)
  BY <1>5 DEF ScanPendingBatches, SetStatus, Same, jobVars, history
<1>6. CASE Send(i) BY <1>6 DEF Send, Accept, Same
<1>7. CASE SendFails(i) BY <1>7 DEF SendFails, Accept, Same, history
<1>8. CASE SenderDies(i) BY <1>8 DEF SenderDies, Same, jobVars
<1>9. CASE Fetch(i) BY <1>9 DEF Fetch, Same, rowVars, history
<1>10. CASE Expire(i) BY <1>10 DEF Expire, FailJob, Same, rowVars
<1>11. CASE ThrottlingEnds(i) BY <1>11 DEF ThrottlingEnds, Same, rowVars, history
<1>12. ASSUME NEW r \in DOMAIN runs[i],
              \/ Throw(i, r) \/ Die(i, r)
              \/ Read(i, r) \/ Mark(i, r) \/ Execute(i, r)
              \/ Refuse(i, r) \/ Answer(i, r)
       PROVE  Same(j)
  <2>1. CASE Throw(i, r) BY <2>1 DEF Throw, FailJob, Same, rowVars
  <2>2. CASE Die(i, r) BY <2>2 DEF Die, Same, rowVars
  <2>3. CASE Read(i, r) BY <2>3 DEF Read, Return, Same, rowVars, history
  <2>4. CASE Mark(i, r) BY <2>4 DEF Mark, SetStatus, Same, history
  <2>5. CASE Execute(i, r) BY <2>5 DEF Execute, Same, rowVars, history
  <2>6. CASE Refuse(i, r) BY <2>6 DEF Refuse, Return, SetStatus, Same, history
  <2>7. CASE Answer(i, r) BY <2>7 DEF Answer, Return, SetStatus, Same, history
  <2>. QED BY <1>12, <2>1, <2>2, <2>3, <2>4, <2>5, <2>6, <2>7
<1>. QED
  BY <1>1, <1>2, <1>3, <1>4, <1>5, <1>6, <1>7, <1>8, <1>9, <1>10, <1>11, <1>12
     DEF Move

-----------------------------------------------------------------------------
(* The handlers of an item after one of them has moved, and after a fetch. *)

LEMMA HandlerMoves ==
    ASSUME TypeOK, NEW i \in Items, NEW r \in DOMAIN runs[i], NEW s \in Stages,
           runs' = [runs EXCEPT ![i][r] = s]
    PROVE  /\ runs' \in [Items -> Seq(Stages)]
           /\ Len(runs'[i]) = Len(runs[i]) /\ DOMAIN runs'[i] = DOMAIN runs[i]
           /\ \A x \in DOMAIN runs[i] :
                 runs'[i][x] = IF x = r THEN s ELSE runs[i][x]
           /\ Alive(i)' = IF s = "gone" THEN Alive(i) \ {r} ELSE Alive(i) \union {r}
<1>1. runs[i] \in Seq(Stages) /\ runs \in [Items -> Seq(Stages)] BY DEF TypeOK
<1>2. r \in 1 .. Len(runs[i]) BY <1>1
<1>3. runs'[i] = [runs[i] EXCEPT ![r] = s] BY <1>1
<1>4. /\ runs'[i] \in Seq(Stages) /\ Len(runs'[i]) = Len(runs[i])
      /\ \A x \in 1 .. Len(runs[i]) :
            runs'[i][x] = IF x = r THEN s ELSE runs[i][x]
  BY <1>1, <1>2, <1>3, ExceptSeq
<1>5. DOMAIN runs'[i] = DOMAIN runs[i] BY <1>1, <1>3
<1>6. runs' \in [Items -> Seq(Stages)] BY <1>1, <1>3, <1>4
<1>7. Alive(i)' = IF s = "gone" THEN Alive(i) \ {r} ELSE Alive(i) \union {r}
  BY <1>1, <1>4, <1>5 DEF Alive
<1>. QED BY <1>1, <1>4, <1>5, <1>6, <1>7

LEMMA HandlerAdded ==
    ASSUME TypeOK, NEW i \in Items, Fetch(i)
    PROVE  /\ runs' \in [Items -> Seq(Stages)]
           /\ runs'[i][Len(runs'[i])] = "fetched" /\ Len(runs'[i]) \in DOMAIN runs'[i]
           /\ \A x \in DOMAIN runs'[i] : x # Len(runs'[i]) =>
                 Alive(i) # {} /\ x \in DOMAIN runs[i] /\ runs'[i][x] = runs[i][x]
<1>1. runs[i] \in Seq(Stages) /\ runs \in [Items -> Seq(Stages)] BY DEF TypeOK
<1> DEFINE q == IF Alive(i) = {} THEN <<>> ELSE runs[i]
<1>2. q \in Seq(Stages) BY <1>1
<1>3. runs' = [runs EXCEPT ![i] = Append(q, "fetched")]
  BY DEF Fetch
<1>4. runs'[i] = Append(q, "fetched") BY <1>1, <1>3
<1>5. /\ Append(q, "fetched") \in Seq(Stages) /\ Len(Append(q, "fetched")) = Len(q) + 1
      /\ Append(q, "fetched")[Len(q) + 1] = "fetched"
      /\ \A x \in 1 .. Len(q) : Append(q, "fetched")[x] = q[x]
  BY <1>2, AppendProperties DEF Stages
<1>6. runs' \in [Items -> Seq(Stages)] BY <1>1, <1>3, <1>5
<1>7. ASSUME NEW x \in DOMAIN runs'[i], x # Len(runs'[i])
      PROVE  Alive(i) # {} /\ x \in DOMAIN runs[i] /\ runs'[i][x] = runs[i][x]
  <2>1. x \in 1 .. Len(q) BY <1>2, <1>4, <1>5, <1>7
  <2>2. q # <<>> BY <2>1
  <2>. QED BY <1>1, <1>4, <1>5, <2>1, <2>2
<1>8. Len(runs'[i]) \in DOMAIN runs'[i] /\ runs'[i][Len(runs'[i])] = "fetched"
  BY <1>2, <1>4, <1>5
<1>. QED BY <1>6, <1>7, <1>8


-----------------------------------------------------------------------------
(* The types.                                                              *)

\* A handler that moves keeps the types if the rest of the step does.
LEMMA MoveTypes ==
    ASSUME TypeOK, NEW i \in Items, TriesInv(i), Move(i)
    PROVE  TypeOK'
<1>. USE ItemsAssumption, LimitsAssumption DEF TypeOK, Items
<1>1. CASE Create(i)
  <2>1. SetStatus(i, Waiting(i)) BY <1>1 DEF Create
  <2>. QED BY <1>1, <2>1 DEF Create, SetStatus, Waiting, jobVars, history
<1>2. CASE Cancel(i)
  BY <1>2 DEF Cancel, SetStatus, Waiting, Working, Ended, jobVars
<1>3. CASE i \in Tasks /\ ScanPendingTasks(i)
  BY <1>3 DEF ScanPendingTasks, jobVars, history, Waiting, Working
<1>4. CASE i \in Tasks /\ CleanupTasks(i)
  BY <1>4 DEF CleanupTasks, SetStatus, Ended, Waiting, Working, jobVars, history
<1>5. CASE i \in Batches /\ ScanPendingBatches(i)
  BY <1>5 DEF ScanPendingBatches, SetStatus, Waiting, Working, jobVars, history
<1>6. CASE Send(i) \/ SendFails(i)
  <2>1. ASSUME Accept(i)
        PROVE  /\ job' \in [Items -> {"none", "queued", "active", "done", "dead"}]
               /\ tries' \in [Items -> 0 .. RetryLimit + 1]
    <3>1. 0 \in 0 .. RetryLimit + 1 OBVIOUS
    <3>2. CASE job[i] = "none" BY <2>1, <3>1, <3>2 DEF Accept
    <3>3. CASE job[i] # "none" BY <2>1, <3>3 DEF Accept
    <3>. QED BY <3>2, <3>3
  <2>2. CASE Send(i) BY <2>1, <2>2 DEF Send, Waiting, Working
  <2>3. CASE SendFails(i)
    <3>1. /\ job' \in [Items -> {"none", "queued", "active", "done", "dead"}]
          /\ tries' \in [Items -> 0 .. RetryLimit + 1]
      BY <2>1, <2>3 DEF SendFails
    <3>2. faults' \in 0 .. MaxFaults /\ sender' \subseteq Items
      BY <2>3 DEF SendFails, Fault
    <3>3. /\ DOMAIN status' = Items
          /\ \A j \in Items :
                status'[j] \in {"none", Waiting(j), Working(j)} \union Ended
      <4>1. i \in Batches => Waiting(i) = "validating" BY DEF Waiting
      <4>. QED BY <2>3, <4>1 DEF SendFails
    <3>. QED
      BY <2>3, <3>1, <3>2, <3>3 DEF SendFails, history, Waiting, Working
  <2>. QED BY <1>6, <2>2, <2>3
<1>8. CASE SenderDies(i) BY <1>8 DEF SenderDies, Fault, jobVars, Waiting, Working
<1>9. CASE Fetch(i)
  <2>1. runs' \in [Items -> Seq(Stages)] BY <1>9, HandlerAdded
  <2>2. tries' \in [Items -> 0 .. RetryLimit + 1] BY <1>9 DEF Fetch, TriesInv
  <2>. QED BY <1>9, <2>1, <2>2 DEF Fetch, rowVars, history, Waiting, Working
<1>10. CASE Expire(i) BY <1>10 DEF Expire, Fault, FailJob, rowVars, Waiting, Working
<1>11. CASE ThrottlingEnds(i)
  BY <1>11 DEF ThrottlingEnds, rowVars, history, Waiting, Working
<1>12. ASSUME NEW r \in DOMAIN runs[i],
              \/ Throw(i, r) \/ Die(i, r)
              \/ Read(i, r) \/ Mark(i, r) \/ Execute(i, r)
              \/ Refuse(i, r) \/ Answer(i, r)
       PROVE  TypeOK'
  <2>1. \E s \in Stages : runs' = [runs EXCEPT ![i][r] = s]
    BY <1>12 DEF Throw, Die, Read, Mark, Execute, Refuse, Answer, Return, Stages
  <2>2. runs' \in [Items -> Seq(Stages)] BY <2>1, HandlerMoves
  <2>3. CASE Throw(i, r)
    BY <2>2, <2>3 DEF Throw, Fault, FailJob, rowVars, Waiting, Working
  <2>4. CASE Die(i, r) BY <2>2, <2>4 DEF Die, Fault, rowVars, Waiting, Working
  <2>5. CASE Read(i, r)
    BY <2>2, <2>5 DEF Read, Return, rowVars, history, Waiting, Working
  <2>6. CASE Mark(i, r)
    BY <2>2, <2>6 DEF Mark, SetStatus, Waiting, Working, history
  <2>7. CASE Execute(i, r)
    BY <2>2, <2>7 DEF Execute, rowVars, history, Waiting, Working
  <2>8. CASE Refuse(i, r)
    BY <2>2, <2>8 DEF Refuse, Return, SetStatus, Ended, history, Waiting, Working
  <2>9. CASE Answer(i, r)
    BY <2>2, <2>9 DEF Answer, Return, SetStatus, Ended, history, Waiting, Working
  <2>. QED BY <1>12, <2>3, <2>4, <2>5, <2>6, <2>7, <2>8, <2>9
<1>. QED
  BY <1>1, <1>2, <1>3, <1>4, <1>5, <1>6, <1>8, <1>9, <1>10, <1>11, <1>12
     DEF Move

-----------------------------------------------------------------------------
(* The invariant of the item that moves.                                   *)

LEMMA MoveTries ==
    ASSUME TypeOK, NEW i \in Items, TriesInv(i), Move(i) PROVE TriesInv(i)'
<1>. USE LimitsAssumption DEF TypeOK, TriesInv
<1>1. CASE Send(i) \/ SendFails(i) BY <1>1 DEF Send, SendFails, Accept
<1>2. CASE Expire(i) BY <1>2 DEF Expire, FailJob
<1>3. CASE \E r \in DOMAIN runs[i] : Throw(i, r) BY <1>3 DEF Throw, FailJob
<1>4. CASE \E r \in DOMAIN runs[i] : Read(i, r) \/ Refuse(i, r) \/ Answer(i, r)
  BY <1>4 DEF Read, Refuse, Answer, Return
<1>5. CASE Fetch(i) \/ ThrottlingEnds(i)
  BY <1>5 DEF Fetch, ThrottlingEnds
<1>. QED
  BY <1>1, <1>2, <1>3, <1>4, <1>5
     DEF Move, Create, Cancel, ScanPendingTasks, CleanupTasks, ScanPendingBatches,
         SenderDies, Die, Mark, Execute, jobVars

LEMMA MoveCancel ==
    ASSUME TypeOK, NEW i \in Items, CancelInv(i), Move(i) PROVE CancelInv(i)'
<1>. USE ItemsAssumption DEF TypeOK, CancelInv
<1>1. CASE Create(i) \/ ScanPendingTasks(i) \/ CleanupTasks(i)
           \/ ScanPendingBatches(i) \/ ThrottlingEnds(i)
  BY <1>1 DEF Create, ScanPendingTasks, CleanupTasks, ScanPendingBatches,
              ThrottlingEnds, SetStatus, Alive, jobVars, rowVars, history, Waiting
<1>2. CASE Cancel(i)
  BY <1>2 DEF Cancel, SetStatus, Alive, jobVars, Waiting, Working
<1>3. CASE Send(i) \/ SendFails(i) \/ SenderDies(i)
  BY <1>3 DEF Send, SendFails, SenderDies, Alive, jobVars, history
<1>4. CASE Fetch(i)
  <2>1. \A x \in Alive(i)' : runs'[i][x] = "fetched"
                              \/ (x \in Alive(i) /\ runs'[i][x] = runs[i][x])
    BY <1>4, HandlerAdded DEF Alive
  <2>. QED BY <1>4, <2>1 DEF Fetch, rowVars, history
<1>5. CASE Expire(i) BY <1>5 DEF Expire, Alive, rowVars
<1>6. ASSUME NEW r \in DOMAIN runs[i],
              \/ Throw(i, r) \/ Die(i, r)
              \/ Read(i, r) \/ Mark(i, r) \/ Execute(i, r)
              \/ Refuse(i, r) \/ Answer(i, r),
             i \in cancelled' \ blind'
      PROVE  /\ status'[i] = "cancelled" /\ i \notin sender'
             /\ \A x \in Alive(i)' : runs'[i][x] = "fetched"
  <2>1. i \in cancelled \ blind
    BY <1>6 DEF Throw, Die, Read, Mark, Execute, Refuse, Answer, history
  <2>2. runs[i][r] \in {"fetched", "gone"} BY <2>1 DEF Alive
  <2>3. ~Runnable(i) BY <2>1 DEF Runnable
  <2>4. CASE Throw(i, r) \/ Die(i, r)
    <3>1. runs' = [runs EXCEPT ![i][r] = "gone"] BY <2>4 DEF Throw, Die
    <3>. QED BY <2>1, <2>4, <3>1, HandlerMoves DEF Throw, Die, rowVars, Stages, Alive
  <2>5. CASE Read(i, r)
    <3>1. runs' = [runs EXCEPT ![i][r] = "gone"] BY <2>3, <2>5 DEF Read, Return
    <3>. QED BY <2>1, <2>5, <3>1, HandlerMoves DEF Read, rowVars, Stages, Alive
  <2>. QED BY <1>6, <2>2, <2>4, <2>5 DEF Mark, Execute, Refuse, Answer
<1>. QED BY <1>1, <1>2, <1>3, <1>4, <1>5, <1>6 DEF Move


LEMMA MoveKnown ==
    ASSUME TypeOK, NEW i \in Items, KnownInv(i), Move(i) PROVE KnownInv(i)'
<1>. USE ItemsAssumption DEF TypeOK, KnownInv, Items
<1>1. CASE Create(i) \/ Cancel(i)
  BY <1>1 DEF Create, Cancel, SetStatus, Waiting, Working
<1>2. CASE i \in Tasks BY <1>2
<1>3. CASE i \in Batches /\ ScanPendingBatches(i)
  BY <1>3 DEF ScanPendingBatches
<1>4. CASE Send(i)
  <2>1. job[i] \in {"none", "queued", "active", "done", "dead"} OBVIOUS
  <2>. QED BY <1>4, <2>1 DEF Send, Accept
<1>5. CASE SendFails(i) BY <1>5 DEF SendFails, Waiting
<1>6. CASE SenderDies(i) BY <1>6 DEF SenderDies
<1>7. CASE Fetch(i) BY <1>7 DEF Fetch
<1>8. CASE Expire(i) BY <1>8 DEF Expire, FailJob
<1>9. CASE ThrottlingEnds(i)
  BY <1>9 DEF ThrottlingEnds, Alive, rowVars, history, Waiting, Working
<1>10. ASSUME NEW r \in DOMAIN runs[i],
              \/ Throw(i, r) \/ Die(i, r)
              \/ Read(i, r) \/ Mark(i, r) \/ Execute(i, r)
              \/ Refuse(i, r) \/ Answer(i, r),
              i \in Batches
       PROVE  KnownInv(i)'
  <2>1. CASE Throw(i, r)
    <3>1. job'[i] = "queued" \/ i \in stranded' BY <1>10, <2>1 DEF Throw, FailJob
    <3>. QED BY <3>1
  <2>2. CASE Die(i, r)
    <3>1. job'[i] \in {"queued", "active"} \/ i \in stranded'
      BY <1>10, <2>2 DEF Die
    <3>. QED BY <3>1
  <2>3. CASE Read(i, r)
    <3>1. CASE Runnable(i)
      <4>1. runs' = [runs EXCEPT ![i][r] = "read"] BY <2>3, <3>1 DEF Read
      <4>2. Alive(i)' = Alive(i) \union {r} BY <4>1, HandlerMoves DEF Stages
      <4>. QED BY <4>2
    <3>2. CASE ~Runnable(i)
      BY <1>10, <2>3, <3>2 DEF Read, Runnable, rowVars, Waiting, Working
    <3>. QED BY <3>1, <3>2
  <2>4. CASE Mark(i, r) \/ Execute(i, r)
    <3>1. PICK s \in Stages \ {"gone"} : runs' = [runs EXCEPT ![i][r] = s]
      BY <2>4 DEF Mark, Execute, Stages
    <3>2. Alive(i)' = Alive(i) \union {r} BY <3>1, HandlerMoves
    <3>. QED BY <3>2
  <2>5. CASE Refuse(i, r) \/ Answer(i, r)
    <3>1. status'[i] \in Ended
      BY <2>5 DEF Refuse, Answer, SetStatus, Ended
    <3>. QED BY <3>1 DEF Waiting, Working, Ended
  <2>. QED BY <1>10, <2>1, <2>2, <2>3, <2>4, <2>5
<1>. QED
  BY <1>1, <1>2, <1>3, <1>4, <1>5, <1>6, <1>7, <1>8, <1>9, <1>10 DEF Move

LEMMA MoveOnce ==
    ASSUME TypeOK, NEW i \in Tasks, OnceInv(i), Move(i) PROVE OnceInv(i)'
<1>. USE ItemsAssumption DEF TypeOK, OnceInv, Items
<1>1. CASE Create(i) \/ Cancel(i) \/ ScanPendingTasks(i) \/ CleanupTasks(i)
           \/ SenderDies(i)
  BY <1>1 DEF Create, Cancel, ScanPendingTasks, CleanupTasks, SenderDies,
              SetStatus, Alive, jobVars, rowVars, history, Waiting, Working
<1>2. CASE Send(i) \/ SendFails(i)
  <2>1. job[i] = "active" => job'[i] = "active"
    BY <1>2 DEF Send, SendFails, Accept
  <2>2. Alive(i)' = Alive(i) BY <1>2 DEF Send, SendFails, Alive
  <2>3. status' = status BY <1>2 DEF Send, SendFails
  <2>. QED BY <1>2, <2>1, <2>2, <2>3 DEF Send, SendFails, history
<1>3. CASE Fetch(i)
  <2>. SUFFICES ASSUME i \notin overlap' PROVE OnceInv(i)'
    OBVIOUS
  <2>1. i \notin overlap /\ job[i] = "queued" /\ job'[i] = "active"
    BY <1>3 DEF Fetch, history
  <2>2. Alive(i) = {} BY <2>1
  <2>3. Len(runs'[i]) \in DOMAIN runs'[i] /\ runs'[i][Len(runs'[i])] = "fetched"
    BY <1>3, HandlerAdded
  <2>4. \A x \in DOMAIN runs'[i] : x = Len(runs'[i])
    BY <1>3, <2>2, HandlerAdded
  <2>5. executed' = executed /\ status' = status BY <1>3 DEF Fetch, rowVars
  <2>. QED BY <2>1, <2>3, <2>4, <2>5 DEF Alive
<1>4. CASE Expire(i)
  <2>. SUFFICES ASSUME i \notin overlap' PROVE OnceInv(i)'
    OBVIOUS
  <2>1. runs[i][Len(runs[i])] = "gone" /\ i \notin overlap BY <1>4 DEF Expire
  <2>2. Alive(i) = {} BY <2>1 DEF Alive
  <2>. QED BY <1>4, <2>1, <2>2 DEF Expire, Alive, rowVars
<1>5. CASE ThrottlingEnds(i)
  BY <1>5 DEF ThrottlingEnds, Alive, rowVars, history
<1>6. ASSUME NEW r \in DOMAIN runs[i],
              \/ Throw(i, r) \/ Die(i, r)
              \/ Read(i, r) \/ Mark(i, r) \/ Execute(i, r)
              \/ Refuse(i, r) \/ Answer(i, r),
              i \notin overlap
       PROVE  OnceInv(i)'
  <2>1. CASE Throw(i, r) \/ Die(i, r) \/ Refuse(i, r) \/ Answer(i, r)
             \/ (Read(i, r) /\ ~Runnable(i))
    <3>1. runs' = [runs EXCEPT ![i][r] = "gone"]
      BY <2>1 DEF Throw, Die, Refuse, Answer, Read, Return
    <3>2. runs[i][r] # "gone"
      BY <2>1 DEF Throw, Die, Refuse, Answer, Read
    <3>3. Alive(i) = {r} /\ r = Len(runs[i]) BY <1>6, <3>2 DEF Alive
    <3>4. Alive(i)' = {} BY <3>1, <3>3, HandlerMoves DEF Stages
    <3>5. executed'[i] = executed[i]
      BY <2>1 DEF Throw, Die, Refuse, Answer, Read
    <3>6. status'[i] \in {"none", "pending"} => status'[i] = status[i]
      BY <2>1 DEF Throw, Die, Refuse, Answer, Read, rowVars, SetStatus
    <3>7. \A x \in DOMAIN runs'[i] : runs'[i][x] = "gone"
      BY <3>4 DEF Alive
    <3>. QED BY <1>6, <3>4, <3>5, <3>6, <3>7
  <2>2. CASE Read(i, r) /\ Runnable(i)
    <3>1. runs' = [runs EXCEPT ![i][r] = "read"] /\ runs[i][r] = "fetched"
      BY <2>2 DEF Read
    <3>2. status[i] = "pending" /\ executed[i] = 0 BY <1>6, <2>2 DEF Runnable
    <3>3. Alive(i)' = Alive(i) BY <3>1, HandlerMoves DEF Stages, Alive
    <3>4. status' = status /\ executed' = executed /\ job' = job
      BY <2>2 DEF Read, rowVars
    <3>. QED BY <1>6, <3>1, <3>2, <3>3, <3>4, HandlerMoves DEF Stages
  <2>3. CASE Mark(i, r)
    <3>1. runs' = [runs EXCEPT ![i][r] = "marked"] /\ runs[i][r] = "read"
      BY <2>3 DEF Mark
    <3>2. status'[i] = "processing" /\ executed[i] = 0
      BY <1>6, <2>3, <3>1 DEF Mark, SetStatus, Working
    <3>3. Alive(i)' = Alive(i) BY <3>1, HandlerMoves DEF Stages, Alive
    <3>4. executed' = executed /\ job' = job BY <2>3 DEF Mark
    <3>. QED BY <1>6, <3>1, <3>2, <3>3, <3>4, HandlerMoves DEF Stages
  <2>4. CASE Execute(i, r)
    <3>1. runs' = [runs EXCEPT ![i][r] = "executed"] /\ runs[i][r] = "marked"
      BY <2>4 DEF Execute
    <3>2. Alive(i) = {r} BY <1>6, <3>1 DEF Alive
    <3>3. executed[i] = 0 /\ executed'[i] = 1
      BY <1>6, <2>4, <3>1 DEF Execute
    <3>4. Alive(i)' = Alive(i) BY <3>1, HandlerMoves DEF Stages, Alive
    <3>5. status' = status /\ job' = job BY <2>4 DEF Execute, rowVars
    <3>6. status[i] \notin {"none", "pending"} BY <1>6, <3>1
    <3>7. \A x \in DOMAIN runs'[i] : runs'[i][x] \in {"gone", "executed"}
      BY <3>1, <3>2, HandlerMoves DEF Stages, Alive
    <3>8. Len(runs'[i]) = Len(runs[i]) BY <3>1, HandlerMoves DEF Stages
    <3>9. \A x \in Alive(i)' : x = Len(runs'[i]) /\ job'[i] = "active"
      BY <1>6, <3>4, <3>5, <3>8
    <3>10. executed'[i] <= 1 BY <3>3
    <3>11. status'[i] \notin {"none", "pending"} BY <3>5, <3>6
    <3>12. \A x \in DOMAIN runs'[i] : runs'[i][x] \notin {"read", "marked"}
      BY <3>7
    <3>. QED BY <3>9, <3>10, <3>11, <3>12
  <2>. HIDE DEF OnceInv, TypeOK
  <2>. QED BY <1>6, <2>1, <2>2, <2>3, <2>4
<1>7. ASSUME NEW r \in DOMAIN runs[i],
              \/ Throw(i, r) \/ Die(i, r)
              \/ Read(i, r) \/ Mark(i, r) \/ Execute(i, r)
              \/ Refuse(i, r) \/ Answer(i, r),
              i \in overlap
       PROVE  OnceInv(i)'
  BY <1>7 DEF Throw, Die, Read, Mark, Execute, Refuse, Answer, history
<1>. QED BY <1>1, <1>2, <1>3, <1>4, <1>5, <1>6, <1>7 DEF Move

-----------------------------------------------------------------------------
LEMMA InitInv == Init => IInv
BY ItemsAssumption, LimitsAssumption
   DEF Init, IInv, TypeOK, ItemInv, TriesInv, OnceInv, CancelInv, KnownInv, Alive,
       Items, Waiting, Working

LEMMA StepInv == IInv /\ [Next]_vars => IInv'
<1>. SUFFICES ASSUME IInv, [Next]_vars PROVE IInv'
  OBVIOUS
<1>1. CASE UNCHANGED vars
  <2>1. \A j \in Items : Same(j)
    BY <1>1 DEF vars, rowVars, jobVars, history, Same
  <2>2. TypeOK' BY <1>1 DEF IInv, TypeOK, vars, rowVars, jobVars, history
  <2>. QED BY <2>1, <2>2, SameKeeps DEF IInv
<1>2. CASE Next
  <2>1. PICK i \in Items : Move(i) BY <1>2, NextMoves
  <2>2. TypeOK' BY <2>1, MoveTypes DEF IInv, ItemInv
  <2>3. ItemInv(i)'
    BY <2>1, MoveTries, MoveOnce, MoveCancel, MoveKnown DEF IInv, ItemInv
  <2>4. ASSUME NEW j \in Items, j # i PROVE ItemInv(j)'
    BY <2>1, <2>4, Elsewhere, SameKeeps DEF IInv
  <2>. QED BY <2>2, <2>3, <2>4 DEF IInv
<1>. QED BY <1>1, <1>2

\* The row, the job and the handlers of every task and batch agree, whoever
\* dies, expires or cancels.
THEOREM Invariance == Spec => []IInv
BY InitInv, StepInv, PTL DEF Spec

\* Statuses, jobs, retries and handler stages keep their types.
THEOREM TypeCorrect == Spec => []TypeOK
<1>1. IInv => TypeOK BY DEF IInv
<1>. QED BY <1>1, Invariance, PTL

\* A task whose job never expired under a living handler is dispatched once.
THEOREM OneDispatch == Spec => []TasksRunOnce
<1>1. IInv => TasksRunOnce
  BY DEF IInv, ItemInv, OnceInv, TasksRunOnce, TypeOK, Items
<1>. QED BY <1>1, Invariance, PTL

\* A cancellation no handler and no scan was ahead of is final.
THEOREM CancellationHolds == Spec => []CancelHolds
<1>1. IInv => CancelHolds
  BY DEF IInv, ItemInv, CancelInv, CancelHolds, TypeOK
<1>. QED BY <1>1, Invariance, PTL

\* Somebody will take every unfinished item further, or it is a batch that was
\* left behind in one of the ways stranded records.
THEOREM NoneForgotten == Spec => []NothingForgotten
<1>1. IInv => NothingForgotten
  BY DEF IInv, ItemInv, KnownInv, NothingForgotten
<1>. QED BY <1>1, Invariance, PTL

=============================================================================
