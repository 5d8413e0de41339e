----------------------------- MODULE CacheProofs -----------------------------
(***************************************************************************)
(* Proofs about CacheSync, for all sets of processes and refreshes and all *)
(* bounds: its types and that quiet caches agree with the table.  The      *)
(* inductive invariant says which pieces of work bring news to a process.  *)
(* A process's own refresh only counts when it has yet to load, or has     *)
(* loaded the table as it is.  And that refreshes do not feed each other.  *)
(***************************************************************************)
EXTENDS CacheSync, TLAPS

Telling(t) == stage[t] # "idle" /\ ~silent[t]

Bringing(t, p) ==
    /\ Owner[t] = p
    /\ stage[t] = "called" \/ (stage[t] = "loaded" /\ seen[t] = version)

Coming(p) ==
    notices[p] > 0 \/ \E t \in Tasks : Telling(t) \/ Bringing(t, p)

NewsComes == \A p \in Procs : lapsed[p] \/ cache[p] = version \/ Coming(p)

IInv == TypeOK /\ NewsComes

-----------------------------------------------------------------------------
(* Types.                                                                  *)

LEMMA InitTypes == Init => TypeOK
BY SyncConstants, SMT DEF Init, TypeOK

\* Every step of every process keeps the variables in their types, and no
\* cache or refresh shows a change that has not been made.
LEMMA NextTypes == TypeOK /\ [Next]_vars => TypeOK'
<1> SUFFICES ASSUME TypeOK, [Next]_vars PROVE TypeOK'
  OBVIOUS
<1> USE SyncConstants DEF TypeOK
<1>1. CASE UNCHANGED vars
  BY <1>1 DEF vars
<1>2. ASSUME NEW t \in Tasks, Change(t) PROVE TypeOK'
  <2>1. version' \in Nat /\ version \in Nat /\ version' = version + 1
    BY <1>2 DEF Change
  <2>2. 0..version \subseteq 0..version'
    BY <2>1
  <2> QED BY <1>2, <2>1, <2>2 DEF Change
<1>3. ASSUME NEW t \in Tasks, Load(t) PROVE TypeOK'
  BY <1>3 DEF Load
<1>4. ASSUME NEW t \in Tasks, Swap(t) PROVE TypeOK'
  BY <1>4 DEF Swap
<1>5. ASSUME NEW t \in Tasks, Notify(t) PROVE TypeOK'
  BY <1>5 DEF Notify, Lapse
<1>6. ASSUME NEW t \in Tasks, Fails(t) PROVE TypeOK'
  BY <1>6 DEF Fails, Fault, Lapse
<1>7. ASSUME NEW t \in Tasks, Deliver(t) PROVE TypeOK'
  BY <1>7 DEF Deliver
<1>8. ASSUME NEW p \in Procs, Listen(p) PROVE TypeOK'
  BY <1>8 DEF Listen
<1>9. ASSUME NEW p \in Procs, Disconnect(p) PROVE TypeOK'
  BY <1>9 DEF Disconnect, Fault, Lapse
<1>10. ASSUME NEW p \in Procs, Crash(p) PROVE TypeOK'
  BY <1>10 DEF Crash, Fault
<1> QED
  BY <1>1, <1>2, <1>3, <1>4, <1>5, <1>6, <1>7, <1>8, <1>9, <1>10 DEF Next, Run

\* The types of all variables, in every behaviour.
THEOREM TypeCorrect == Spec => []TypeOK
<1>1. Spec => Init /\ [][Next]_vars
  BY DEF Spec
<1> QED
  BY <1>1, InitTypes, NextTypes, PTL

-----------------------------------------------------------------------------
(* News.                                                                   *)

LEMMA InitNews == Init => NewsComes
<1> SUFFICES ASSUME Init, NEW p \in Procs PROVE Coming(p)
  BY DEF NewsComes
<1>1. Boot[p] \in Tasks /\ Owner[Boot[p]] = p
  BY SyncConstants
<1>2. Telling(Boot[p])
  BY <1>1 DEF Init, Telling
<1> QED
  BY <1>1, <1>2 DEF Coming

\* One step per action.  A change and a restart tell everybody; a refresh that
\* ends has passed the news on, or its loss is recorded.
LEMMA NextNews == IInv /\ [Next]_vars => NewsComes'
<1> SUFFICES ASSUME TypeOK, NewsComes, [Next]_vars, NEW p \in Procs
             PROVE  (lapsed[p] \/ cache[p] = version \/ Coming(p))'
  BY DEF IInv, NewsComes
<1>0. lapsed[p] \/ cache[p] = version \/ Coming(p)
  BY DEF NewsComes
<1>1. CASE UNCHANGED vars
  BY <1>0, <1>1 DEF vars, Coming, Telling, Bringing
<1>2. ASSUME NEW t \in Tasks, Change(t) PROVE Coming(p)'
  <2>1. Telling(t)'
    BY <1>2 DEF Change, Telling, TypeOK
  <2> QED BY <2>1 DEF Coming
<1>3. ASSUME NEW t \in Tasks, Load(t)
      PROVE  (lapsed[p] \/ cache[p] = version \/ Coming(p))'
  <2>1. CASE Coming(p)
    <3>1. ASSUME NEW u \in Tasks, Telling(u) \/ Bringing(u, p)
          PROVE  (Telling(u) \/ Bringing(u, p))'
      BY <1>3, <3>1 DEF Load, Telling, Bringing, TypeOK
    <3> QED BY <1>3, <2>1, <3>1 DEF Coming, Load
  <2> QED BY <1>0, <1>3, <2>1 DEF Load
<1>4. ASSUME NEW t \in Tasks, Swap(t)
      PROVE  (lapsed[p] \/ cache[p] = version \/ Coming(p))'
  <2>1. CASE ~silent[t]
    <3>1. Telling(t)'
      BY <1>4, <2>1 DEF Swap, Telling, TypeOK
    <3> QED BY <3>1 DEF Coming
  <2>2. CASE silent[t] /\ Owner[t] = p /\ seen[t] = version
    BY <1>4, <2>2 DEF Swap, TypeOK
  <2>3. CASE silent[t] /\ ~(Owner[t] = p /\ seen[t] = version)
    <3>1. ASSUME NEW u \in Tasks, Telling(u) \/ Bringing(u, p)
          PROVE  (Telling(u) \/ Bringing(u, p))'
      <4>1. u # t
        BY <1>4, <2>3, <3>1 DEF Swap, Telling, Bringing
      <4> QED BY <1>4, <3>1, <4>1 DEF Swap, Telling, Bringing, TypeOK
    <3>2. Coming(p) => Coming(p)'
      BY <1>4, <3>1 DEF Coming, Swap
    <3>3. CASE Owner[t] # p
      BY <1>0, <1>4, <3>2, <3>3 DEF Swap, TypeOK
    <3>4. CASE Owner[t] = p
      <4>1. seen[t] # version /\ seen[t] \in 0..version /\ cache[p] \in 0..version /\ version \in Nat
        BY <2>3, <3>4 DEF TypeOK
      <4>2. lapsed'[p] = (lapsed[p] \/ seen[t] < cache[p])
        BY <1>4, <3>4, <4>1 DEF Swap, TypeOK
      <4>3. seen[t] < cache[p] \/ cache[p] # version
        BY <4>1
      <4> QED BY <1>0, <3>2, <4>2, <4>3
    <3> QED BY <3>3, <3>4
  <2> QED BY <2>1, <2>2, <2>3
<1>5. ASSUME NEW t \in Tasks, Notify(t)
      PROVE  (lapsed[p] \/ cache[p] = version \/ Coming(p))'
  <2>1. CASE listening[p]
    <3>1. notices'[p] = notices[p] + 1 /\ notices[p] \in Nat
      BY <1>5, <2>1 DEF Notify, TypeOK
    <3> QED BY <3>1 DEF Coming
  <2>2. CASE ~listening[p]
    BY <1>5, <2>2 DEF Notify, Lapse
  <2> QED BY <2>1, <2>2
<1>6. ASSUME NEW t \in Tasks, Fails(t)
      PROVE  (lapsed[p] \/ cache[p] = version \/ Coming(p))'
  <2>1. CASE ~silent[t] \/ Owner[t] = p
    BY <1>6, <2>1 DEF Fails, Lapse
  <2>2. CASE silent[t] /\ Owner[t] # p
    <3>1. ASSUME NEW u \in Tasks, Telling(u) \/ Bringing(u, p)
          PROVE  (Telling(u) \/ Bringing(u, p))'
      <4>1. u # t
        BY <2>2, <3>1 DEF Telling, Bringing
      <4> QED BY <1>6, <3>1, <4>1 DEF Fails, Telling, Bringing, TypeOK
    <3>2. Coming(p) => Coming(p)'
      BY <1>6, <3>1 DEF Coming, Fails
    <3> QED BY <1>0, <1>6, <3>2 DEF Fails, Lapse
  <2> QED BY <2>1, <2>2
<1>7. ASSUME NEW t \in Tasks, Deliver(t)
      PROVE  (lapsed[p] \/ cache[p] = version \/ Coming(p))'
  <2>1. CASE Owner[t] = p
    <3>1. Bringing(t, p)'
      BY <1>7, <2>1 DEF Deliver, Bringing, TypeOK
    <3> QED BY <3>1 DEF Coming
  <2>2. CASE Owner[t] # p
    <3>1. ASSUME NEW u \in Tasks, Telling(u) \/ Bringing(u, p)
          PROVE  (Telling(u) \/ Bringing(u, p))'
      <4>1. u # t
        BY <1>7, <3>1 DEF Deliver, Telling, Bringing
      <4> QED BY <1>7, <3>1, <4>1 DEF Deliver, Telling, Bringing, TypeOK
    <3>2. notices'[p] = notices[p]
      BY <1>7, <2>2 DEF Deliver, TypeOK
    <3>3. Coming(p) => Coming(p)'
      BY <3>1, <3>2 DEF Coming
    <3> QED BY <1>0, <1>7, <3>3 DEF Deliver
  <2> QED BY <2>1, <2>2
<1>8. ASSUME NEW q \in Procs, Listen(q)
      PROVE  (lapsed[p] \/ cache[p] = version \/ Coming(p))'
  BY <1>0, <1>8 DEF Listen, Coming, Telling, Bringing
<1>9. ASSUME NEW q \in Procs, Disconnect(q)
      PROVE  (lapsed[p] \/ cache[p] = version \/ Coming(p))'
  <2>1. CASE q = p /\ notices[p] > 0
    BY <1>9, <2>1 DEF Disconnect, Lapse
  <2>2. CASE ~(q = p /\ notices[p] > 0)
    <3>1. notices[p] > 0 => notices'[p] > 0
      BY <1>9, <2>2 DEF Disconnect, TypeOK
    <3>2. Coming(p) => Coming(p)'
      BY <1>9, <3>1 DEF Coming, Telling, Bringing, Disconnect
    <3> QED BY <1>0, <1>9, <3>2 DEF Disconnect, Lapse
  <2> QED BY <2>1, <2>2
<1>10. ASSUME NEW q \in Procs, Crash(q) PROVE Coming(p)'
  <2>1. Boot[q] \in Tasks
    BY SyncConstants
  <2>2. Telling(Boot[q])'
    BY <1>10, <2>1 DEF Crash, Telling, TypeOK
  <2> QED BY <2>1, <2>2 DEF Coming
<1> QED
  BY <1>1, <1>2, <1>3, <1>4, <1>5, <1>6, <1>7, <1>8, <1>9, <1>10 DEF Next, Run

\* News that is coming keeps the process busy.
LEMMA ComingIsBusy == NewsComes => QuietCachesAgree
<1> SUFFICES ASSUME NewsComes, NEW p \in Procs, Coming(p) PROVE Busy(p)
  BY DEF NewsComes, QuietCachesAgree
<1> QED
  BY DEF Coming, Telling, Bringing, Busy

\* Whatever refreshes overlap and whichever processes crash or lose their
\* connection, a process for which nothing is on its way shows the table,
\* unless its history says what it missed.
THEOREM CachesAgree == Spec => []QuietCachesAgree
<1>1. Init => IInv
  BY InitTypes, InitNews DEF IInv
<1>2. IInv /\ [Next]_vars => IInv'
  BY NextTypes, NextNews DEF IInv
<1>3. IInv => QuietCachesAgree
  BY ComingIsBusy DEF IInv
<1>4. Spec => Init /\ [][Next]_vars
  BY DEF Spec
<1> QED
  BY <1>1, <1>2, <1>3, <1>4, PTL

-----------------------------------------------------------------------------
(* The descent of the refreshes.                                           *)

\* A refresh that goes on without starting: its own number falls, no other's
\* does anything.
LEMMA TaskFalls ==
    ASSUME TypeOK, NEW t \in Tasks, NEW place \in {"idle", "loaded", "swapped"},
           stage' = [stage EXCEPT ![t] = place],
           StepsOf[place] < StepsOf[stage[t]]
    PROVE  Falls(StepsLeft', StepsLeft, Tasks)
<1>1. ASSUME NEW u \in Tasks
      PROVE  /\ StepsLeft[u] = StepsOf[stage[u]] /\ StepsLeft[u] \in Nat
             /\ StepsLeft'[u] = StepsOf[stage'[u]]
  BY DEF StepsLeft, StepsOf, TypeOK
<1>2. StepsLeft'[t] < StepsLeft[t]
  BY <1>1 DEF TypeOK
<1>3. ASSUME NEW u \in Tasks PROVE StepsLeft'[u] <= StepsLeft[u]
  <2>1. CASE u = t BY <1>1, <1>2, <2>1 DEF StepsOf, TypeOK
  <2>2. CASE u # t
    <3>1. stage'[u] = stage[u] BY <2>2 DEF TypeOK
    <3>. QED BY <1>1, <3>1
  <2>. QED BY <2>1, <2>2
<1>. QED BY <1>2, <1>3 DEF Falls

\* What a refresh waits to do after its swap is to notify.
SwappedTells == \A t \in Tasks : stage[t] = "swapped" => ~silent[t]

LEMMA SwappedInit == Init => SwappedTells
BY DEF Init, SwappedTells

LEMMA SwappedStep == TypeOK /\ SwappedTells /\ [Next]_vars => SwappedTells'
<1>. SUFFICES ASSUME TypeOK, SwappedTells, [Next]_vars, NEW u \in Tasks,
                     stage'[u] = "swapped"
              PROVE  ~silent'[u]
  BY DEF SwappedTells
<1>. USE DEF TypeOK, SwappedTells
<1>1. CASE UNCHANGED vars BY <1>1 DEF vars
<1>2. ASSUME NEW t \in Tasks, Change(t) \/ Deliver(t) PROVE ~silent'[u]
  BY <1>2 DEF Change, Deliver
<1>3. ASSUME NEW t \in Tasks, Run(t) PROVE ~silent'[u]
  BY <1>3 DEF Run, Load, Swap, Notify
<1>4. ASSUME NEW t \in Tasks, Fails(t) PROVE ~silent'[u]
  BY <1>4 DEF Fails
<1>5. ASSUME NEW p \in Procs, Listen(p) \/ Disconnect(p) PROVE ~silent'[u]
  BY <1>5 DEF Listen, Disconnect
<1>6. ASSUME NEW p \in Procs, Crash(p) PROVE ~silent'[u]
  BY <1>6, SyncConstants DEF Crash
<1>. QED BY <1>1, <1>2, <1>3, <1>4, <1>5, <1>6 DEF Next

\* Loading, swapping and notifying: a refresh that notifies leaves the tellers
\* with its last step, one that does not only goes on.
LEMMA RunDescends ==
    ASSUME TypeOK, SwappedTells, NEW t \in Tasks, Run(t)
    PROVE  \/ Tellers' \subseteq Tellers /\ Tellers' # Tellers
           \/ /\ Tellers' = Tellers /\ notices' = notices
              /\ Falls(StepsLeft', StepsLeft, Tasks)
<1>1. CASE Load(t)
  <2>1. Tellers' = Tellers BY <1>1 DEF Load, Tellers, TypeOK
  <2>2. stage[t] = "called" /\ stage' = [stage EXCEPT ![t] = "loaded"]
    BY <1>1 DEF Load
  <2>3. StepsOf["loaded"] < StepsOf[stage[t]] BY <2>2 DEF StepsOf
  <2>4. Falls(StepsLeft', StepsLeft, Tasks)
    BY <2>2, <2>3, TaskFalls
  <2>. QED BY <1>1, <2>1, <2>4 DEF Load
<1>2. CASE Swap(t)
  <2>1. Tellers' = Tellers BY <1>2 DEF Swap, Tellers, TypeOK
  <2>2. PICK place \in {"idle", "swapped"} :
            stage' = [stage EXCEPT ![t] = place]
    BY <1>2 DEF Swap
  <2>3. StepsOf[place] < StepsOf[stage[t]] BY <1>2, <2>2 DEF Swap, StepsOf
  <2>4. Falls(StepsLeft', StepsLeft, Tasks)
    BY <2>2, <2>3, TaskFalls
  <2>. QED BY <1>2, <2>1, <2>4 DEF Swap
<1>3. CASE Notify(t)
  <2>1. ~silent[t] BY <1>3 DEF Notify, SwappedTells
  <2>2. t \in Tellers /\ t \notin Tellers' /\ Tellers' \subseteq Tellers
    BY <1>3, <2>1 DEF Notify, Tellers, TypeOK
  <2>. QED BY <2>2
<1>. QED BY <1>1, <1>2, <1>3 DEF Run

\* A notification starts a refresh that will send none.
LEMMA DeliverDescends ==
    ASSUME TypeOK, NEW t \in Tasks, Deliver(t)
    PROVE  Tellers' = Tellers /\ Falls(notices', notices, Procs)
<1>1. Tellers' = Tellers BY DEF Deliver, Tellers, TypeOK
<1>2. Owner[t] \in Procs BY SyncConstants
<1>3. notices'[Owner[t]] < notices[Owner[t]]
  BY <1>2 DEF Deliver, TypeOK
<1>4. \A p \in Procs : notices'[p] <= notices[p]
  BY DEF Deliver, TypeOK
<1>. QED BY <1>1, <1>2, <1>3, <1>4 DEF Falls

\* No echo of a notification: between two changes or faults the refreshes run
\* down, whatever overlaps and however many notifications are on their way,
\* because a refresh that answers one sends none (skipBroadcast).
THEOREM NoEcho == Spec => RefreshesRunDown
<1> DEFINE Descends ==
        \/ version' > version \/ faults' > faults
        \/ Tellers' \subseteq Tellers /\ Tellers' # Tellers
        \/ /\ Tellers' = Tellers
           /\ \/ Falls(notices', notices, Procs)
              \/ notices' = notices /\ Falls(StepsLeft', StepsLeft, Tasks)
              \/ /\ UNCHANGED <<notices, StepsLeft>>
                 /\ \A p \in Procs : listening[p] => listening'[p]
                 /\ \E p \in Procs : listening'[p] # listening[p]
<1>1. ASSUME TypeOK, SwappedTells, Next PROVE Descends
  <2>. USE <1>1
  <2>1. ASSUME NEW t \in Tasks, Change(t) PROVE version' > version
    BY <2>1 DEF Change, TypeOK
  <2>2. ASSUME NEW t \in Tasks, Run(t)
        PROVE  \/ Tellers' \subseteq Tellers /\ Tellers' # Tellers
               \/ /\ Tellers' = Tellers /\ notices' = notices
                  /\ Falls(StepsLeft', StepsLeft, Tasks)
    BY <2>2, RunDescends
  <2>3. ASSUME NEW t \in Tasks, Deliver(t)
        PROVE  Tellers' = Tellers /\ Falls(notices', notices, Procs)
    BY <2>3, DeliverDescends
  <2>4. ASSUME Fault PROVE faults' > faults BY <2>4 DEF Fault, TypeOK
  <2>5. ASSUME NEW p \in Procs, Listen(p)
        PROVE  /\ Tellers' = Tellers /\ UNCHANGED <<notices, StepsLeft>>
               /\ \A q \in Procs : listening[q] => listening'[q]
               /\ \E q \in Procs : listening'[q] # listening[q]
    BY <2>5 DEF Listen, Tellers, StepsLeft, TypeOK
  <2>. HIDE <1>1
  <2>. QED BY <1>1, <2>1, <2>2, <2>3, <2>4, <2>5
       DEF Next, Fails, Disconnect, Crash
<1>2. TypeOK /\ SwappedTells /\ [Next]_vars => [Descends]_vars
  BY <1>1
<1>3. Spec => Init /\ [][Next]_vars BY DEF Spec
<1>. QED
  BY <1>2, <1>3, InitTypes, NextTypes, SwappedInit, SwappedStep, PTL
  DEF RefreshesRunDown
=============================================================================
