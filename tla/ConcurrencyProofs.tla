-------------------------- MODULE ConcurrencyProofs --------------------------
(***************************************************************************)
(* For every finite set of requests, every candidate list and every limit: *)
(* both semaphore counters agree with the requests in flight, the queue of *)
(* a package lock holds exactly the requests asleep in it, and no request  *)
(* is ever set back on its way to its end.                                 *)
(***************************************************************************)
EXTENDS ConcurrencySlots, FiniteSetTheorems,
        SequenceTheorems, TLAPS

\* A request that counts in, or waits for, a package slot has a limited
\* rule; one that is being limited has a rule.
PlacesMatchRules ==
    \A r \in Requests :
        /\ pc[r] = "limiting" => LockOf[r] \in Locks
        /\ pc[r] \in {"pkgGranted", "pkgQueued", "pkgWoken"} => Limited(r)

\* The queue, element by element.
QueueInv ==
    \A l \in Locks :
        /\ \A i \in 1..Len(waiters[l]) :
             pc[waiters[l][i]] = "pkgQueued" /\ LockOf[waiters[l][i]] = l
        /\ \A i, j \in 1..Len(waiters[l]) :
             waiters[l][i] = waiters[l][j] => i = j
        /\ \A r \in Requests : pc[r] = "pkgQueued" /\ LockOf[r] = l =>
             \E i \in 1..Len(waiters[l]) : waiters[l][i] = r

KeyCount(s) == active[s] = Cardinality(Holders(s)) + leaked[s]
PkgCount(l) == pkgActive[l] = Cardinality(PkgHolders(l))

Balanced ==
    /\ \A s \in Slots : KeyCount(s)
    /\ \A l \in Locks : PkgCount(l)
Counts == ~doubled => Balanced

IInv == TypeOK /\ PlacesMatchRules /\ QueueInv /\ Counts

-----------------------------------------------------------------------------
LEMMA HoldersFinite ==
    /\ \A s : IsFiniteSet(Holders(s)) /\ Cardinality(Holders(s)) \in Nat
    /\ \A l : IsFiniteSet(PkgHolders(l)) /\ Cardinality(PkgHolders(l)) \in Nat
<1>1. ASSUME NEW T \in SUBSET Requests
      PROVE  IsFiniteSet(T) /\ Cardinality(T) \in Nat
  BY SlotConstants, FS_Subset, FS_CardinalityType
<1>. QED BY <1>1 DEF Holders, PkgHolders

-----------------------------------------------------------------------------
LEMMA InitInv == Init => IInv
<1>. SUFFICES ASSUME Init PROVE IInv
  OBVIOUS
<1>1. /\ (CHOOSE s \in Slots : TRUE) \in Slots
      /\ (CHOOSE k \in Keys : TRUE) \in Keys
  <2>1. PICK c \in Channels : TRUE BY SlotConstants
  <2>2. <<c, 1>> \in Slots BY SlotConstants DEF Slots
  <2>. QED BY <2>2, SlotConstants
<1>2. TypeOK
  <2>1. doubled \in BOOLEAN BY DEF Init
  <2>. QED BY <1>1, <2>1 DEF Init, TypeOK, Places
<1>3. PlacesMatchRules /\ QueueInv
  BY DEF Init, PlacesMatchRules, QueueInv
<1>4. \A s : Holders(s) = {}
  BY DEF Init, Holders, Holding
<1>5. \A l : PkgHolders(l) = {}
  BY DEF Init, PkgHolders, PkgHolding
<1>6. Cardinality({}) = 0
  BY FS_EmptySet
<1>7. ASSUME NEW s \in Slots PROVE KeyCount(s)
  <2>1. active[s] = 0 /\ leaked[s] = 0 BY DEF Init
  <2>2. Cardinality(Holders(s)) = 0 BY <1>4, <1>6
  <2>. QED BY <2>1, <2>2 DEF KeyCount
<1>8. \A l \in Locks : PkgCount(l)
  BY <1>5, <1>6 DEF Init, PkgCount
<1>. QED BY <1>2, <1>3, <1>7, <1>8 DEF IInv, Counts, Balanced

-----------------------------------------------------------------------------
\* Lemmas about a step of one request that wakes nobody.

Alone(r) == \A q \in Requests \ {r} : pc'[q] = pc[q] /\ slot'[q] = slot[q]

LEMMA QueueUntouched ==
    ASSUME TypeOK, TypeOK', QueueInv, NEW r \in Requests, Alone(r),
           waiters' = waiters, pc[r] # "pkgQueued", pc'[r] # "pkgQueued"
    PROVE  QueueInv'
<1>1. ASSUME NEW l \in Locks, NEW i \in 1..Len(waiters[l])
      PROVE  /\ waiters[l][i] \in Requests \ {r}
             /\ pc'[waiters[l][i]] = "pkgQueued"
             /\ LockOf[waiters[l][i]] = l
  <2>1. waiters[l] \in Seq(Requests) BY DEF TypeOK
  <2>2. waiters[l][i] \in Requests BY <2>1, ElementOfSeq
  <2>3. pc[waiters[l][i]] = "pkgQueued" /\ LockOf[waiters[l][i]] = l
    BY DEF QueueInv
  <2>. QED BY <2>2, <2>3 DEF Alone
<1>2. ASSUME NEW l \in Locks, NEW q \in Requests,
             pc'[q] = "pkgQueued", LockOf[q] = l
      PROVE  \E i \in 1..Len(waiters[l]) : waiters[l][i] = q
  BY <1>2 DEF QueueInv, Alone
<1>. QED BY <1>1, <1>2 DEF QueueInv

\* The request neither starts nor stops holding a slot.
LEMMA SameHolders ==
    ASSUME TypeOK, TypeOK', NEW r \in Requests, Alone(r),
           pc[r] \in Holding <=> pc'[r] \in Holding,
           pc[r] \in Holding => slot'[r] = slot[r],
           Limited(r) => (pc[r] \in PkgHolding <=> pc'[r] \in PkgHolding)
    PROVE  /\ \A s : Holders(s)' = Holders(s)
           /\ \A l : PkgHolders(l)' = PkgHolders(l)
BY DEF Holders, PkgHolders, Alone, Limited

LEMMA CountsKept ==
    ASSUME IInv, TypeOK', NEW r \in Requests, Alone(r),
           pc[r] \in Holding <=> pc'[r] \in Holding,
           pc[r] \in Holding => slot'[r] = slot[r],
           Limited(r) => (pc[r] \in PkgHolding <=> pc'[r] \in PkgHolding),
           active' = active, pkgActive' = pkgActive, UNCHANGED history
    PROVE  Counts'
<1>1. /\ \A s : Holders(s)' = Holders(s)
      /\ \A l : PkgHolders(l)' = PkgHolders(l)
  BY SameHolders DEF IInv
<1>2. Balanced => Balanced'
  BY <1>1 DEF Balanced, KeyCount, PkgCount, history
<1>3. doubled' = doubled BY DEF history
<1>. QED BY <1>2, <1>3, Zenon DEF IInv, Counts

\* A step between two places that hold nothing of a package.
LEMMA QuietStep ==
    ASSUME IInv, TypeOK', NEW r \in Requests, Alone(r),
           pc[r] \in Holding <=> pc'[r] \in Holding,
           pc[r] \in Holding => slot'[r] = slot[r],
           Limited(r) => (pc[r] \in PkgHolding <=> pc'[r] \in PkgHolding),
           active' = active, UNCHANGED <<history, package>>,
           pc[r] # "pkgQueued",
           pc'[r] \notin {"limiting", "pkgGranted", "pkgQueued", "pkgWoken"}
    PROVE  IInv'
<1>1. QueueInv' BY QueueUntouched DEF IInv, package
<1>2. Counts' BY CountsKept DEF package
<1>3. PlacesMatchRules'
  BY DEF IInv, PlacesMatchRules, Alone, Limited
<1>. QED BY <1>1, <1>2, <1>3 DEF IInv

-----------------------------------------------------------------------------
LEMMA RankInRange ==
    ASSUME NEW r \in Requests, NEW c \in Channels, NEW i \in Enabled(r, c),
           KeysOf[c] \in Seq(Keys), Len(KeysOf[c]) <= MaxKeys
    PROVE  Rank(r, c, i) \in 1..MaxKeys
<1>. DEFINE n == Len(KeysOf[c])
            S == {j \in Enabled(r, c) : j <= i}
<1>1. n \in Nat /\ MaxKeys \in Nat
  BY SlotConstants
<1>2. IsFiniteSet(1..n) /\ Cardinality(1..n) <= n
  <2>. HIDE DEF n
  <2>1. 1 \in Int /\ n \in Int BY <1>1
  <2>2. /\ IsFiniteSet(1..n)
        /\ Cardinality(1..n) = IF 1 > n THEN 0 ELSE n - 1 + 1
    BY <2>1, FS_Interval, Zenon
  <2>. QED BY <1>1, <2>2
<1>3. S \in SUBSET (1..n) /\ i \in S
  BY DEF Enabled
<1>4. IsFiniteSet(S) /\ Cardinality(S) <= n
  <2>1. IsFiniteSet(S) /\ Cardinality(S) <= Cardinality(1..n)
    BY <1>2, <1>3, FS_Subset
  <2>2. Cardinality(S) \in Nat /\ Cardinality(1..n) \in Nat
    BY <1>2, <2>1, FS_CardinalityType
  <2>. QED BY <1>1, <1>2, <2>1, <2>2
<1>5. Cardinality(S) \in Nat /\ Cardinality(S) # 0
  BY <1>3, <1>4, FS_CardinalityType, FS_EmptySet
<1>. QED BY <1>1, <1>4, <1>5 DEF Rank

LEMMA ChoosingStep ==
    ASSUME IInv, NEW r \in Requests,
           \/ Start(r) \/ GiveUpAll(r) \/ SkipChannel(r) \/ ChooseKey(r)
           \/ PollSucceeds(r) \/ PollFails(r) \/ GiveUpSlot(r)
    PROVE  IInv'
<1>. USE DEF Holding, PkgHolding, package, choice, Goto, history
<1>1. CASE Start(r)
  <2>1. TypeOK' BY <1>1 DEF IInv, Start, TypeOK, Places
  <2>2. pc[r] = "new" /\ pc'[r] = "choosing" /\ Alone(r)
    BY <1>1 DEF IInv, Start, TypeOK, Alone
  <2>. QED BY <1>1, <2>1, <2>2, QuietStep DEF Start
<1>2. CASE GiveUpAll(r)
  <2>1. TypeOK' BY <1>2 DEF IInv, GiveUpAll, TypeOK, Places, Closed
  <2>2. pc[r] = "choosing" /\ pc'[r] = "failed" /\ Alone(r)
    BY <1>2 DEF IInv, GiveUpAll, TypeOK, Alone
  <2>. QED BY <1>2, <2>1, <2>2, QuietStep DEF GiveUpAll
<1>3. CASE SkipChannel(r)
  <2>1. TypeOK' BY <1>3 DEF IInv, SkipChannel, TypeOK, Places
  <2>2. pc[r] = "choosing" /\ pc'[r] = "choosing" /\ Alone(r)
    BY <1>3 DEF IInv, SkipChannel, TypeOK, Alone
  <2>. QED BY <1>3, <2>1, <2>2, QuietStep DEF SkipChannel
<1>4. CASE ChooseKey(r)
  <2>. DEFINE c == Candidates[r][next[r]]
  <2>0. c \in Channels
    <3>1. Candidates[r] \in Seq(Channels) BY SlotConstants
    <3>2. next[r] \in 1..Len(Candidates[r])
      BY <1>4, <3>1 DEF IInv, TypeOK, ChooseKey
    <3>. QED BY <3>1, <3>2, ElementOfSeq
  <2>1. PICK i \in Enabled(r, c) :
          /\ slot' = [slot EXCEPT ![r] = <<c, Rank(r, c, i)>>]
          /\ key' = [key EXCEPT ![r] = KeysOf[c][i]]
          /\ pc' = [pc EXCEPT ![r] = IF KeyLimit[c] > 0 THEN "polling"
                                                        ELSE "granted"]
    BY <1>4 DEF ChooseKey
  <2>2. KeysOf[c] \in Seq(Keys) /\ Len(KeysOf[c]) <= MaxKeys
    BY <2>0, SlotConstants
  <2>3. KeysOf[c][i] \in Keys /\ <<c, Rank(r, c, i)>> \in Slots
    <3>1. i \in 1..Len(KeysOf[c]) BY <2>1 DEF Enabled
    <3>2. KeysOf[c][i] \in Keys BY <2>2, <3>1, ElementOfSeq
    <3>3. Rank(r, c, i) \in 1..MaxKeys
      BY <2>0, <2>1, <2>2, RankInRange
    <3>. QED BY <2>0, <3>2, <3>3 DEF Slots
  <2>4. TypeOK'
    BY <1>4, <2>1, <2>3 DEF IInv, ChooseKey, TypeOK, Places, Waiting
  <2>5. pc[r] = "choosing" /\ pc'[r] \in {"polling", "granted"} /\ Alone(r)
    BY <1>4, <2>1 DEF IInv, ChooseKey, TypeOK, Alone
  <2>. QED BY <1>4, <2>4, <2>5, QuietStep DEF ChooseKey
<1>5. CASE PollSucceeds(r)
  <2>1. TypeOK' BY <1>5 DEF IInv, PollSucceeds, TypeOK, Places
  <2>2. pc[r] \in {"polling", "waiting"} /\ pc'[r] = "granted" /\ Alone(r)
    BY <1>5 DEF IInv, PollSucceeds, TypeOK, Alone
  <2>. QED BY <1>5, <2>1, <2>2, QuietStep DEF PollSucceeds
<1>6. CASE PollFails(r)
  <2>1. TypeOK' BY <1>6 DEF IInv, PollFails, TypeOK, Places, Waiting
  <2>2. pc[r] = "polling" /\ pc'[r] = "waiting" /\ Alone(r)
    BY <1>6 DEF IInv, PollFails, TypeOK, Alone
  <2>. QED BY <1>6, <2>1, <2>2, QuietStep DEF PollFails
<1>7. CASE GiveUpSlot(r)
  <2>1. TypeOK' BY <1>7 DEF IInv, GiveUpSlot, TypeOK, Places
  <2>2. pc[r] = "waiting" /\ pc'[r] = "choosing" /\ Alone(r)
    BY <1>7 DEF IInv, GiveUpSlot, TypeOK, Alone
  <2>. QED BY <1>7, <2>1, <2>2, QuietStep DEF GiveUpSlot
<1>. QED BY <1>1, <1>2, <1>3, <1>4, <1>5, <1>6, <1>7
-----------------------------------------------------------------------------
\* Lemmas about counting one holder more or less.

LEMMA OneMore ==
    ASSUME NEW S, NEW T, NEW x, IsFiniteSet(S), x \notin S, T = S \cup {x}
    PROVE  Cardinality(T) = Cardinality(S) + 1
BY FS_AddElement

LEMMA OneLess ==
    ASSUME NEW S, NEW T, NEW x, IsFiniteSet(S), x \in S, T = S \ {x}
    PROVE  Cardinality(S) = Cardinality(T) + 1
<1>1. IsFiniteSet(T) /\ x \notin T /\ S = T \cup {x}
  BY FS_RemoveElement
<1>. QED BY <1>1, OneMore

LEMMA AcquireStep ==
    ASSUME IInv, NEW r \in Requests, Acquire(r)
    PROVE  IInv'
<1>. DEFINE s0 == slot[r]
<1>0. s0 \in Slots /\ pc[r] = "granted" /\ Alone(r)
  BY DEF IInv, TypeOK, Acquire, Goto, Alone, choice
<1>1. TypeOK'
  BY DEF IInv, TypeOK, Acquire, Goto, package, choice, history, Places, Holding
<1>2. pc'[r] = IF LockOf[r] = NoLock THEN "calling" ELSE "limiting"
  BY DEF IInv, TypeOK, Acquire, Goto
<1>3. QueueInv'
  BY <1>0, <1>1, <1>2, QueueUntouched DEF IInv, Acquire, package
<1>4. PlacesMatchRules'
  <2>1. LockOf[r] # NoLock => LockOf[r] \in Locks BY SlotConstants
  <2>. QED
    BY <1>0, <1>2, <2>1 DEF IInv, PlacesMatchRules, Alone, Limited
<1>5. /\ r \notin Holders(s0)
      /\ Holders(s0)' = Holders(s0) \cup {r}
      /\ \A s \in Slots \ {s0} : Holders(s)' = Holders(s)
  BY <1>0, <1>2 DEF Holders, Holding, Alone, Acquire, choice
<1>6. \A l \in Locks : PkgHolders(l)' = PkgHolders(l)
  <2>1. LockOf[r] = NoLock => ~Limited(r) BY SlotConstants DEF Limited
  <2>. QED BY <1>0, <1>2, <2>1 DEF PkgHolders, PkgHolding, Alone, Limited
<1>7. Counts'
  <2>0. doubled' = doubled BY DEF Acquire, history
  <2>1. SUFFICES ASSUME ~doubled PROVE Balanced'
    BY <2>0, Zenon DEF Counts
  <2>2. KeyCount(s0)'
    <3>1. Cardinality(Holders(s0)') = Cardinality(Holders(s0)) + 1
      BY <1>5, HoldersFinite, OneMore
    <3>2. /\ active'[s0] = active[s0] + 1 /\ leaked'[s0] = leaked[s0]
          /\ active[s0] \in Nat /\ leaked[s0] \in Nat /\ s0' = s0
      BY <1>0 DEF IInv, TypeOK, Acquire, choice, history
    <3>3. active[s0] = Cardinality(Holders(s0)) + leaked[s0]
      BY <1>0, <2>1 DEF IInv, Counts, Balanced, KeyCount
    <3>. QED BY <3>1, <3>2, <3>3, HoldersFinite DEF KeyCount
  <2>3. \A s \in Slots \ {s0} : KeyCount(s)'
    BY <1>0, <1>5, <2>1 DEF IInv, TypeOK, Counts, Balanced, KeyCount, Acquire, history
  <2>4. \A l \in Locks : PkgCount(l)'
    BY <1>6, <2>1 DEF IInv, Counts, Balanced, PkgCount, Acquire, package
  <2>5. s0' = s0 BY DEF Acquire, choice
  <2>6. ASSUME NEW s \in Slots PROVE KeyCount(s)'
    BY <2>2, <2>3, <2>5 DEF KeyCount
  <2>. QED BY <2>4, <2>6 DEF Balanced
<1>. QED BY <1>1, <1>3, <1>4, <1>7 DEF IInv

LEMMA PrepareThrowsStep ==
    ASSUME IInv, NEW r \in Requests, PrepareThrows(r)
    PROVE  IInv'
<1>. DEFINE s0 == slot[r]
<1>0. s0 \in Slots /\ pc[r] = "granted" /\ Alone(r) /\ pc'[r] = "aborted"
  BY DEF IInv, TypeOK, PrepareThrows, Goto, Alone, choice
<1>1. TypeOK'
  BY <1>0 DEF IInv, TypeOK, PrepareThrows, Goto, package, choice, Places, Closed
<1>2. QueueInv'
  BY <1>0, <1>1, QueueUntouched DEF IInv, PrepareThrows, package
<1>3. PlacesMatchRules'
  BY <1>0 DEF IInv, PlacesMatchRules, Alone, Limited
<1>4. /\ \A s : Holders(s)' = Holders(s)
      /\ \A l : PkgHolders(l)' = PkgHolders(l)
  BY <1>0, <1>1, SameHolders
     DEF IInv, Holding, PkgHolding, PrepareThrows, choice
<1>5. Counts'
  <2>0. doubled' = doubled BY DEF PrepareThrows
  <2>1. SUFFICES ASSUME ~doubled PROVE Balanced'
    BY <2>0, Zenon DEF Counts
  <2>2. ASSUME NEW s \in Slots PROVE KeyCount(s)'
    <3>1. active[s] = Cardinality(Holders(s)) + leaked[s]
      BY <2>1 DEF IInv, Counts, Balanced, KeyCount
    <3>2. active[s] \in Nat /\ leaked[s] \in Nat
      BY DEF IInv, TypeOK
    <3>3. CASE s = s0
      BY <1>4, <3>1, <3>2, <3>3, HoldersFinite
         DEF KeyCount, PrepareThrows, IInv, TypeOK
    <3>4. CASE s # s0
      BY <1>4, <3>1, <3>4 DEF KeyCount, PrepareThrows, IInv, TypeOK
    <3>. QED BY <3>3, <3>4
  <2>3. \A l \in Locks : PkgCount(l)'
    BY <1>4, <2>1 DEF IInv, Counts, Balanced, PkgCount, PrepareThrows, package
  <2>. QED BY <2>2, <2>3 DEF Balanced
<1>. QED BY <1>1, <1>2, <1>3, <1>5 DEF IInv

\* A request that aborts after the increment is one holder less and one
\* leak more.
LEMMA AbortCounts ==
    ASSUME IInv, TypeOK', NEW r \in Requests, Abort(r),
           pc[r] \in {"limiting", "pkgQueued"},
           active' = active, pkgActive' = pkgActive, slot' = slot
    PROVE  Counts' /\ PlacesMatchRules' /\ Alone(r)
<1>. DEFINE s0 == slot[r]
<1>0. s0 \in Slots /\ Alone(r) /\ pc'[r] = "aborted"
  BY DEF IInv, TypeOK, Abort, Goto, Alone
<1>1. PlacesMatchRules'
  BY <1>0 DEF IInv, PlacesMatchRules, Alone, Limited
<1>2. /\ r \in Holders(s0)
      /\ Holders(s0)' = Holders(s0) \ {r}
      /\ \A s \in Slots \ {s0} : Holders(s)' = Holders(s)
      /\ \A l \in Locks : PkgHolders(l)' = PkgHolders(l)
  BY <1>0 DEF Holders, PkgHolders, Holding, PkgHolding, Alone, Limited
<1>3. Counts'
  <2>0. doubled' = doubled BY DEF Abort
  <2>1. SUFFICES ASSUME ~doubled PROVE Balanced'
    BY <2>0, Zenon DEF Counts
  <2>2. ASSUME NEW s \in Slots PROVE KeyCount(s)'
    <3>1. active[s] = Cardinality(Holders(s)) + leaked[s]
      BY <2>1 DEF IInv, Counts, Balanced, KeyCount
    <3>2. active[s] \in Nat /\ leaked[s] \in Nat
      BY DEF IInv, TypeOK
    <3>3. CASE s = s0
      <4>1. Cardinality(Holders(s)) = Cardinality(Holders(s)') + 1
        BY <1>2, <3>3, HoldersFinite, OneLess
      <4>2. leaked'[s] = leaked[s] + 1
        BY <3>3 DEF Abort, IInv, TypeOK
      <4>3. Cardinality(Holders(s)') \in Nat
        <5>1. Holders(s)' = Holders(s) \ {r} BY <1>2, <3>3
        <5>. QED BY <5>1, HoldersFinite, FS_RemoveElement, FS_CardinalityType
      <4>. QED BY <3>1, <3>2, <4>1, <4>2, <4>3 DEF KeyCount
    <3>4. CASE s # s0
      BY <1>2, <3>1, <3>4 DEF KeyCount, Abort, IInv, TypeOK
    <3>. QED BY <3>3, <3>4
  <2>3. \A l \in Locks : PkgCount(l)'
    BY <1>2, <2>1 DEF IInv, Counts, Balanced, PkgCount
  <2>. QED BY <2>2, <2>3 DEF Balanced
<1>. QED BY <1>0, <1>1, <1>3

LEMMA PackageTimeoutStep ==
    ASSUME IInv, NEW r \in Requests, PackageTimeout(r)
    PROVE  IInv'
<1>. DEFINE l0 == LockOf[r]
            q == waiters[l0]
<1>0. /\ pc[r] = "pkgQueued" /\ l0 \in Locks
      /\ active' = active /\ pkgActive' = pkgActive /\ slot' = slot
  BY DEF IInv, PlacesMatchRules, Limited, PackageTimeout, choice
<1>1. PICK i \in 1..Len(q) :
        q[i] = r /\ waiters' = [waiters EXCEPT ![l0] = Splice(q, i)]
  BY <1>0 DEF PackageTimeout, IInv, TypeOK
<1>2. /\ q \in Seq(Requests) /\ Len(q) \in Nat
      /\ \A j \in 1..Len(q) : q[j] \in Requests
  <2>1. q \in Seq(Requests) BY <1>0 DEF IInv, TypeOK
  <2>. QED BY <2>1, ElementOfSeq, LenProperties
<1>3. /\ Splice(q, i) \in Seq(Requests)
      /\ Len(Splice(q, i)) = Len(q) - 1
      /\ \A j \in 1..(Len(q) - 1) :
           Splice(q, i)[j] = IF j < i THEN q[j] ELSE q[j + 1]
  <2>. HIDE DEF q
  <2>1. Len(q) - 1 \in Nat /\ i \in 1..Len(q) BY <1>1, <1>2
  <2>2. Splice(q, i) \in [1..(Len(q) - 1) -> Requests]
    BY <1>2, <2>1 DEF Splice
  <2>3. Splice(q, i) \in Seq(Requests) /\ Len(Splice(q, i)) = Len(q) - 1
    BY <2>1, <2>2
  <2>. QED BY <2>3 DEF Splice
<1>4. TypeOK'
  <2>1. waiters' \in [Locks -> Seq(Requests)]
    BY <1>1, <1>3 DEF IInv, TypeOK
  <2>2. pc' \in [Requests -> Places] /\ leaked' \in [Slots -> Nat]
    <3>1. slot[r] \in Slots BY DEF IInv, TypeOK
    <3>2. leaked[slot[r]] + 1 \in Nat BY <3>1 DEF IInv, TypeOK
    <3>3. leaked' \in [Slots -> Nat]
      BY <3>1, <3>2 DEF IInv, TypeOK, PackageTimeout, Abort
    <3>4. pc' \in [Requests -> Places]
      BY DEF IInv, TypeOK, PackageTimeout, Abort, Goto, Places, Closed
    <3>. QED BY <3>3, <3>4
  <2>. QED BY <1>0, <2>1, <2>2 DEF IInv, TypeOK, PackageTimeout, choice, Abort
<1>5. Counts' /\ PlacesMatchRules' /\ Alone(r) /\ pc'[r] = "aborted"
  BY <1>0, <1>4, AbortCounts DEF PackageTimeout, Abort, Goto, IInv, TypeOK
<1>6. QueueInv'
  <2>1. ASSUME NEW l \in Locks, l # l0, NEW j \in 1..Len(waiters[l])
        PROVE  waiters[l][j] \in Requests \ {r}
    <3>1. waiters[l] \in Seq(Requests) BY DEF IInv, TypeOK
    <3>2. waiters[l][j] \in Requests BY <3>1, ElementOfSeq
    <3>. QED BY <2>1, <3>2 DEF IInv, QueueInv
  <2>2. ASSUME NEW l \in Locks, l # l0
        PROVE  waiters'[l] = waiters[l]
    BY <1>1, <2>2 DEF IInv, TypeOK
  <2>3. waiters'[l0] = Splice(q, i)
    BY <1>0, <1>1 DEF IInv, TypeOK
  <2>4. \A j \in 1..Len(q) : j # i => q[j] \in Requests \ {r}
    BY <1>0, <1>1, <1>2 DEF IInv, QueueInv
  <2>5. ASSUME NEW l \in Locks, NEW j \in 1..Len(waiters'[l])
        PROVE  /\ pc'[waiters'[l][j]] = "pkgQueued"
               /\ LockOf[waiters'[l][j]] = l
    <3>1. CASE l # l0
      BY <2>1, <2>2, <2>5, <3>1, <1>5 DEF IInv, QueueInv, Alone
    <3>2. CASE l = l0
      <4>1. PICK k \in 1..Len(q) : k # i /\ waiters'[l][j] = q[k]
        <5>1. CASE j < i
          BY <1>1, <1>2, <1>3, <2>3, <2>5, <3>2, <5>1
        <5>2. CASE j >= i
          <6>1. j + 1 \in 1..Len(q) /\ j + 1 # i
            BY <1>1, <1>2, <1>3, <2>3, <2>5, <3>2, <5>2
          <6>2. waiters'[l][j] = q[j + 1]
            BY <1>1, <1>2, <1>3, <2>3, <2>5, <3>2, <5>2, SMTT(60)
          <6>. QED BY <6>1, <6>2
        <5>. QED BY <1>1, <1>2, <1>3, <2>3, <2>5, <3>2, <5>1, <5>2
      <4>2. pc[q[k]] = "pkgQueued" /\ LockOf[q[k]] = l0
        BY <1>0 DEF IInv, QueueInv
      <4>. QED BY <1>5, <2>4, <3>2, <4>1, <4>2 DEF Alone
    <3>. QED BY <3>1, <3>2
  <2>6. ASSUME NEW l \in Locks, NEW j \in 1..Len(waiters'[l]),
               NEW k \in 1..Len(waiters'[l]), waiters'[l][j] = waiters'[l][k]
        PROVE  j = k
    <3>1. CASE l # l0
      BY <2>2, <2>6, <3>1 DEF IInv, QueueInv
    <3>2. CASE l = l0
      <4>1. \A x, y \in 1..Len(q) : q[x] = q[y] => x = y
        BY <1>0 DEF IInv, QueueInv
      <4>2. j \in 1..(Len(q) - 1) /\ k \in 1..(Len(q) - 1)
        BY <1>3, <2>3, <3>2
      <4>3. /\ Splice(q, i)[j] = IF j < i THEN q[j] ELSE q[j + 1]
            /\ Splice(q, i)[k] = IF k < i THEN q[k] ELSE q[k + 1]
            /\ Splice(q, i)[j] = Splice(q, i)[k]
        BY <1>3, <2>3, <2>6, <3>2, <4>2
      <4>. HIDE DEF q
      <4>. QED BY <1>1, <1>2, <4>1, <4>2, <4>3
    <3>. QED BY <3>1, <3>2
  <2>7. ASSUME NEW l \in Locks, NEW p \in Requests,
               pc'[p] = "pkgQueued", LockOf[p] = l
        PROVE  \E j \in 1..Len(waiters'[l]) : waiters'[l][j] = p
    <3>1. p # r /\ pc[p] = "pkgQueued"
      BY <1>5, <2>7 DEF Alone
    <3>2. CASE l # l0
      BY <2>2, <2>7, <3>1, <3>2 DEF IInv, QueueInv
    <3>3. CASE l = l0
      <4>1. PICK k \in 1..Len(q) : q[k] = p
        BY <2>7, <3>1, <3>3 DEF IInv, QueueInv
      <4>2. k # i BY <1>1, <3>1, <4>1
      <4>. DEFINE j == IF k < i THEN k ELSE k - 1
      <4>. HIDE DEF q
      <4>3. j \in 1..(Len(q) - 1) /\ Splice(q, i)[j] = q[k]
        BY <1>1, <1>2, <1>3, <4>1, <4>2
      <4>. QED BY <1>3, <2>3, <3>3, <4>1, <4>3
    <3>. QED BY <3>2, <3>3
  <2>. QED BY <2>5, <2>6, <2>7 DEF QueueInv
<1>. QED BY <1>4, <1>5, <1>6 DEF IInv

LEMMA LimitingStep ==
    ASSUME IInv, NEW r \in Requests,
           PackageRateLimited(r) \/ PackageUnlimited(r) \/ PackageRoom(r)
    PROVE  IInv'
<1>. USE DEF package, choice, Goto, history
<1>1. CASE PackageRateLimited(r)
  <2>1. TypeOK'
    <3>1. slot[r] \in Slots BY DEF IInv, TypeOK
    <3>2. leaked[slot[r]] + 1 \in Nat BY <3>1 DEF IInv, TypeOK
    <3>. QED BY <1>1, <3>1, <3>2
      DEF IInv, TypeOK, PackageRateLimited, Abort, Places, Closed
  <2>2. Counts' /\ PlacesMatchRules' /\ Alone(r)
    BY <1>1, <2>1, AbortCounts DEF PackageRateLimited
  <2>3. pc[r] = "limiting" /\ pc'[r] = "aborted"
    BY <1>1 DEF PackageRateLimited, Abort, IInv, TypeOK
  <2>4. QueueInv'
    BY <1>1, <2>1, <2>2, <2>3, QueueUntouched DEF IInv, PackageRateLimited
  <2>. QED BY <2>1, <2>2, <2>4 DEF IInv
<1>2. CASE PackageUnlimited(r)
  <2>1. TypeOK'
    BY <1>2 DEF IInv, TypeOK, PackageUnlimited, Places, Holding
  <2>2. pc[r] = "limiting" /\ pc'[r] = "calling" /\ Alone(r) /\ ~Limited(r)
    BY <1>2 DEF PackageUnlimited, IInv, TypeOK, Alone
  <2>. QED BY <1>2, <2>1, <2>2, QuietStep DEF PackageUnlimited, Holding
<1>3. CASE PackageRoom(r)
  <2>1. TypeOK'
    BY <1>3 DEF IInv, TypeOK, PackageRoom, Places, Holding
  <2>2. /\ pc[r] = "limiting" /\ pc'[r] = "pkgGranted" /\ Alone(r)
        /\ Limited(r)
    BY <1>3 DEF PackageRoom, IInv, TypeOK, Alone
  <2>3. QueueInv'
    BY <1>3, <2>1, <2>2, QueueUntouched DEF IInv, PackageRoom
  <2>4. Counts'
    BY <1>3, <2>1, <2>2, CountsKept DEF PackageRoom, Holding, PkgHolding
  <2>5. PlacesMatchRules'
    BY <2>2 DEF IInv, PlacesMatchRules, Alone, Limited
  <2>. QED BY <2>1, <2>3, <2>4, <2>5 DEF IInv
<1>. QED BY <1>1, <1>2, <1>3

LEMMA PackageQueueStep ==
    ASSUME IInv, NEW r \in Requests, PackageQueue(r)
    PROVE  IInv'
<1>. USE DEF package, choice, Goto, history
<1>. DEFINE l0 == LockOf[r]
            q == waiters[l0]
<1>0. /\ pc[r] = "limiting" /\ pc'[r] = "pkgQueued" /\ Alone(r)
      /\ Limited(r) /\ l0 \in Locks
      /\ waiters' = [waiters EXCEPT ![l0] = Append(q, r)]
  BY DEF PackageQueue, IInv, TypeOK, Alone, Limited
<1>1. q \in Seq(Requests)
  BY <1>0 DEF IInv, TypeOK
<1>2. /\ Append(q, r) \in Seq(Requests)
      /\ Len(Append(q, r)) = Len(q) + 1 /\ Len(q) \in Nat
      /\ Append(q, r)[Len(q) + 1] = r
      /\ \A i \in 1..Len(q) :
           Append(q, r)[i] = q[i] /\ q[i] \in Requests \ {r}
  <2>1. \A i \in 1..Len(q) : q[i] \in Requests BY <1>1, ElementOfSeq
  <2>2. \A i \in 1..Len(q) : q[i] # r
    BY <1>0 DEF IInv, QueueInv
  <2>. HIDE DEF q
  <2>. QED BY <1>1, <2>1, <2>2, AppendProperties
<1>3. TypeOK'
  <2>1. waiters' \in [Locks -> Seq(Requests)]
    BY <1>0, <1>2 DEF IInv, TypeOK
  <2>. QED BY <2>1 DEF IInv, TypeOK, PackageQueue, Places, Holding
<1>4. Counts'
  BY <1>0, <1>3, CountsKept DEF PackageQueue, Holding, PkgHolding
<1>5. PlacesMatchRules'
  BY <1>0 DEF IInv, PlacesMatchRules, Alone, Limited
<1>6. QueueInv'
  <2>1. waiters'[l0] = Append(q, r)
    BY <1>0 DEF IInv, TypeOK
  <2>2. ASSUME NEW l \in Locks, l # l0
        PROVE  /\ waiters'[l] = waiters[l]
               /\ \A i \in 1..Len(waiters[l]) :
                    waiters[l][i] \in Requests \ {r}
    <3>1. waiters'[l] = waiters[l] BY <1>0, <2>2 DEF IInv, TypeOK
    <3>2. waiters[l] \in Seq(Requests) BY DEF IInv, TypeOK
    <3>3. \A i \in 1..Len(waiters[l]) : waiters[l][i] \in Requests
      BY <3>2, ElementOfSeq
    <3>. QED BY <3>1, <3>3, <1>0 DEF IInv, QueueInv
  <2>3. ASSUME NEW l \in Locks, NEW i \in 1..Len(waiters'[l])
        PROVE  /\ pc'[waiters'[l][i]] = "pkgQueued"
               /\ LockOf[waiters'[l][i]] = l
    <3>1. CASE l # l0
      BY <1>0, <2>2, <2>3, <3>1 DEF IInv, QueueInv, Alone
    <3>2. CASE l = l0 /\ i = Len(q) + 1
      BY <1>0, <1>2, <2>1, <3>2
    <3>3. CASE l = l0 /\ i # Len(q) + 1
      <4>1. i \in 1..Len(q) BY <1>2, <2>1, <2>3, <3>3
      <4>. QED BY <1>0, <1>2, <2>1, <3>3, <4>1 DEF IInv, QueueInv, Alone
    <3>. QED BY <3>1, <3>2, <3>3
  <2>4. ASSUME NEW l \in Locks, NEW i \in 1..Len(waiters'[l]),
               NEW j \in 1..Len(waiters'[l]), waiters'[l][i] = waiters'[l][j]
        PROVE  i = j
    <3>1. CASE l # l0
      BY <2>2, <2>4, <3>1 DEF IInv, QueueInv
    <3>2. CASE l = l0
      <4>1. \A x, y \in 1..Len(q) : q[x] = q[y] => x = y
        BY <1>0 DEF IInv, QueueInv
      <4>2. i \in 1..(Len(q) + 1) /\ j \in 1..(Len(q) + 1)
        BY <1>2, <2>1, <2>4, <3>2
      <4>3. Append(q, r)[i] = Append(q, r)[j]
        BY <2>1, <2>4, <3>2
      <4>. HIDE DEF q
      <4>4. CASE i = Len(q) + 1 \/ j = Len(q) + 1
        BY <1>2, <4>2, <4>3, <4>4
      <4>5. CASE i # Len(q) + 1 /\ j # Len(q) + 1
        <5>1. i \in 1..Len(q) /\ j \in 1..Len(q) BY <1>2, <4>2, <4>5
        <5>. QED BY <1>2, <4>1, <4>3, <5>1
      <4>. QED BY <4>4, <4>5
    <3>. QED BY <3>1, <3>2
  <2>5. ASSUME NEW l \in Locks, NEW p \in Requests,
               pc'[p] = "pkgQueued", LockOf[p] = l
        PROVE  \E i \in 1..Len(waiters'[l]) : waiters'[l][i] = p
    <3>1. CASE p = r
      BY <1>2, <2>1, <2>5, <3>1
    <3>2. CASE p # r
      <4>1. pc[p] = "pkgQueued" BY <1>0, <2>5, <3>2 DEF Alone
      <4>2. PICK k \in 1..Len(waiters[l]) : waiters[l][k] = p
        BY <2>5, <4>1 DEF IInv, QueueInv
      <4>3. CASE l # l0 BY <2>2, <4>2, <4>3
      <4>4. CASE l = l0
        <5>1. k \in 1..Len(q) /\ q[k] = p BY <4>2, <4>4
        <5>2. k \in 1..Len(waiters'[l]) BY <1>2, <2>1, <4>4, <5>1
        <5>3. waiters'[l][k] = p BY <1>2, <2>1, <4>4, <5>1
        <5>. QED BY <5>2, <5>3
      <4>. QED BY <4>3, <4>4
    <3>. QED BY <3>1, <3>2
  <2>. QED BY <2>3, <2>4, <2>5 DEF QueueInv
<1>. QED BY <1>3, <1>4, <1>5, <1>6 DEF IInv

LEMMA PackageAcquireStep ==
    ASSUME IInv, NEW r \in Requests, PackageAcquire(r)
    PROVE  IInv'
<1>. USE DEF choice, Goto, history
<1>. DEFINE l0 == LockOf[r]
<1>0. /\ pc[r] \in {"pkgGranted", "pkgWoken"} /\ pc'[r] = "calling"
      /\ Alone(r) /\ Limited(r) /\ l0 \in Locks
  BY DEF PackageAcquire, IInv, TypeOK, PlacesMatchRules, Alone, Limited
<1>1. TypeOK'
  <2>1. pkgActive[l0] + 1 \in Nat BY <1>0 DEF IInv, TypeOK
  <2>. QED BY <1>0, <2>1 DEF IInv, TypeOK, PackageAcquire, Places, Holding
<1>2. QueueInv'
  BY <1>0, <1>1, QueueUntouched DEF IInv, PackageAcquire
<1>3. PlacesMatchRules'
  BY <1>0 DEF IInv, PlacesMatchRules, Alone, Limited
<1>4. /\ \A s \in Slots : Holders(s)' = Holders(s)
      /\ r \notin PkgHolders(l0)
      /\ PkgHolders(l0)' = PkgHolders(l0) \cup {r}
      /\ \A l \in Locks \ {l0} : PkgHolders(l)' = PkgHolders(l)
  BY <1>0 DEF PackageAcquire, Holders, PkgHolders, Holding, PkgHolding,
              Alone, Limited
<1>5. Counts'
  <2>0. doubled' = doubled BY DEF PackageAcquire, history
  <2>1. SUFFICES ASSUME ~doubled PROVE Balanced'
    BY <2>0, Zenon DEF Counts
  <2>2. \A s \in Slots : KeyCount(s)'
    BY <1>4, <2>1 DEF IInv, Counts, Balanced, KeyCount, PackageAcquire
  <2>3. ASSUME NEW l \in Locks PROVE PkgCount(l)'
    <3>1. pkgActive[l] = Cardinality(PkgHolders(l)) /\ pkgActive[l] \in Nat
      BY <2>1 DEF IInv, TypeOK, Counts, Balanced, PkgCount
    <3>2. CASE l = l0
      <4>1. Cardinality(PkgHolders(l)') = Cardinality(PkgHolders(l)) + 1
        BY <1>4, <3>2, HoldersFinite, OneMore
      <4>. QED BY <3>1, <3>2, <4>1 DEF PackageAcquire, PkgCount, IInv, TypeOK
    <3>3. CASE l # l0
      BY <1>4, <3>1, <3>3 DEF PackageAcquire, PkgCount, IInv, TypeOK
    <3>. QED BY <3>2, <3>3
  <2>. QED BY <2>2, <2>3 DEF Balanced
<1>. QED BY <1>1, <1>2, <1>3, <1>5 DEF IInv

-----------------------------------------------------------------------------
\* The release.

Released(r, place) ==
    /\ Release(r, place)
    /\ pc[r] \in {"calling", "streaming", "transforming"}
    /\ doubled' \in BOOLEAN
    /\ doubled' = doubled \/ doubled' = TRUE
    /\ pc[r] = "transforming" => doubled' = TRUE
    /\ place \in {"choosing", "transforming", "served"}
    /\ next' \in [Requests -> Nat \ {0}]

\* Whom a release wakes was asleep at the head of the releaser's queue.
LEMMA WokenFacts ==
    ASSUME IInv, NEW r \in Requests, NEW w \in WokenBy(r)
    PROVE  LET l0 == LockOf[r] IN
           /\ WokenBy(r) = {w} /\ Limited(r)
           /\ l0 \in Locks /\ waiters[l0] # <<>>
           /\ waiters[l0] \in Seq(Requests)
           /\ Len(waiters[l0]) \in Nat \ {0}
           /\ w = waiters[l0][1] /\ w \in Requests
           /\ pc[w] = "pkgQueued" /\ LockOf[w] = l0
<1>. DEFINE l0 == LockOf[r]
            q == waiters[l0]
<1>1. Limited(r) /\ q # <<>> /\ w = Head(q) /\ WokenBy(r) = {w}
  BY DEF WokenBy
<1>2. l0 \in Locks BY <1>1 DEF Limited
<1>3. q \in Seq(Requests) BY <1>2 DEF IInv, TypeOK
<1>4. Len(q) \in Nat \ {0} /\ w = q[1] /\ w \in Requests
  <2>. HIDE DEF q
  <2>. QED BY <1>1, <1>3
<1>5. pc[w] = "pkgQueued" /\ LockOf[w] = l0
  <2>1. 1 \in 1..Len(q) BY <1>4
  <2>. QED BY <1>2, <1>4, <2>1 DEF IInv, QueueInv
<1>. QED BY <1>1, <1>2, <1>3, <1>4, <1>5

LEMMA ReleaseTyped ==
    ASSUME IInv, NEW r \in Requests, NEW place, Released(r, place)
    PROVE  TypeOK'
<1>1. \A n \in Nat : Decrement(n) \in Nat
  BY DEF Decrement
<1>2. active' \in [Slots -> Nat] /\ pkgActive' \in [Locks -> Nat]
  BY <1>1 DEF Released, Release, ReleasePackage, IInv, TypeOK
<1>3. pc' \in [Requests -> Places]
  BY DEF Released, Release, IInv, TypeOK, Places, Holding, Closed
<1>4. waiters' \in [Locks -> Seq(Requests)]
  <2>1. ASSUME NEW l \in Locks, l = LockOf[r], WokenBy(r) # {}
        PROVE  Tail(waiters[l]) \in Seq(Requests)
    <3>1. PICK w : w \in WokenBy(r) BY <2>1
    <3>2. waiters[l] \in Seq(Requests) /\ waiters[l] # <<>>
      BY <2>1, <3>1, WokenFacts
    <3>. QED BY <3>2, HeadTailProperties
  <2>. QED BY <2>1 DEF Released, Release, IInv, TypeOK
<1>. QED BY <1>2, <1>3, <1>4 DEF Released, Release, IInv, TypeOK

LEMMA ReleaseQueue ==
    ASSUME IInv, NEW r \in Requests, NEW place, Released(r, place)
    PROVE  QueueInv' /\ PlacesMatchRules'
<1>. DEFINE l0 == LockOf[r]
            q == waiters[l0]
<1>0. TypeOK' /\ pc'[r] = place /\ r \notin WokenBy(r)
  <2>1. \A w \in WokenBy(r) : pc[w] = "pkgQueued" BY WokenFacts
  <2>. QED BY <2>1, ReleaseTyped DEF Released, Release, IInv, TypeOK
<1>1. CASE WokenBy(r) = {}
  <2>1. Alone(r) /\ waiters' = waiters
    BY <1>1 DEF Alone, Released, Release, IInv, TypeOK
  <2>2. QueueInv'
    BY <1>0, <2>1, QueueUntouched DEF Released, IInv
  <2>3. PlacesMatchRules'
    BY <1>0, <2>1 DEF IInv, PlacesMatchRules, Alone, Limited, Released
  <2>. QED BY <2>2, <2>3
<1>2. CASE WokenBy(r) # {}
  <2>0. PICK w : w \in WokenBy(r) BY <1>2
  <2>1. /\ WokenBy(r) = {w} /\ Limited(r) /\ l0 \in Locks /\ q # <<>>
        /\ q \in Seq(Requests) /\ Len(q) \in Nat \ {0}
        /\ w = q[1] /\ w \in Requests /\ w # r
        /\ pc[w] = "pkgQueued" /\ LockOf[w] = l0
    BY <1>0, <2>0, WokenFacts
  <2>2. /\ pc'[w] = "pkgWoken"
        /\ \A p \in Requests \ {r, w} : pc'[p] = pc[p]
    BY <2>1 DEF Released, Release, IInv, TypeOK
  <2>3. /\ waiters'[l0] = Tail(q)
        /\ \A l \in Locks \ {l0} : waiters'[l] = waiters[l]
    BY <2>1 DEF Released, Release
  <2>4. /\ Len(Tail(q)) = Len(q) - 1
        /\ \A i \in 1..(Len(q) - 1) : Tail(q)[i] = q[i + 1]
    <3>. HIDE DEF q
    <3>. QED BY <2>1, HeadTailProperties
  <2>5. PlacesMatchRules'
    BY <1>0, <2>1, <2>2 DEF IInv, PlacesMatchRules, Limited, Released
  <2>6. ASSUME NEW l \in Locks, NEW i \in 1..Len(waiters[l]),
               l = l0 => i # 1
        PROVE  waiters[l][i] \in Requests \ {r, w}
    <3>1. waiters[l] \in Seq(Requests) BY DEF IInv, TypeOK
    <3>2. waiters[l][i] \in Requests BY <3>1, ElementOfSeq
    <3>3. waiters[l][i] # r BY DEF IInv, QueueInv, Released
    <3>4. CASE l # l0 BY <2>1, <3>2, <3>3, <3>4 DEF IInv, QueueInv
    <3>5. CASE l = l0
      <4>1. 1 \in 1..Len(q) BY <2>1
      <4>2. q[i] = q[1] => i = 1
        BY <2>1, <3>5, <4>1 DEF IInv, QueueInv
      <4>. QED BY <2>1, <2>6, <3>2, <3>3, <3>5, <4>2
    <3>. QED BY <3>4, <3>5
  <2>7. ASSUME NEW l \in Locks, NEW i \in 1..Len(waiters'[l])
        PROVE  /\ pc'[waiters'[l][i]] = "pkgQueued"
               /\ LockOf[waiters'[l][i]] = l
    <3>1. CASE l # l0
      <4>1. waiters'[l] = waiters[l] BY <2>3, <3>1
      <4>2. waiters[l][i] \in Requests \ {r, w} BY <2>6, <2>7, <3>1, <4>1
      <4>. QED BY <2>2, <2>7, <4>1, <4>2 DEF IInv, QueueInv
    <3>2. CASE l = l0
      <4>1. /\ i \in 1..(Len(q) - 1) /\ waiters'[l][i] = q[i + 1]
            /\ i + 1 \in 1..Len(q) /\ i + 1 # 1
        <5>1. waiters'[l] = Tail(q) BY <2>1, <2>3, <3>2
        <5>2. i \in 1..(Len(q) - 1) BY <2>4, <2>7, <5>1
        <5>3. waiters'[l][i] = q[i + 1] BY <2>4, <5>1, <5>2
        <5>. HIDE DEF q
        <5>4. i + 1 \in 1..Len(q) /\ i + 1 # 1 BY <2>1, <5>2
        <5>. QED BY <5>2, <5>3, <5>4
      <4>2. q[i + 1] \in Requests \ {r, w}
        <5>1. i + 1 \in 1..Len(waiters[l]) BY <3>2, <4>1
        <5>2. waiters[l][i + 1] \in Requests \ {r, w}
          BY <2>6, <4>1, <5>1
        <5>. QED BY <3>2, <5>2
      <4>3. pc[q[i + 1]] = "pkgQueued" /\ LockOf[q[i + 1]] = l0
        BY <2>1, <4>1 DEF IInv, QueueInv
      <4>. QED BY <2>2, <3>2, <4>1, <4>2, <4>3
    <3>. QED BY <3>1, <3>2
  <2>8. ASSUME NEW l \in Locks, NEW i \in 1..Len(waiters'[l]),
               NEW j \in 1..Len(waiters'[l]), waiters'[l][i] = waiters'[l][j]
        PROVE  i = j
    <3>1. CASE l # l0
      BY <2>3, <2>8, <3>1 DEF IInv, QueueInv
    <3>2. CASE l = l0
      <4>1. \A x, y \in 1..Len(q) : q[x] = q[y] => x = y
        BY <2>1 DEF IInv, QueueInv
      <4>2. i \in 1..(Len(q) - 1) /\ j \in 1..(Len(q) - 1)
        BY <2>3, <2>4, <3>2
      <4>3. q[i + 1] = q[j + 1]
        BY <2>3, <2>4, <2>8, <3>2, <4>2
      <4>4. i + 1 \in 1..Len(q) /\ j + 1 \in 1..Len(q)
        BY <2>1, <4>2
      <4>5. i + 1 = j + 1 BY <4>1, <4>3, <4>4
      <4>. QED BY <4>2, <4>5
    <3>. QED BY <3>1, <3>2
  <2>9. ASSUME NEW l \in Locks, NEW p \in Requests,
               pc'[p] = "pkgQueued", LockOf[p] = l
        PROVE  \E i \in 1..Len(waiters'[l]) : waiters'[l][i] = p
    <3>1. p \notin {r, w} /\ pc[p] = "pkgQueued"
      BY <1>0, <2>2, <2>9 DEF Released
    <3>2. PICK k \in 1..Len(waiters[l]) : waiters[l][k] = p
      BY <2>9, <3>1 DEF IInv, QueueInv
    <3>3. CASE l # l0
      BY <2>3, <3>2, <3>3
    <3>4. CASE l = l0
      <4>1. k \in 1..Len(q) /\ q[k] = p /\ k # 1
        BY <2>1, <3>1, <3>2, <3>4
      <4>2. k - 1 \in 1..(Len(q) - 1) /\ (k - 1) + 1 = k
        BY <2>1, <4>1
      <4>3. Tail(q)[k - 1] = q[k] BY <2>4, <4>2
      <4>. QED BY <2>3, <2>4, <3>4, <4>1, <4>2, <4>3
    <3>. QED BY <3>3, <3>4
  <2>. QED BY <2>5, <2>7, <2>8, <2>9 DEF QueueInv
<1>. QED BY <1>1, <1>2

LEMMA ReleaseCounts ==
    ASSUME IInv, NEW r \in Requests, NEW place, Released(r, place)
    PROVE  Counts'
<1>. DEFINE s0 == slot[r]
            l0 == LockOf[r]
<1>0. doubled = TRUE => doubled' = TRUE BY DEF Released
<1>1. SUFFICES ASSUME doubled' # TRUE, ~doubled PROVE Balanced'
  BY <1>0 DEF Counts, IInv, TypeOK
<1>2. /\ pc[r] \in {"calling", "streaming"} /\ s0 \in Slots
      /\ pc'[r] = place /\ slot' = slot /\ leaked' = leaked
  BY <1>1 DEF Released, Release, IInv, TypeOK
<1>3. ASSUME NEW p \in Requests \ {r}
      PROVE  /\ pc'[p] \in Holding <=> pc[p] \in Holding
             /\ pc'[p] \in PkgHolding <=> pc[p] \in PkgHolding
  <2>1. CASE p \in WokenBy(r)
    <3>1. pc[p] = "pkgQueued" BY <2>1, WokenFacts
    <3>2. pc'[p] = "pkgWoken"
      BY <2>1 DEF Released, Release, IInv, TypeOK
    <3>. QED BY <3>1, <3>2 DEF Holding, PkgHolding
  <2>2. CASE p \notin WokenBy(r)
    <3>1. pc'[p] = pc[p] BY <2>2 DEF Released, Release, IInv, TypeOK
    <3>. QED BY <3>1
  <2>. QED BY <2>1, <2>2
<1>4. /\ r \in Holders(s0)
      /\ Holders(s0)' = Holders(s0) \ {r}
      /\ \A s \in Slots \ {s0} : Holders(s)' = Holders(s)
  <2>1. pc[r] \in Holding /\ pc'[r] \notin Holding
    BY <1>2 DEF Holding, Released
  <2>. QED BY <1>2, <1>3, <2>1 DEF Holders
<1>5. pc[r] \in PkgHolding /\ pc'[r] \notin PkgHolding
  BY <1>2 DEF PkgHolding, Released
<1>6. ASSUME NEW s \in Slots PROVE KeyCount(s)'
  <2>1. active[s] = Cardinality(Holders(s)) + leaked[s]
    BY <1>1 DEF IInv, Counts, Balanced, KeyCount
  <2>2. active[s] \in Nat /\ leaked[s] \in Nat
    BY DEF IInv, TypeOK
  <2>3. CASE s = s0
    <3>0. Holders(s)' = Holders(s) \ {r} /\ r \in Holders(s)
      <4>1. s0' = s0 BY <1>2
      <4>2. r \in Holders(s) BY <1>4, <2>3
      <4>3. Holders(s)' = {p \in Requests : pc'[p] \in Holding
                                            /\ slot'[p] = s}
        BY DEF Holders
      <4>4. pc[r] \in Holding /\ pc'[r] \notin Holding
        BY <1>2 DEF Holding, Released
      <4>. QED BY <1>2, <1>3, <2>3, <4>2, <4>3, <4>4 DEF Holders
    <3>1. Cardinality(Holders(s)) = Cardinality(Holders(s)') + 1
      BY <3>0, HoldersFinite, OneLess
    <3>2. Cardinality(Holders(s)') \in Nat
      <4>. QED BY <3>0, HoldersFinite, FS_RemoveElement, FS_CardinalityType
    <3>3. active'[s] = Decrement(active[s])
      BY <2>3 DEF Released, Release, IInv, TypeOK
    <3>4. active'[s] = active[s] - 1
      BY <2>1, <2>2, <3>1, <3>2, <3>3 DEF Decrement
    <3>. QED BY <1>2, <2>1, <2>2, <3>1, <3>2, <3>4 DEF KeyCount
  <2>4. CASE s # s0
    <3>1. active'[s] = active[s]
      BY <2>4 DEF Released, Release, IInv, TypeOK
    <3>. QED BY <1>2, <1>4, <2>1, <2>4, <3>1 DEF KeyCount
  <2>. QED BY <2>3, <2>4
<1>7. ASSUME NEW l \in Locks PROVE PkgCount(l)'
  <2>1. pkgActive[l] = Cardinality(PkgHolders(l)) /\ pkgActive[l] \in Nat
    BY <1>1 DEF IInv, TypeOK, Counts, Balanced, PkgCount
  <2>2. CASE Limited(r) /\ l = l0
    <3>1. r \in PkgHolders(l) /\ PkgHolders(l)' = PkgHolders(l) \ {r}
      BY <1>3, <1>5, <2>2 DEF PkgHolders, Limited
    <3>2. Cardinality(PkgHolders(l)) = Cardinality(PkgHolders(l)') + 1
      BY <3>1, HoldersFinite, OneLess
    <3>3. Cardinality(PkgHolders(l)') \in Nat
      BY <3>1, HoldersFinite, FS_RemoveElement, FS_CardinalityType
    <3>4. pkgActive'[l] = Decrement(pkgActive[l])
      BY <2>2 DEF Released, Release, ReleasePackage
    <3>5. pkgActive'[l] = pkgActive[l] - 1
      BY <2>1, <3>2, <3>3, <3>4 DEF Decrement
    <3>. QED BY <2>1, <3>2, <3>3, <3>5 DEF PkgCount
  <2>3. CASE ~(Limited(r) /\ l = l0)
    <3>1. PkgHolders(l)' = PkgHolders(l)
      BY <1>3, <2>3 DEF PkgHolders, Limited
    <3>2. pkgActive'[l] = pkgActive[l]
      BY <2>3 DEF Released, Release, ReleasePackage
    <3>. QED BY <2>1, <3>1, <3>2 DEF PkgCount
  <2>. QED BY <2>2, <2>3
<1>. QED BY <1>6, <1>7 DEF Balanced

LEMMA Releases ==
    ASSUME IInv, NEW r \in Requests,
           \/ CallFails(r) \/ AnswerJson(r) \/ AnswerBinary(r)
           \/ StreamEnds(r) \/ TransformThrows(r)
    PROVE  \E place : Released(r, place)
<1>1. doubled \in BOOLEAN /\ next[r] \in Nat \ {0} /\ next \in [Requests -> Nat \ {0}]
  BY DEF IInv, TypeOK
<1>2. CASE CallFails(r)
  BY <1>1, <1>2 DEF CallFails, Released
<1>3. CASE AnswerJson(r)
  BY <1>1, <1>3 DEF AnswerJson, Released
<1>4. CASE AnswerBinary(r)
  BY <1>1, <1>4 DEF AnswerBinary, Released
<1>5. CASE StreamEnds(r)
  BY <1>1, <1>5 DEF StreamEnds, Released
<1>6. CASE TransformThrows(r)
  BY <1>1, <1>6 DEF TransformThrows, Released
<1>. QED BY <1>2, <1>3, <1>4, <1>5, <1>6

LEMMA ReleaseStep ==
    ASSUME IInv, NEW r \in Requests,
           \/ CallFails(r) \/ AnswerJson(r) \/ AnswerBinary(r)
           \/ StreamEnds(r) \/ TransformThrows(r)
    PROVE  IInv'
BY Releases, ReleaseTyped, ReleaseQueue, ReleaseCounts DEF IInv

LEMMA AnswerStep ==
    ASSUME IInv, NEW r \in Requests, AnswerStream(r) \/ Transformed(r)
    PROVE  IInv'
<1>. USE DEF package, choice, Goto, history
<1>1. CASE AnswerStream(r)
  <2>1. TypeOK' BY <1>1 DEF IInv, TypeOK, AnswerStream, Places, Holding
  <2>2. pc[r] = "calling" /\ pc'[r] = "streaming" /\ Alone(r)
    BY <1>1 DEF AnswerStream, IInv, TypeOK, Alone
  <2>. QED BY <1>1, <2>1, <2>2, QuietStep
       DEF AnswerStream, Holding, PkgHolding
<1>2. CASE Transformed(r)
  <2>1. TypeOK' BY <1>2 DEF IInv, TypeOK, Transformed, Places, Closed
  <2>2. pc[r] = "transforming" /\ pc'[r] = "served" /\ Alone(r)
    BY <1>2 DEF Transformed, IInv, TypeOK, Alone
  <2>. QED BY <1>2, <2>1, <2>2, QuietStep
       DEF Transformed, Holding, PkgHolding
<1>. QED BY <1>1, <1>2

LEMMA StutterInv ==
    ASSUME IInv, UNCHANGED <<active, package, pc, slot, history>>, TypeOK'
    PROVE  IInv'
<1>1. QueueInv' /\ PlacesMatchRules'
  BY DEF IInv, QueueInv, PlacesMatchRules, package, Limited
<1>2. Counts'
  <2>1. /\ \A s \in Slots : Holders(s)' = Holders(s)
        /\ \A l \in Locks : PkgHolders(l)' = PkgHolders(l)
    BY DEF Holders, PkgHolders, Limited
  <2>2. Balanced => Balanced'
    BY <2>1 DEF Balanced, KeyCount, PkgCount, package, history
  <2>3. doubled' = doubled BY DEF history
  <2>. QED BY <2>2, <2>3, Zenon DEF IInv, Counts
<1>. QED BY <1>1, <1>2 DEF IInv

LEMMA Inductive == IInv /\ [Next]_vars => IInv'
<1>. SUFFICES ASSUME IInv, [Next]_vars PROVE IInv'
  OBVIOUS
<1>1. ASSUME NEW r \in Requests, OwnStep(r) PROVE IInv'
  BY <1>1, ChoosingStep, AcquireStep, PrepareThrowsStep, LimitingStep,
     PackageQueueStep, PackageTimeoutStep, PackageAcquireStep DEF OwnStep
<1>2. ASSUME NEW r \in Requests, UpstreamStep(r) PROVE IInv'
  BY <1>2, ReleaseStep, AnswerStep DEF UpstreamStep
<1>3. ASSUME NEW k \in Keys, MarkKey(k) PROVE IInv'
  <2>1. TypeOK' BY <1>3 DEF MarkKey, IInv, TypeOK, package, choice, history
  <2>. QED BY <1>3, <2>1, StutterInv DEF MarkKey, choice
<1>4. CASE UNCHANGED vars
  <2>1. TypeOK' BY <1>4 DEF vars, IInv, TypeOK
  <2>. QED BY <1>4, <2>1, StutterInv DEF vars, package, history
<1>. QED BY <1>1, <1>2, <1>3, <1>4 DEF Next

\* Places, rules, counters and the queue agree after every poll, wake-up,
\* timeout and release.
THEOREM Invariance == Spec => []IInv
<1>. QED BY InitInv, Inductive, PTL DEF Spec

\* The state always has its types.
THEOREM TypeCorrect == Spec => []TypeOK
<1>1. IInv => TypeOK BY DEF IInv
<1>. QED BY <1>1, Invariance, PTL

\* Unless a throw follows a release, every key counter is the number of its
\* holders plus the requests that ended between the increment and the try
\* block: dispatch() never releases a key slot twice or forgets to.
\* And every package counter is exactly the number of its holders.
THEOREM SlotsKept == Spec => []SlotsAccounted
<1>1. IInv => KeySlotsAccounted
  BY DEF IInv, Counts, Balanced, KeyCount, KeySlotsAccounted
<1>2. IInv => PackageSlotsAccounted
  BY DEF IInv, Counts, Balanced, PkgCount, PackageSlotsAccounted
<1>3. IInv => SlotsAccounted
  BY <1>1, <1>2 DEF SlotsAccounted
<1>. QED BY <1>3, Invariance, PTL

\* The queue of a lock holds exactly the requests asleep in it, each once.
LEMMA Queues == Spec => []NoGhostWaiter
<1>1. ASSUME IInv, NEW l \in Locks, NEW i \in 1..Len(waiters[l])
      PROVE  waiters[l][i] \in Requests
  <2>1. waiters[l] \in Seq(Requests) BY <1>1 DEF IInv, TypeOK
  <2>. QED BY <2>1, ElementOfSeq
<1>2. IInv => NoGhostWaiter
  BY <1>1 DEF IInv, QueueInv, NoGhostWaiter
<1>. QED BY <1>2, Invariance, PTL

-----------------------------------------------------------------------------
(* No release is lost on the queue: the count of a lock with sleepers, its  *)
(* resumed waiters included, never falls below its limit.                  *)

LEMMA WokenFinite ==
    \A l : IsFiniteSet(Woken(l)) /\ Cardinality(Woken(l)) \in Nat
<1>1. ASSUME NEW T \in SUBSET Requests
      PROVE  IsFiniteSet(T) /\ Cardinality(T) \in Nat
  BY SlotConstants, FS_Subset, FS_CardinalityType
<1>. QED BY <1>1 DEF Woken

\* A step that wakes nobody, resumes nobody and puts nobody into a queue.
LEMMA WakeupKept ==
    ASSUME NoLostWakeup, pkgActive' = pkgActive,
           \A l \in Locks : waiters'[l] # <<>> => waiters[l] # <<>>,
           \A q \in Requests : pc'[q] = "pkgWoken" <=> pc[q] = "pkgWoken"
    PROVE  NoLostWakeup'
<1>1. \A l : Woken(l)' = Woken(l) BY DEF Woken
<1>. QED BY <1>1 DEF NoLostWakeup

LEMMA WakeupQueue ==
    ASSUME IInv, NoLostWakeup, NEW r \in Requests, PackageQueue(r)
    PROVE  NoLostWakeup'
<1>1. /\ Limited(r) /\ pkgActive[LockOf[r]] >= LockLimit[LockOf[r]]
      /\ pkgActive' = pkgActive
      /\ \A l \in Locks \ {LockOf[r]} : waiters'[l] = waiters[l]
      /\ \A q \in Requests : pc'[q] = "pkgWoken" <=> pc[q] = "pkgWoken"
  BY DEF PackageQueue, Goto, IInv, TypeOK
<1>2. \A l : Woken(l)' = Woken(l) BY <1>1 DEF Woken
<1>3. ASSUME NEW l \in Locks, waiters'[l] # <<>>
      PROVE  pkgActive'[l] + Cardinality(Woken(l)') >= LockLimit[l]
  <2>1. CASE l = LockOf[r]
    <3>1. /\ pkgActive[l] \in Nat /\ LockLimit[l] \in Nat
          /\ Cardinality(Woken(l)') \in Nat
      BY <1>2, WokenFinite, SlotConstants DEF IInv, TypeOK
    <3>. QED BY <1>1, <2>1, <3>1
  <2>2. CASE l # LockOf[r]
    BY <1>1, <1>2, <1>3, <2>2 DEF NoLostWakeup
  <2>. QED BY <2>1, <2>2
<1>. QED BY <1>3 DEF NoLostWakeup

LEMMA WakeupAcquire ==
    ASSUME IInv, NoLostWakeup, NEW r \in Requests, PackageAcquire(r)
    PROVE  NoLostWakeup'
<1>1. /\ LockOf[r] \in Locks /\ waiters' = waiters
      /\ pkgActive'[LockOf[r]] = pkgActive[LockOf[r]] + 1
      /\ \A l \in Locks \ {LockOf[r]} : pkgActive'[l] = pkgActive[l]
      /\ pc'[r] # "pkgWoken"
      /\ \A q \in Requests \ {r} : pc'[q] = pc[q]
  BY DEF PackageAcquire, Goto, IInv, TypeOK, PlacesMatchRules, Limited
<1>2. ASSUME NEW l \in Locks, waiters'[l] # <<>>
      PROVE  pkgActive'[l] + Cardinality(Woken(l)') >= LockLimit[l]
  <2>0. /\ pkgActive[l] \in Nat /\ LockLimit[l] \in Nat
        /\ Cardinality(Woken(l)) \in Nat
        /\ pkgActive[l] + Cardinality(Woken(l)) >= LockLimit[l]
    BY <1>1, <1>2, WokenFinite, SlotConstants DEF IInv, TypeOK, NoLostWakeup
  <2>1. CASE l # LockOf[r]
    <3>1. Woken(l)' = Woken(l) BY <1>1, <2>1 DEF Woken
    <3>. QED BY <1>1, <2>0, <2>1, <3>1
  <2>2. CASE l = LockOf[r] /\ r \in Woken(l)
    <3>1. Woken(l)' = Woken(l) \ {r} BY <1>1, <2>2 DEF Woken
    <3>2. Cardinality(Woken(l)) = Cardinality(Woken(l)') + 1
      BY <2>2, <3>1, WokenFinite, OneLess
    <3>3. Cardinality(Woken(l)') \in Nat
      BY <3>1, WokenFinite, FS_RemoveElement, FS_CardinalityType
    <3>. QED BY <1>1, <2>0, <2>2, <3>2, <3>3
  <2>3. CASE l = LockOf[r] /\ r \notin Woken(l)
    <3>1. Woken(l)' = Woken(l) BY <1>1, <2>3 DEF Woken
    <3>. QED BY <1>1, <2>0, <2>3, <3>1
  <2>. QED BY <2>1, <2>2, <2>3
<1>. QED BY <1>2 DEF NoLostWakeup

LEMMA WakeupRelease ==
    ASSUME IInv, NoLostWakeup, NEW r \in Requests, NEW place,
           Released(r, place)
    PROVE  NoLostWakeup'
<1>. DEFINE l0 == LockOf[r]
<1>1. pc[r] # "pkgWoken" /\ pc'[r] # "pkgWoken" /\ r \notin WokenBy(r)
  <2>1. \A w \in WokenBy(r) : pc[w] = "pkgQueued" BY WokenFacts
  <2>. QED BY <2>1 DEF Released, Release, IInv, TypeOK
<1>2. \A q \in Requests \ ({r} \cup WokenBy(r)) : pc'[q] = pc[q]
  BY DEF Released, Release, IInv, TypeOK
<1>3. CASE WokenBy(r) = {}
  <2>1. ASSUME NEW l \in Locks, waiters'[l] # <<>>
        PROVE  pkgActive'[l] = pkgActive[l] /\ waiters[l] # <<>>
    <3>1. waiters'[l] = waiters[l]
      BY <1>3 DEF Released, Release
    <3>2. ~(Limited(r) /\ l = l0) BY <1>3, <2>1, <3>1 DEF WokenBy
    <3>. QED BY <2>1, <3>1, <3>2 DEF Released, Release, ReleasePackage
  <2>2. \A l : Woken(l)' = Woken(l) BY <1>1, <1>2, <1>3 DEF Woken
  <2>. QED BY <2>1, <2>2 DEF NoLostWakeup
<1>4. CASE WokenBy(r) # {}
  <2>1. PICK w : w \in WokenBy(r) BY <1>4
  <2>2. /\ WokenBy(r) = {w} /\ l0 \in Locks /\ waiters[l0] # <<>>
        /\ w \in Requests /\ pc[w] = "pkgQueued" /\ LockOf[w] = l0
    BY <2>1, WokenFacts
  <2>3. pc'[w] = "pkgWoken"
    BY <1>1, <2>1, <2>2 DEF Released, Release, IInv, TypeOK
  <2>4. ASSUME NEW l \in Locks, waiters'[l] # <<>>
        PROVE  pkgActive'[l] + Cardinality(Woken(l)') >= LockLimit[l]
    <3>0. pkgActive[l] \in Nat /\ LockLimit[l] \in Nat
      BY SlotConstants DEF IInv, TypeOK
    <3>1. CASE l = l0
      <4>1. w \notin Woken(l) /\ Woken(l)' = Woken(l) \cup {w}
        BY <1>1, <1>2, <2>2, <2>3, <3>1 DEF Woken
      <4>2. Cardinality(Woken(l)') = Cardinality(Woken(l)) + 1
        BY <4>1, WokenFinite, OneMore
      <4>3. /\ Cardinality(Woken(l)) \in Nat
            /\ pkgActive[l] + Cardinality(Woken(l)) >= LockLimit[l]
        BY <2>2, <3>1, WokenFinite DEF NoLostWakeup
      <4>4. pkgActive'[l] = pkgActive[l] \/ pkgActive'[l] = Decrement(pkgActive[l])
        BY DEF Released, Release, ReleasePackage
      <4>5. pkgActive'[l] \in Nat /\ pkgActive'[l] + 1 >= pkgActive[l]
        BY <3>0, <4>4 DEF Decrement
      <4>. QED BY <3>0, <4>2, <4>3, <4>5
    <3>2. CASE l # l0
      <4>1. Woken(l)' = Woken(l)
        BY <1>1, <1>2, <2>2, <2>3, <3>2 DEF Woken
      <4>2. waiters'[l] = waiters[l] /\ pkgActive'[l] = pkgActive[l]
        BY <3>2 DEF Released, Release, ReleasePackage
      <4>. QED BY <2>4, <4>1, <4>2 DEF NoLostWakeup
    <3>. QED BY <3>1, <3>2
  <2>. QED BY <2>4 DEF NoLostWakeup
<1>. QED BY <1>3, <1>4

LEMMA WakeupStep == IInv /\ NoLostWakeup /\ [Next]_vars => NoLostWakeup'
<1>. SUFFICES ASSUME IInv, NoLostWakeup, [Next]_vars PROVE NoLostWakeup'
  OBVIOUS
<1>. USE DEF Goto, package, choice
<1>1. ASSUME NEW r \in Requests, OwnStep(r) PROVE NoLostWakeup'
  <2>1. CASE Start(r) \/ GiveUpAll(r) \/ SkipChannel(r) \/ GiveUpSlot(r)
    BY <2>1, WakeupKept
      DEF IInv, TypeOK, Start, GiveUpAll, SkipChannel, GiveUpSlot
  <2>2. CASE ChooseKey(r)
    BY <2>2, WakeupKept DEF IInv, TypeOK, ChooseKey
  <2>3. CASE PollSucceeds(r) \/ PollFails(r)
    BY <2>3, WakeupKept DEF IInv, TypeOK, PollSucceeds, PollFails
  <2>4. CASE Acquire(r) \/ PrepareThrows(r)
    BY <2>4, WakeupKept DEF IInv, TypeOK, Acquire, PrepareThrows
  <2>5. CASE PackageRateLimited(r) \/ PackageUnlimited(r) \/ PackageRoom(r)
    BY <2>5, WakeupKept DEF IInv, TypeOK, Abort, PackageRateLimited,
                            PackageUnlimited, PackageRoom
  <2>6. CASE PackageTimeout(r)
    <3>1. PICK i \in 1..Len(waiters[LockOf[r]]) :
            waiters' = [waiters EXCEPT ![LockOf[r]] = Splice(@, i)]
      BY <2>6 DEF PackageTimeout
    <3>2. ASSUME NEW l \in Locks, waiters[l] = <<>> PROVE waiters'[l] = <<>>
      <4>1. l # LockOf[r] BY <3>2
      <4>. QED BY <3>1, <3>2, <4>1
    <3>. QED BY <2>6, <3>2, WakeupKept
         DEF IInv, TypeOK, PackageTimeout, Abort
  <2>. QED BY <1>1, <2>1, <2>2, <2>3, <2>4, <2>5, <2>6,
              WakeupQueue, WakeupAcquire DEF OwnStep
<1>2. ASSUME NEW r \in Requests, UpstreamStep(r) PROVE NoLostWakeup'
  <2>1. CASE \E place : Released(r, place) BY <2>1, WakeupRelease
  <2>2. CASE AnswerStream(r) \/ Transformed(r)
    BY <2>2, WakeupKept DEF IInv, TypeOK, AnswerStream, Transformed
  <2>. QED BY <1>2, <2>1, <2>2, Releases DEF UpstreamStep
<1>3. ASSUME NEW k \in Keys, MarkKey(k) PROVE NoLostWakeup'
  BY <1>3, WakeupKept DEF MarkKey
<1>4. CASE UNCHANGED vars
  BY <1>4, WakeupKept DEF vars
<1>. QED BY <1>1, <1>2, <1>3, <1>4 DEF Next

\* No release is lost: a request sleeps in the queue of a lock only while
\* the lock is fully counted, even when slots are released twice.
LEMMA Wakeups == Spec => []NoLostWakeup
<1>1. Init => NoLostWakeup BY DEF Init, NoLostWakeup
<1>. QED BY <1>1, WakeupStep, Invariance, PTL DEF Spec

\* Every release reaches exactly one sleeper: none is lost on the queue, and
\* nobody is in it who has gone.
THEOREM QueuesWork == Spec => []QueuesHold
<1>1. NoLostWakeup /\ NoGhostWaiter => QueuesHold
  BY DEF QueuesHold
<1>. QED BY <1>1, Wakeups, Queues, PTL

-----------------------------------------------------------------------------
(* The measure behind the end of every wait.                               *)

\* A request that has not given up has candidates left to take, or one in hand.
OnRoute(r) ==
    next[r] <= Len(Candidates[r]) + (IF pc[r] \in Trying THEN 0 ELSE 1)
RouteInv == \A r \in Requests : pc[r] \notin Closed => OnRoute(r)

\* The measure for any place and index; proofs compare two of its values.
Measure(n, place, i) ==
    IF place \in Closed THEN 0
    ELSE 9 * (n - i + (IF place \in Trying THEN 0 ELSE 1)) + PlacesLeft[place]

LEMMA MeasureOf ==
    \A r : StepsLeft(r) = Measure(Len(Candidates[r]), pc[r], next[r])
BY DEF StepsLeft, Measure, CandidatesLeft

LEMMA MeasureOfNext ==
    \A r : StepsLeft(r)' = Measure(Len(Candidates[r]), pc[r]', next[r]')
BY DEF StepsLeft, Measure, CandidatesLeft

\* Where a step may take a request that has i of n candidates behind it: on to
\* a later place with the same candidate, to the choice of the next one, from
\* the choice to a candidate, or to the end.
Onward(n, p, i, q, j) ==
    \/ q \in Closed
    \/ /\ j = i /\ (p \in Trying <=> q \in Trying)
       /\ PlacesLeft[q] < PlacesLeft[p]
    \/ /\ j = i + 1 /\ q = "choosing"
       /\ p \in Trying \/ (p = "choosing" /\ i <= n)
    \/ j = i /\ i <= n /\ p = "choosing" /\ q \in {"polling", "granted"}

LEMMA OnwardLowers ==
    ASSUME NEW n \in Nat, NEW i \in Nat, NEW j \in Nat,
           NEW p \in Places \ Closed, NEW q \in Places,
           i <= n + (IF p \in Trying THEN 0 ELSE 1),
           Onward(n, p, i, q, j)
    PROVE  /\ Measure(n, q, j) \in 0..Measure(n, p, i)
           /\ Measure(n, q, j) # Measure(n, p, i)
           /\ q \in Closed \/ j <= n + (IF q \in Trying THEN 0 ELSE 1)
<1>. USE DEF Measure, Trying, Places, Closed, Holding, Waiting
<1>1. PlacesLeft[p] \in 1..9 BY DEF PlacesLeft
<1>2. Measure(n, p, i) \in Nat \ {0} BY <1>1
<1>3. CASE q \in Closed BY <1>2, <1>3
<1>4. CASE /\ q \notin Closed
           /\ j = i /\ (p \in Trying <=> q \in Trying)
           /\ PlacesLeft[q] < PlacesLeft[p]
  <2>1. PlacesLeft[q] \in 1..9 BY <1>4 DEF PlacesLeft
  <2>. QED BY <1>1, <1>2, <1>4, <2>1
<1>5. CASE /\ j = i + 1 /\ q = "choosing"
           /\ p \in Trying \/ (p = "choosing" /\ i <= n)
  <2>1. PlacesLeft[q] = 1 BY <1>5 DEF PlacesLeft
  <2>2. CASE p = "choosing" /\ i <= n
    BY <1>1, <1>5, <2>1, <2>2
  <2>3. CASE p \in Trying
    <3>1. PlacesLeft[p] \in 2..9 BY <2>3 DEF PlacesLeft
    <3>. QED BY <3>1, <1>5, <2>1, <2>3
  <2>. QED BY <1>5, <2>2, <2>3
<1>6. CASE j = i /\ i <= n /\ p = "choosing" /\ q \in {"polling", "granted"}
  <2>1. PlacesLeft[p] = 1 /\ PlacesLeft[q] \in {7, 9} BY <1>6 DEF PlacesLeft
  <2>. QED BY <1>6, <2>1
<1>. QED BY <1>3, <1>4, <1>5, <1>6 DEF Onward


Goes(r) == Onward(Len(Candidates[r]), pc[r], next[r], pc'[r], next'[r])
Stays(r) == pc'[r] = pc[r] /\ next'[r] = next[r]
OthersStay(r) == \A s \in Requests \ {r} : Stays(s)

LEMMA ChoosingGoes ==
    ASSUME TypeOK, NEW r \in Requests,
           \/ Start(r) \/ GiveUpAll(r) \/ SkipChannel(r) \/ ChooseKey(r)
           \/ PollSucceeds(r) \/ PollFails(r) \/ GiveUpSlot(r)
    PROVE  pc[r] \notin Closed /\ Goes(r) /\ OthersStay(r)
<1>. USE DEF TypeOK, Goto, choice, Goes, Stays, OthersStay, Onward, Trying,
             Holding, Closed, PlacesLeft
<1>1. Len(Candidates[r]) \in Nat BY SlotConstants
<1>2. CASE Start(r) BY <1>2 DEF Start
<1>3. CASE GiveUpAll(r) BY <1>3 DEF GiveUpAll
<1>4. CASE SkipChannel(r) BY <1>4 DEF SkipChannel
<1>5. CASE ChooseKey(r) BY <1>1, <1>5 DEF ChooseKey
<1>6. CASE PollSucceeds(r) BY <1>6 DEF PollSucceeds
<1>7. CASE PollFails(r) BY <1>7 DEF PollFails
<1>8. CASE GiveUpSlot(r) BY <1>8 DEF GiveUpSlot
<1>. QED BY <1>2, <1>3, <1>4, <1>5, <1>6, <1>7, <1>8

LEMMA PackageGoes ==
    ASSUME TypeOK, NEW r \in Requests,
           \/ Acquire(r) \/ PrepareThrows(r)
           \/ PackageRateLimited(r) \/ PackageUnlimited(r) \/ PackageRoom(r)
           \/ PackageQueue(r) \/ PackageTimeout(r) \/ PackageAcquire(r)
    PROVE  pc[r] \notin Closed /\ Goes(r) /\ OthersStay(r)
<1>. USE DEF TypeOK, Goto, choice, Goes, Stays, OthersStay, Onward, Trying,
             Holding, Closed, PlacesLeft, Abort
<1>1. CASE Acquire(r) BY <1>1 DEF Acquire
<1>2. CASE PrepareThrows(r) BY <1>2 DEF PrepareThrows
<1>3. CASE PackageRateLimited(r) BY <1>3 DEF PackageRateLimited
<1>4. CASE PackageUnlimited(r) BY <1>4 DEF PackageUnlimited
<1>5. CASE PackageRoom(r) BY <1>5 DEF PackageRoom
<1>6. CASE PackageQueue(r) BY <1>6 DEF PackageQueue
<1>7. CASE PackageTimeout(r) BY <1>7 DEF PackageTimeout
<1>8. CASE PackageAcquire(r) BY <1>8 DEF PackageAcquire
<1>. QED BY <1>1, <1>2, <1>3, <1>4, <1>5, <1>6, <1>7, <1>8

\* Whom a release wakes goes on, from the queue to the increment.
LEMMA ReleaseGoes ==
    ASSUME IInv, NEW r \in Requests, NEW place, Released(r, place),
           \A s \in Requests \ {r} : next'[s] = next[s]
    PROVE  /\ pc'[r] = place
           /\ \A s \in Requests \ {r} :
                Stays(s) \/ (pc[s] \notin Closed /\ Goes(s))
<1>1. pc' = [q \in Requests |-> IF q = r THEN place
                                ELSE IF q \in WokenBy(r) THEN "pkgWoken"
                                ELSE pc[q]]
  BY DEF Released, Release
<1>2. ASSUME NEW s \in Requests \ {r}, s \in WokenBy(r)
      PROVE  pc[s] \notin Closed /\ Goes(s)
  <2>1. pc[s] = "pkgQueued" BY <1>2, WokenFacts
  <2>2. pc'[s] = "pkgWoken" BY <1>1, <1>2
  <2>. QED BY <2>1, <2>2
       DEF Goes, Onward, Trying, Holding, Closed, PlacesLeft
<1>3. ASSUME NEW s \in Requests \ {r}, s \notin WokenBy(r)
      PROVE  Stays(s)
  BY <1>1, <1>3 DEF Stays
<1>. QED BY <1>1, <1>2, <1>3

LEMMA UpstreamGoes ==
    ASSUME IInv, NEW r \in Requests, UpstreamStep(r)
    PROVE  /\ pc[r] \notin Closed /\ Goes(r)
           /\ \A s \in Requests \ {r} :
                Stays(s) \/ (pc[s] \notin Closed /\ Goes(s))
<1>1. TypeOK BY DEF IInv
<1>2. CASE AnswerStream(r) \/ Transformed(r)
  BY <1>1, <1>2 DEF AnswerStream, Transformed, TypeOK, Goto, choice, Goes,
     Stays, Onward, Trying, Holding, Closed, PlacesLeft
<1>3. CASE \/ CallFails(r) \/ AnswerJson(r) \/ AnswerBinary(r)
           \/ StreamEnds(r) \/ TransformThrows(r)
  <2>1. PICK place : Released(r, place) BY <1>3, Releases
  <2>2. \A s \in Requests \ {r} : next'[s] = next[s]
    BY <1>1, <1>3 DEF TypeOK, CallFails, AnswerJson, AnswerBinary,
                      StreamEnds, TransformThrows
  <2>3. /\ pc'[r] = place
        /\ \A s \in Requests \ {r} :
             Stays(s) \/ (pc[s] \notin Closed /\ Goes(s))
    BY <2>1, <2>2, ReleaseGoes
  <2>4. pc[r] \notin Closed /\ Goes(r)
    BY <1>1, <1>3 DEF TypeOK, CallFails, AnswerJson, AnswerBinary, StreamEnds,
       TransformThrows, Release, Goes, Onward, Trying, Holding, Closed,
       PlacesLeft
  <2>. QED BY <2>3, <2>4
<1>. QED BY <1>2, <1>3 DEF UpstreamStep

\* A request that goes on loses steps and stays on its route; one that stays
\* keeps both.
LEMMA GoingLowers ==
    ASSUME IInv, TypeOK', RouteInv, NEW r \in Requests,
           pc[r] \notin Closed, Goes(r)
    PROVE  /\ StepsLeft(r)' \in 0..StepsLeft(r) /\ StepsLeft(r)' # StepsLeft(r)
           /\ pc'[r] \notin Closed => OnRoute(r)'
<1>1. /\ Len(Candidates[r]) \in Nat
      /\ next[r] \in Nat /\ next'[r] \in Nat
      /\ pc[r] \in Places \ Closed /\ pc'[r] \in Places
  BY SlotConstants DEF IInv, TypeOK
<1>2. next[r] <= Len(Candidates[r]) + (IF pc[r] \in Trying THEN 0 ELSE 1)
  BY DEF RouteInv, OnRoute
<1>3. Onward(Len(Candidates[r]), pc[r], next[r], pc'[r], next'[r])
  BY DEF Goes
<1>4. /\ Measure(Len(Candidates[r]), pc'[r], next'[r])
           \in 0..Measure(Len(Candidates[r]), pc[r], next[r])
      /\ Measure(Len(Candidates[r]), pc'[r], next'[r])
           # Measure(Len(Candidates[r]), pc[r], next[r])
      /\ \/ pc'[r] \in Closed
         \/ next'[r] <= Len(Candidates[r])
                        + (IF pc'[r] \in Trying THEN 0 ELSE 1)
  BY <1>1, <1>2, <1>3, OnwardLowers
<1>. QED BY <1>4, MeasureOf, MeasureOfNext DEF OnRoute

LEMMA StayingKeeps ==
    ASSUME IInv, RouteInv, NEW r \in Requests, Stays(r)
    PROVE  /\ StepsLeft(r)' \in 0..StepsLeft(r)
           /\ pc'[r] \notin Closed => OnRoute(r)'
<1>1. /\ Len(Candidates[r]) \in Nat
      /\ next[r] \in Nat /\ pc[r] \in Places
  BY SlotConstants DEF IInv, TypeOK
<1>2. StepsLeft(r)' = StepsLeft(r) /\ (pc'[r] \notin Closed => OnRoute(r)')
  BY DEF Stays, RouteInv, OnRoute, StepsLeft, CandidatesLeft
<1>3. StepsLeft(r) \in Nat
  <2>1. CASE pc[r] \in Closed BY <2>1 DEF StepsLeft
  <2>2. CASE pc[r] \notin Closed
    <3>1. CandidatesLeft(r) \in Nat
      <4>1. OnRoute(r) BY <2>2 DEF RouteInv
      <4>2. CASE pc[r] \in Trying
        BY <1>1, <4>1, <4>2 DEF CandidatesLeft, OnRoute
      <4>3. CASE pc[r] \notin Trying
        BY <1>1, <4>1, <4>3 DEF CandidatesLeft, OnRoute
      <4>. QED BY <4>2, <4>3
    <3>2. PlacesLeft[pc[r]] \in Nat
      BY <1>1, <2>2 DEF PlacesLeft, Places, Holding, Waiting, Closed
    <3>. QED BY <2>2, <3>1, <3>2 DEF StepsLeft
  <2>. QED BY <2>1, <2>2
<1>. QED BY <1>2, <1>3

\* One step of the gateway: somebody goes on, everybody else goes on or stays.
LEMMA StepGoes ==
    ASSUME IInv, NEW r \in Requests, OwnStep(r) \/ UpstreamStep(r)
    PROVE  /\ pc[r] \notin Closed /\ Goes(r)
           /\ \A s \in Requests :
                Stays(s) \/ (pc[s] \notin Closed /\ Goes(s))
<1>1. TypeOK BY DEF IInv
<1>2. CASE OwnStep(r)
  BY <1>1, <1>2, ChoosingGoes, PackageGoes DEF OwnStep, OthersStay
<1>3. CASE UpstreamStep(r) BY <1>3, UpstreamGoes
<1>. QED BY <1>2, <1>3

LEMMA RouteStep == IInv /\ IInv' /\ RouteInv /\ [Next]_vars => RouteInv'
<1>. SUFFICES ASSUME IInv, IInv', RouteInv, [Next]_vars PROVE RouteInv'
  OBVIOUS
<1>1. \A s \in Requests : Stays(s) \/ (pc[s] \notin Closed /\ Goes(s))
  <2>1. CASE \E r \in Requests : OwnStep(r) \/ UpstreamStep(r)
    BY <2>1, StepGoes
  <2>2. CASE \E k \in Keys : MarkKey(k)
    BY <2>2 DEF MarkKey, choice, Stays
  <2>3. CASE UNCHANGED vars BY <2>3 DEF vars, Stays
  <2>. QED BY <2>1, <2>2, <2>3 DEF Next
<1>2. TypeOK' BY DEF IInv
<1>. QED BY <1>1, <1>2, GoingLowers, StayingKeeps DEF RouteInv

LEMMA RouteInit == Init => RouteInv
<1>. SUFFICES ASSUME Init, NEW r \in Requests PROVE OnRoute(r)
  BY DEF RouteInv
<1>1. Len(Candidates[r]) \in Nat BY SlotConstants
<1>. QED BY <1>1 DEF Init, OnRoute, Trying, Holding

\* No livelock behind the waits: however often slots are released, given to
\* another and released again, and whatever keys are marked, no request is
\* set back by another, and every step but a mark takes one of them nearer to
\* its end; so only an upstream can keep a request from ending.
THEOREM WaitsAreFinite == Spec => WaitsRunDown
<1>1. ASSUME IInv, IInv', RouteInv, Next
      PROVE  /\ \A s \in Requests : StepsLeft(s)' \in 0..StepsLeft(s)
             /\ bad' = bad => \E s \in Requests : StepsLeft(s)' # StepsLeft(s)
  <2>1. TypeOK' BY <1>1 DEF IInv
  <2>2. CASE \E r \in Requests : OwnStep(r) \/ UpstreamStep(r)
    <3>1. PICK r \in Requests : OwnStep(r) \/ UpstreamStep(r) BY <2>2
    <3>2. /\ pc[r] \notin Closed /\ Goes(r)
          /\ \A s \in Requests : Stays(s) \/ (pc[s] \notin Closed /\ Goes(s))
      BY <1>1, <3>1, StepGoes
    <3>3. \A s \in Requests : StepsLeft(s)' \in 0..StepsLeft(s)
      BY <1>1, <2>1, <3>2, GoingLowers, StayingKeeps
    <3>4. StepsLeft(r)' # StepsLeft(r) BY <1>1, <2>1, <3>2, GoingLowers
    <3>. QED BY <3>3, <3>4
  <2>3. CASE \E k \in Keys : MarkKey(k)
    <3>1. bad' # bad BY <2>3 DEF MarkKey
    <3>2. \A s \in Requests : Stays(s) BY <2>3 DEF MarkKey, choice, Stays
    <3>. QED BY <1>1, <3>1, <3>2, StayingKeeps
  <2>. QED BY <1>1, <2>2, <2>3 DEF Next
<1>2. IInv /\ IInv' /\ RouteInv /\ [Next]_vars
      => [/\ \A r \in Requests : StepsLeft(r)' \in 0..StepsLeft(r)
          /\ bad' = bad =>
                \E r \in Requests : StepsLeft(r)' # StepsLeft(r)]_vars
  BY <1>1
<1>. QED BY <1>2, RouteInit, RouteStep, Invariance, PTL DEF Spec, WaitsRunDown
=============================================================================
