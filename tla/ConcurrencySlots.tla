-------------------------- MODULE ConcurrencySlots --------------------------
(***************************************************************************)
(* The two in-memory semaphores of dispatch(): keyConcurrencyMap, which    *)
(* counts the requests in flight per channel and key index and is waited   *)
(* for by polling, and packageConcurrencyMap (services/ratelimit.ts),      *)
(* which counts them per user and package rule and is waited for in a      *)
(* queue of callbacks.  Every await between a check and the increment it   *)
(* guards, and between an increment and its release, separates actions.    *)
(*                                                                         *)
(* Abstracted: the money (Dispatch), why a channel is a candidate or a key *)
(* is marked (ChannelHealth), the cross-group retry that appends           *)
(* candidates (Dispatch).                                                  *)
(***************************************************************************)
EXTENDS Integers, Sequences, FiniteSets

CONSTANTS
    Requests, Channels, Keys, Locks,
    NoLock,
    Candidates,  \* the channels of the loop, in order, per request
    KeysOf,      \* the keys of a channel, in order
    MaxKeys,     \* no channel has more
    KeyLimit,    \* channels.key_concurrency_limit; 0 = unlimited
    Sequential,  \* channels that always take their first key
    LockOf,      \* the user and rule of a package request, or NoLock
    LockLimit,   \* rate_limit_rules.concurrent; 0 = not limited
    Markable     \* keys that may be marked exhausted and restored

ASSUME SlotConstants ==
    /\ Candidates \in [Requests -> Seq(Channels)]
    /\ Channels # {} /\ Keys # {}
    /\ MaxKeys \in Nat \ {0}
    /\ KeysOf \in [Channels -> Seq(Keys)]
    /\ \A c \in Channels : Len(KeysOf[c]) <= MaxKeys
    /\ IsFiniteSet(Requests)
    /\ KeyLimit \in [Channels -> Nat]
    /\ Sequential \subseteq Channels
    /\ NoLock \notin Locks
    /\ LockOf \in [Requests -> Locks \cup {NoLock}]
    /\ LockLimit \in [Locks -> Nat]
    /\ Markable \subseteq Keys

VARIABLES
    active,    \* keyConcurrencyMap, by lockId = channel and key index
    pkgActive, \* packageConcurrencyMap, by user and rule
    waiters,   \* concurrencyWaiters: the queue of each lock
    bad,       \* keys whose keyStatus is exhausted or invalid
    view,      \* the keyStatus in the request's candidate snapshot
    pc, next,  \* the request's place and the index of its next candidate
    slot, key, \* its lockId and the key it uses
    leaked,    \* history: requests that ended without a release, per slot
    doubled    \* history: a request released its slots a second time

vars == <<active, pkgActive, waiters, bad, view, pc, next, slot, key, leaked,
          doubled>>
history == <<leaked, doubled>>
package == <<pkgActive, waiters>>
choice == <<view, next, slot, key>>

Slots == Channels \X (1..MaxKeys)
\* Places after the increment of keyConcurrencyMap and before a release.
Holding == {"limiting", "pkgGranted", "pkgQueued", "pkgWoken", "calling",
            "streaming"}
PkgHolding == {"calling", "streaming"}
Waiting == {"polling", "waiting", "pkgQueued"}
Closed == {"served", "failed", "aborted"}
Places == {"new", "choosing", "granted", "transforming"}
          \cup Holding \cup Waiting \cup Closed

Holders(s) == {r \in Requests : pc[r] \in Holding /\ slot[r] = s}
Limited(r) == LockOf[r] \in Locks /\ LockLimit[LockOf[r]] > 0
PkgHolders(l) == {r \in Requests : pc[r] \in PkgHolding /\ Limited(r)
                                   /\ LockOf[r] = l}
Woken(l) == {r \in Requests : pc[r] = "pkgWoken" /\ LockOf[r] = l}

TypeOK ==
    /\ active \in [Slots -> Nat]
    /\ pkgActive \in [Locks -> Nat]
    /\ waiters \in [Locks -> Seq(Requests)]
    /\ bad \subseteq Keys
    /\ view \in [Requests -> SUBSET Keys]
    /\ pc \in [Requests -> Places]
    /\ next \in [Requests -> Nat \ {0}]
    /\ slot \in [Requests -> Slots]
    /\ key \in [Requests -> Keys]
    /\ leaked \in [Slots -> Nat]
    /\ doubled \in BOOLEAN

Init ==
    /\ active = [s \in Slots |-> 0]
    /\ pkgActive = [l \in Locks |-> 0]
    /\ waiters = [l \in Locks |-> <<>>]
    /\ bad = {}
    /\ view = [r \in Requests |-> {}]
    /\ pc = [r \in Requests |-> "new"]
    /\ next = [r \in Requests |-> 1]
    /\ slot = [r \in Requests |-> CHOOSE s \in Slots : TRUE]
    /\ key = [r \in Requests |-> CHOOSE k \in Keys : TRUE]
    /\ leaked = [s \in Slots |-> 0]
    /\ doubled = FALSE

Goto(r, place) == pc' = [pc EXCEPT ![r] = place]

-----------------------------------------------------------------------------
(* Key selection.                                                          *)

\* The circuit breaker marks a key, or a health probe restores it; the next
\* candidate snapshots show it.
MarkKey(k) ==
    /\ k \in Markable
    /\ bad' = IF k \in bad THEN bad \ {k} ELSE bad \cup {k}
    /\ UNCHANGED <<active, package, pc, choice, history>>

\* The request takes its snapshot of the candidate channels.
Start(r) ==
    /\ pc[r] = "new"
    /\ view' = [view EXCEPT ![r] = bad]
    /\ Goto(r, "choosing")
    /\ UNCHANGED <<active, package, bad, next, slot, key, history>>

Enabled(r, c) == {i \in 1..Len(KeysOf[c]) : KeysOf[c][i] \notin view[r]}

\* The index of a key in enabledKeys.
Rank(r, c, i) == Cardinality({j \in Enabled(r, c) : j <= i})

\* All candidates were tried.
GiveUpAll(r) ==
    /\ pc[r] = "choosing"
    /\ next[r] > Len(Candidates[r])
    /\ Goto(r, "failed")
    /\ UNCHANGED <<active, package, bad, choice, history>>

\* The channel has no key left, or its provider's own rate limit is hit.
SkipChannel(r) ==
    /\ pc[r] = "choosing"
    /\ next[r] <= Len(Candidates[r])
    /\ next' = [next EXCEPT ![r] = @ + 1]
    /\ UNCHANGED <<active, package, bad, pc, view, slot, key, history>>

\* One of the enabled keys is chosen (polling and random: any; sequential:
\* the first); the slot is named by its index AMONG THE ENABLED keys.
ChooseKey(r) ==
    /\ pc[r] = "choosing"
    /\ next[r] <= Len(Candidates[r])
    /\ LET c == Candidates[r][next[r]]
       IN \E i \in Enabled(r, c) :
            /\ c \in Sequential => Rank(r, c, i) = 1
            /\ slot' = [slot EXCEPT ![r] = <<c, Rank(r, c, i)>>]
            /\ key' = [key EXCEPT ![r] = KeysOf[c][i]]
            /\ Goto(r, IF KeyLimit[c] > 0 THEN "polling" ELSE "granted")
    /\ UNCHANGED <<active, package, bad, view, next, history>>

-----------------------------------------------------------------------------
(* waitForConcurrencyRelease and the increment.                            *)

\* A poll finds the counter below the limit; the caller resumes later.
PollSucceeds(r) ==
    /\ pc[r] \in {"polling", "waiting"}
    /\ active[slot[r]] < KeyLimit[slot[r][1]]
    /\ Goto(r, "granted")
    /\ UNCHANGED <<active, package, bad, choice, history>>

\* It does not, and sleeps 100ms.
PollFails(r) ==
    /\ pc[r] = "polling"
    /\ active[slot[r]] >= KeyLimit[slot[r][1]]
    /\ Goto(r, "waiting")
    /\ UNCHANGED <<active, package, bad, choice, history>>

GiveUpNever(r) ==
    /\ pc[r] = "waiting"
    /\ active[slot[r]] < KeyLimit[slot[r][1]]
    /\ next' = [next EXCEPT ![r] = @ + 1]
    /\ Goto(r, "choosing")
    /\ UNCHANGED <<active, package, bad, view, slot, key, history>>
\* 15s of failed polls: on to the next candidate.
GiveUpSlot(r) ==
    /\ pc[r] = "waiting"
    /\ next' = [next EXCEPT ![r] = @ + 1]
    /\ Goto(r, "choosing")
    /\ UNCHANGED <<active, package, bad, view, slot, key, history>>

\* The counter goes up whether or not the channel is limited, and the
\* upstream request is prepared in the same synchronous step.
Acquire(r) ==
    /\ pc[r] = "granted"
    /\ active' = [active EXCEPT ![slot[r]] = @ + 1]
    /\ Goto(r, IF LockOf[r] = NoLock THEN "calling" ELSE "limiting")
    /\ UNCHANGED <<package, bad, choice, history>>

\* Building the URL, the headers or the body throws, outside the try block.
PrepareThrows(r) ==
    /\ pc[r] = "granted"
    /\ active' = [active EXCEPT ![slot[r]] = @ + 1]
    /\ leaked' = [leaked EXCEPT ![slot[r]] = @ + 1]
    /\ Goto(r, "aborted")
    /\ UNCHANGED <<package, bad, choice, doubled>>

-----------------------------------------------------------------------------
(* The package limits, between the increment and the try block.            *)

\* A throw here ends dispatch() with the key's slot still counted.
Abort(r) ==
    /\ leaked' = [leaked EXCEPT ![slot[r]] = @ + 1]
    /\ Goto(r, "aborted")
    /\ UNCHANGED doubled

PackageRateLimited(r) ==
    /\ pc[r] = "limiting"
    /\ Abort(r)
    /\ UNCHANGED <<active, package, bad, choice>>

\* The rule does not limit concurrency: no package slot is taken.
PackageUnlimited(r) ==
    /\ pc[r] = "limiting"
    /\ ~Limited(r)
    /\ Goto(r, "calling")
    /\ UNCHANGED <<active, package, bad, choice, history>>

\* waitForPackageConcurrency finds room; its caller resumes later.
PackageRoom(r) ==
    /\ pc[r] = "limiting" /\ Limited(r)
    /\ pkgActive[LockOf[r]] < LockLimit[LockOf[r]]
    /\ Goto(r, "pkgGranted")
    /\ UNCHANGED <<active, package, bad, choice, history>>

PackageQueue(r) ==
    /\ pc[r] = "limiting" /\ Limited(r)
    /\ pkgActive[LockOf[r]] >= LockLimit[LockOf[r]]
    /\ waiters' = [waiters EXCEPT ![LockOf[r]] = Append(@, r)]
    /\ Goto(r, "pkgQueued")
    /\ UNCHANGED <<active, pkgActive, bad, choice, history>>

\* queue.splice(i, 1)
Splice(q, i) ==
    [j \in 1..(Len(q) - 1) |-> IF j < i THEN q[j] ELSE q[j + 1]]

PackageTimeoutKeepsCallback(r) ==
    /\ pc[r] = "pkgQueued"
    /\ Abort(r)
    /\ UNCHANGED <<active, package, bad, choice>>
\* The timer fires: the callback leaves the queue and the caller throws.
PackageTimeout(r) ==
    /\ pc[r] = "pkgQueued"
    /\ \E i \in 1..Len(waiters[LockOf[r]]) :
         /\ waiters[LockOf[r]][i] = r
         /\ waiters' = [waiters EXCEPT ![LockOf[r]] = Splice(@, i)]
    /\ Abort(r)
    /\ UNCHANGED <<active, pkgActive, bad, choice>>

PackageAcquire(r) ==
    /\ pc[r] \in {"pkgGranted", "pkgWoken"}
    /\ pkgActive' = [pkgActive EXCEPT ![LockOf[r]] = @ + 1]
    /\ Goto(r, "calling")
    /\ UNCHANGED <<active, waiters, bad, choice, history>>

-----------------------------------------------------------------------------
(* The release, at five places of dispatch() and handleStreamBilling().    *)

DecrementBelowZero(n) == n - 1
Decrement(n) == IF n > 0 THEN n - 1 ELSE n

\* notifyConcurrencyRelease resolves the first waiter of the lock.
WokenBy(r) ==
    IF Limited(r) /\ waiters[LockOf[r]] # <<>>
    THEN {Head(waiters[LockOf[r]])} ELSE {}

\* releasePackageConcurrency's counter.
ReleasePackage(r) ==
    pkgActive' = [l \in Locks |-> IF Limited(r) /\ l = LockOf[r]
                                  THEN Decrement(pkgActive[l])
                                  ELSE pkgActive[l]]

\* Release both slots, wake one waiter and leave r at a place.
Release(r, place) ==
    /\ active' = [active EXCEPT ![slot[r]] = Decrement(@)]
    /\ ReleasePackage(r)
    /\ waiters' = [l \in Locks |-> IF l = LockOf[r] /\ WokenBy(r) # {}
                                   THEN Tail(waiters[l]) ELSE waiters[l]]
    /\ pc' = [q \in Requests |-> IF q = r THEN place
                                 ELSE IF q \in WokenBy(r) THEN "pkgWoken"
                                 ELSE pc[q]]
    /\ UNCHANGED <<bad, view, slot, key, leaked>>

CallFailsKeepsSlot(r) ==
    /\ pc[r] = "calling"
    /\ Goto(r, "choosing")
    /\ next' = [next EXCEPT ![r] = @ + 1]
    /\ UNCHANGED <<active, package, bad, view, slot, key, history>>
\* The pre-check, the upstream or the settlement fails: the catch block
\* releases and the loop goes on.
CallFails(r) ==
    /\ pc[r] = "calling"
    /\ Release(r, "choosing")
    /\ next' = [next EXCEPT ![r] = @ + 1]
    /\ UNCHANGED doubled

\* A JSON answer is settled and logged, then transformed.
AnswerJson(r) ==
    /\ pc[r] = "calling"
    /\ Release(r, "transforming")
    /\ UNCHANGED <<next, doubled>>

AnswerBinary(r) ==
    /\ pc[r] = "calling"
    /\ Release(r, "served")
    /\ UNCHANGED <<next, doubled>>

AnswerStream(r) ==
    /\ pc[r] = "calling"
    /\ Goto(r, "streaming")
    /\ UNCHANGED <<active, package, bad, choice, history>>

\* The finally block of handleStreamBilling.
StreamEnds(r) ==
    /\ pc[r] = "streaming"
    /\ Release(r, "served")
    /\ UNCHANGED <<next, doubled>>

Transformed(r) ==
    /\ pc[r] = "transforming"
    /\ Goto(r, "served")
    /\ UNCHANGED <<active, package, bad, choice, history>>

\* transformResponse or the video polling throws: the same catch block
\* releases the slots a second time.
TransformThrows(r) ==
    /\ pc[r] = "transforming"
    /\ Release(r, "choosing")
    /\ next' = [next EXCEPT ![r] = @ + 1]
    /\ doubled' = TRUE

-----------------------------------------------------------------------------
\* The steps of the gateway itself, as opposed to those of an upstream that
\* may answer late or never.
OwnStep(r) ==
    \/ Start(r) \/ GiveUpAll(r) \/ SkipChannel(r) \/ ChooseKey(r)
    \/ PollSucceeds(r) \/ PollFails(r) \/ GiveUpSlot(r)
    \/ Acquire(r) \/ PrepareThrows(r)
    \/ PackageRateLimited(r) \/ PackageUnlimited(r) \/ PackageRoom(r)
    \/ PackageQueue(r) \/ PackageTimeout(r) \/ PackageAcquire(r)

UpstreamStep(r) ==
    \/ CallFails(r) \/ AnswerJson(r) \/ AnswerBinary(r) \/ AnswerStream(r)
    \/ StreamEnds(r) \/ Transformed(r) \/ TransformThrows(r)

Next ==
    \/ \E r \in Requests : OwnStep(r) \/ UpstreamStep(r)
    \/ \E k \in Keys : MarkKey(k)

\* Timers and resolved promises run eventually; once its headers are in, an
\* upstream may take for ever (the abort timer is cleared).
Fairness == \A r \in Requests : WF_vars(OwnStep(r))

Spec == Init /\ [][Next]_vars /\ Fairness

-----------------------------------------------------------------------------
(* Correctness.                                                            *)

\* As long as no throw has followed a release, a key counter is the number of the
\* requests between increment and release plus those that ended before the
\* try block: no path releases twice or forgets to.
KeySlotsAccounted ==
    ~doubled =>
        \A s \in Slots : active[s] = Cardinality(Holders(s)) + leaked[s]

\* Package slots are only taken right before the try block, so they do not
\* leak: the counter is exactly the number of package requests in flight.
PackageSlotsAccounted ==
    ~doubled =>
        \A l \in Locks : pkgActive[l] = Cardinality(PkgHolders(l))

\* Neither kind of slot is lost or given away twice.
SlotsAccounted == KeySlotsAccounted /\ PackageSlotsAccounted

\* A request sleeps in the queue only while the lock is fully counted, a
\* resumed waiter being as good as counted: no release is lost on it, even
\* when slots are released twice.
NoLostWakeup ==
    \A l \in Locks : waiters[l] # <<>> =>
        pkgActive[l] + Cardinality(Woken(l)) >= LockLimit[l]

\* The queue holds exactly the requests that sleep in it, each once: a
\* callback that timed out or was resolved never swallows a later release.
NoGhostWaiter ==
    \A l \in Locks :
        /\ {waiters[l][i] : i \in 1..Len(waiters[l])}
             = {r \in Requests : pc[r] = "pkgQueued" /\ LockOf[r] = l}
        /\ \A i, j \in 1..Len(waiters[l]) :
             waiters[l][i] = waiters[l][j] => i = j

\* A release wakes exactly one sleeper, whatever arrives or times out meanwhile.
QueuesHold == NoLostWakeup /\ NoGhostWaiter

\* Every wait for a slot ends, by a slot or by its timer, even when no
\* upstream ever answers.
WaitsEnd ==
    \A r \in Requests : pc[r] \in Waiting ~> pc[r] \notin Waiting

\* The places of a request that has a candidate in hand.
Trying == {"granted", "transforming", "polling", "waiting"} \cup Holding

\* The candidates a request may still take, and the steps the longest path
\* takes through one of them and to the next.
CandidatesLeft(r) ==
    Len(Candidates[r]) - next[r] + (IF pc[r] \in Trying THEN 0 ELSE 1)
PlacesLeft ==
    [polling |-> 9, waiting |-> 8, granted |-> 7, limiting |-> 6,
     pkgQueued |-> 5, pkgGranted |-> 4, pkgWoken |-> 4, calling |-> 3,
     streaming |-> 2, transforming |-> 2, new |-> 2, choosing |-> 1]
StepsLeft(r) ==
    IF pc[r] \in Closed THEN 0 ELSE 9 * CandidatesLeft(r) + PlacesLeft[pc[r]]

\* Why the waits cannot chase each other: whatever a request does, releases
\* and wakes, nobody is set back by it, and every step but the marking of a key
\* takes somebody further.
WaitsRunDown ==
    [][/\ \A r \in Requests : StepsLeft(r)' \in 0..StepsLeft(r)
       /\ bad' = bad => \E r \in Requests : StepsLeft(r)' # StepsLeft(r)]_vars

\* Line 495: the key slot is a semaphore: never more requests in flight on
\* a slot than the channel's key_concurrency_limit.
SemaphoreHolds ==
    \A s \in Slots :
        KeyLimit[s[1]] > 0 => Cardinality(Holders(s)) <= KeyLimit[s[1]]
=============================================================================
