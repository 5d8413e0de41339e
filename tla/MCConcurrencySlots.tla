------------------------ MODULE MCConcurrencySlots ------------------------
(* Instances of ConcurrencySlots: two or three requests over two channels  *)
(* with one or two keys, two of them sharing a package rule of one slot,   *)
(* the third under a rule that does not limit concurrency.                 *)
EXTENDS ConcurrencySlots, TLC

CONSTANTS r1, r2, r3, c1, c2, k1, k2, l1, l2

MCCandidates == r1 :> <<c1, c1>> @@ r2 :> <<c1, c2>> @@ r3 :> <<c2>>
MCOneChannel == [r \in Requests |-> <<c1>>]
MCKeysOf == c1 :> <<k1, k2>> @@ c2 :> <<k1>>
MCKeyLimit == c1 :> 1 @@ c2 :> 0
MCLockOf == r1 :> l1 @@ r2 :> l1 @@ r3 :> l2
MCNoPackage == [r \in Requests |-> NoLock]
MCLockLimit == l1 :> 1 @@ l2 :> 0
=============================================================================
