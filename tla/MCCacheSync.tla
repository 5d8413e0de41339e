----------------------------- MODULE MCCacheSync -----------------------------
(* Instances of CacheSync: two processes, the first with two refreshes.    *)
EXTENDS CacheSync, TLC

CONSTANTS p1, p2, t1, t2, u1

MCOwner == [t \in Tasks |-> IF t \in {t1, t2} THEN p1 ELSE p2]
MCBoot == [p \in Procs |-> IF p = p1 THEN t1 ELSE u1]
=============================================================================
