----------------------------- MODULE MCDispatch -----------------------------
(* Instances of Dispatch: two or three requests of one user, some on the   *)
(* same token or with the same idempotency key, one of them routed         *)
(* automatically over two groups of one channel each.                      *)
EXTENDS DispatchAccounts, TLC

CONSTANTS r1, r2, r3, u1, t1, t2, g1, g2, k1

MCUserOf == [r \in Requests |-> u1]
MCTokenOf == [r \in Requests |-> IF r = r3 THEN t2 ELSE t1]
MCKeyOf == [r \in Requests |-> IF r = r3 THEN NoKey ELSE k1]
MCHomeGroup == [r \in Requests |-> g1]
MCAutoGroups == <<g1, g2>>
MCRoutes == g1 :> 1 @@ g2 :> 1
MCEstimate == g1 :> 2 @@ g2 :> 3
MCQuota == u1 :> 5
MCUnmetered == t1 :> -1 @@ t2 :> -1
MCMetered == t1 :> 3 @@ t2 :> 9
=============================================================================
