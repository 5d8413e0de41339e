--------------------------- MODULE MCBillingQueue ---------------------------
(* Instances of BillingQueue: two or three records, one of them of an      *)
(* organisation, queues of two, one flush retry and one pg-boss retry.     *)
EXTENDS BillingQueue, TLC

CONSTANTS b1, b2, b3
=============================================================================
