---------------------------- MODULE MCTaskQueue -----------------------------
(* One task and one batch on queues that retry a job once. *)
EXTENDS TaskQueue, TLC

CONSTANTS t1, b1
=============================================================================
