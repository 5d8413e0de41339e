--------------------------- MODULE MCChannelHealth ---------------------------
(* Instances of ChannelHealth: the calls happen in one process, the health *)
(* check in another one if there are two.                                  *)
EXTENDS ChannelHealth, TLC

CONSTANTS p1, p2, k1, k2, c1, c2, h1

MCProcOf == [f \in Fibers |-> IF f \in Checkers /\ p2 \in Procs THEN p2 ELSE p1]
=============================================================================
