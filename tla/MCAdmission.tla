---------------------------- MODULE MCAdmission -----------------------------
(* Three requests of one token in one process.  With a single failing       *)
(* statement one process has a fallback window that counts, the other one  *)
(* would show nothing more; the windows and budgets are shared in any case. *)
EXTENDS Admission, TLC

CONSTANTS r1, r2, r3, p1, hourly, never

MCRequests == {r1, r2, r3}
MCProcOf == [r \in MCRequests |-> p1]
MCLimit == [w \in Windows |-> IF w = "total" THEN 2 ELSE 1]
MCLength == [w \in Windows |-> CASE w = "token" -> 1 [] w = "total" -> 3 [] w = "success" -> 2]
MCBudgets == {hourly, never}
MCPeriod == (hourly :> 1) @@ (never :> 0)
MCBudgetLimit == (hourly :> 1) @@ (never :> 3)
MCCosts == {1, 2}
MCSymmetry == Permutations(MCRequests)
=============================================================================
