---------------------------- MODULE ChargeLedger ----------------------------
(***************************************************************************)
(* What the gateway promises about money, without estimates, retries,      *)
(* streams or transactions: every request is either charged its cost to    *)
(* its user, once, or ends without being charged.  A request may be        *)
(* spoiled: it then takes from its user, or gives back, anything.          *)
(***************************************************************************)
EXTENDS Integers

CONSTANTS Requests, Users, UserOf, InitBalance, Costs

VARIABLES
    balance,  \* what a user has left once all open requests are forgotten
    bill      \* "open", "charged", "free" or "spoiled"

vars == <<balance, bill>>

Init ==
    /\ balance = InitBalance
    /\ bill = [r \in Requests |-> "open"]

Charge(r) ==
    /\ bill[r] = "open"
    /\ \E c \in Costs : balance' = [balance EXCEPT ![UserOf[r]] = @ - c]
    /\ bill' = [bill EXCEPT ![r] = "charged"]

Waive(r) ==
    /\ bill[r] = "open"
    /\ bill' = [bill EXCEPT ![r] = "free"]
    /\ UNCHANGED balance

Spoil(r) ==
    /\ bill' = [bill EXCEPT ![r] = "spoiled"]
    /\ balance' \in [Users -> Int]
    /\ \A u \in Users \ {UserOf[r]} : balance'[u] = balance[u]

Next == \E r \in Requests : Charge(r) \/ Waive(r) \/ Spoil(r)

Spec == Init /\ [][Next]_vars
=============================================================================
