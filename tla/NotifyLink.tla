------------------------------ MODULE NotifyLink ------------------------------
(***************************************************************************)
(* What a listener of packages/pg-listen promises the code that uses it:   *)
(* while its LISTEN is in force, notifications arrive in order, each once; *)
(* whenever it is not, it comes into force again, unless the connection    *)
(* hangs; what is sent meanwhile, or on its way when a connection is lost, *)
(* is lost.                                                                *)
(***************************************************************************)
EXTENDS Sequences

CONSTANT Payloads

VARIABLES
    on,        \* notifications sent now will be on their way
    arriving,  \* those on their way, oldest first
    hung       \* the connection is lost and nobody will find out

vars == <<on, arriving, hung>>

Init ==
    /\ on = FALSE
    /\ arriving = <<>>
    /\ hung = FALSE

Register ==
    /\ ~on /\ ~hung
    /\ on' = TRUE
    /\ UNCHANGED <<arriving, hung>>

Publish(k) ==
    /\ on
    /\ arriving' = Append(arriving, k)
    /\ UNCHANGED <<on, hung>>

Deliver ==
    /\ arriving # <<>>
    /\ arriving' = Tail(arriving)
    /\ UNCHANGED <<on, hung>>

\* The server ends the session; what it has sent may still arrive.
Drop ==
    /\ on' = FALSE
    /\ UNCHANGED <<arriving, hung>>

Lose ==
    /\ on' = FALSE
    /\ arriving' = <<>>
    /\ hung' \in BOOLEAN

Next == Register \/ (\E k \in Payloads : Publish(k)) \/ Deliver \/ Drop \/ Lose

Spec == Init /\ [][Next]_vars /\ WF_vars(Register) /\ WF_vars(Deliver)
=============================================================================
