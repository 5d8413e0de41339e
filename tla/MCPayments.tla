----------------------------- MODULE MCPayments -----------------------------
(* One user, two requests in flight.  The gold package runs for two        *)
(* instants and may be bought once, silver for three, by its older cycle   *)
(* columns, in the group the user had before any; both are refilled every  *)
(* instant.                                                                *)
EXTENDS Payments, TLC

CONSTANTS gold, silver, vip, base, none, q1, q2, t1, o1, o2, c1

Plan(upgrade, limit, reset, unit, interval, days) ==
    [enabled |-> TRUE, limit |-> limit, upgradeGroup |-> upgrade,
     cycleQuota |-> 1, resetPeriod |-> reset, resetLength |-> 0,
     cycleUnit |-> unit, cycleInterval |-> interval, durationUnit |-> "day",
     durationValue |-> days, durationDays |-> 1, customLength |-> 0]

MCPackage == gold :> Plan(vip, 1, "daily", "none", 1, 2)
          @@ silver :> Plan(base, 0, "never", "day", 1, 3)
MCPackageOf == o1 :> gold @@ o2 :> silver
MCUnitLength == [u \in Calendars |-> IF u = "daily" THEN 1 ELSE 3]
MCCount == [c \in Codes |-> 1]

\* Up to the cap, the loop and the division of countResetCycles count the
\* instants of the reference, for every kind of policy.
Policies ==
    [period : Calendars, interval : 1 .. 3, length : {0}]
    \union [period : {"custom"}, interval : {1}, length : 1 .. 3]
    \union [period : {"never"}, interval : {1}, length : {0}]

ASSUME CyclesAreResets ==
    \A policy \in Policies, last \in 0 .. 6, t \in 0 .. 12 :
        CountsResets(last, t, policy)
=============================================================================
