--------------------------- MODULE ResetCalendar ----------------------------
(***************************************************************************)
(* When the quota of a subscription is refilled.  Instants are naturals;   *)
(* a day, a week and a month are regular divisions of them, UnitLength     *)
(* instants each, and an hour is HourLength instants.  A date is rounded   *)
(* down to the start of its unit by \div, as startOfDay, startOfNextWeek   *)
(* and startOfNextMonth do.  Daylight saving and the lengths of months are *)
(* not modelled.                                                           *)
(***************************************************************************)
EXTENDS Integers, FiniteSets

CONSTANTS
    UnitLength,  \* instants in a "daily", "weekly" and "monthly" unit
    HourLength,  \* instants in an hour
    CycleCap     \* countResetCycles gives up beyond this many cycles (1000)

Calendars == {"daily", "weekly", "monthly"}

ASSUME UnitsAssumption ==
    /\ UnitLength \in [Calendars -> Nat \ {0}]
    /\ HourLength \in Nat \ {0}
    /\ CycleCap \in Nat \ {0}

NoReset == -1

AtLeast(n, floor) == IF n < floor THEN floor ELSE n

\* Missing numbers have their defaults already: 30 for the days, else 0.
DurationEnd(pkg, now) ==
    LET times == AtLeast(pkg.durationValue, 1)
        days == AtLeast(pkg.durationDays, 1)
    IN  now + CASE pkg.durationUnit = "year" -> 12 * times * UnitLength["monthly"]
                [] pkg.durationUnit = "month" -> times * UnitLength["monthly"]
                [] pkg.durationUnit = "day" ->
                        AtLeast(times, days) * UnitLength["daily"]
                [] pkg.durationUnit = "hour" -> times * HourLength
                [] pkg.durationUnit = "custom" -> AtLeast(pkg.customLength, 1)
                [] pkg.durationUnit = "other" -> days * UnitLength["daily"]

\* The explicit policy of a package, else the one of its older cycle columns.
OfCycleUnit == [day |-> "daily", week |-> "weekly", month |-> "monthly"]

ResolveResetPolicy(pkg) ==
    LET interval == AtLeast(pkg.cycleInterval, 1)
    IN  CASE pkg.resetPeriod \in Calendars ->
                [period |-> pkg.resetPeriod, interval |-> 1, length |-> 0]
          [] pkg.resetPeriod = "custom" ->
                [period |-> "custom", interval |-> interval,
                 length |-> AtLeast(pkg.resetLength, 1)]
          [] pkg.resetPeriod = "never" /\ pkg.cycleUnit \in DOMAIN OfCycleUnit ->
                [period |-> OfCycleUnit[pkg.cycleUnit],
                 interval |-> interval, length |-> 0]
          [] pkg.resetPeriod = "never" /\ pkg.cycleUnit = "hour" ->
                [period |-> "custom", interval |-> 1,
                 length |-> interval * HourLength]
          [] pkg.resetPeriod = "never" /\ pkg.cycleUnit = "none" ->
                [period |-> "never", interval |-> 1, length |-> 0]

\* The reset after base, without regard to the end of the subscription.
FollowingReset(base, policy) ==
    IF policy.period = "custom" THEN base + policy.length
    ELSE LET unit == UnitLength[policy.period]
         IN  (base \div unit + policy.interval) * unit

CalculateNextReset(base, policy, end) ==
    IF policy.period = "never" \/ FollowingReset(base, policy) > end
    THEN NoReset
    ELSE FollowingReset(base, policy)

\* The n-th reset after last, however late.
NthReset(last, policy, n) ==
    LET reset[i \in 0 .. n] ==
            IF i = 0 THEN last ELSE FollowingReset(reset[i - 1], policy)
    IN  reset[n]

\* The loop walks from reset to reset; a custom period divides.
CountResetCycles(last, now, policy) ==
    CASE policy.period = "never" -> 0
      [] policy.period = "custom" ->
            IF now < last THEN 0 ELSE (now - last) \div policy.length
      [] policy.period \in Calendars ->
            LET walk[n \in 0 .. CycleCap + 1] ==
                    IF n = CycleCap + 1 \/ NthReset(last, policy, n + 1) > now
                    THEN n ELSE walk[n + 1]
            IN  walk[0]

\* mutant: the cursor moves by one reset, however many cycles are paid for
AdvanceCursorOnce(last, cycles, policy, end) ==
    IF cycles = 0 \/ CalculateNextReset(last, policy, end) = NoReset THEN last
    ELSE FollowingReset(last, policy)

\* Where the cursor of a refill of so many cycles stops: at the last reset
\* that does not exceed the end of the subscription.
AdvanceCursor(last, cycles, policy, end) ==
    LET cursor[i \in 0 .. cycles] ==
            IF i = 0 THEN last
            ELSE IF CalculateNextReset(cursor[i - 1], policy, end) = NoReset
                 THEN cursor[i - 1]
                 ELSE FollowingReset(cursor[i - 1], policy)
    IN  cursor[cycles]

(***************************************************************************)
(* The reference: the resets of a subscription that started at start are   *)
(* the instants a calendar would mark, every interval-th boundary of the   *)
(* unit, or every length-th instant after the start.                       *)
(***************************************************************************)
IsReset(start, t, policy) ==
    CASE policy.period = "never" -> FALSE
      [] policy.period = "custom" -> (t - start) % policy.length = 0
      [] policy.period \in Calendars ->
            LET unit == UnitLength[policy.period]
            IN  /\ t % unit = 0
                /\ (t \div unit - start \div unit) % policy.interval = 0

ResetInstants(start, until, policy) ==
    {t \in start + 1 .. until : IsReset(start, t, policy)}

\* countResetCycles counts the instants of the reference up to the cap of its
\* loop, and says one more than the cap beyond it.
CountsResets(last, t, policy) ==
    LET instants == Cardinality(ResetInstants(last, t, policy))
    IN  CountResetCycles(last, t, policy) =
            IF policy.period \in Calendars /\ instants > CycleCap
            THEN CycleCap + 1 ELSE instants
=============================================================================
