------------------------------ MODULE Calendar ------------------------------
(***************************************************************************)
(* The clock that timers and log files look at, and the calendar that      *)
(* get_time_info makes of it.  A time is a number of units since a         *)
(* midnight; the lengths of minutes, hours and days are parameters, so     *)
(* that a few of each fit into an instance.                                *)
(***************************************************************************)
EXTENDS Integers

CONSTANTS
  UnitsPerMinute, MinutesPerHour, HoursPerDay, DaysPerWeek, DaysPerMonth,
  MaxTime   (* bound on the clock, past its first minute                   *)

ASSUME CalendarAssumption ==
  /\ UnitsPerMinute \in Nat \ {0} /\ MinutesPerHour \in Nat \ {0}
  /\ HoursPerDay \in Nat \ {0} /\ DaysPerWeek \in Nat \ {0}
  /\ DaysPerMonth \in Nat \ {0}
  /\ MaxTime \in Nat /\ MaxTime >= UnitsPerMinute

VARIABLE now  (* what gettimeofday and time return                         *)

Minute(t) == t \div UnitsPerMinute
Hour(t)   == Minute(t) \div MinutesPerHour
Day(t)    == Hour(t) \div HoursPerDay

(* The fields of TimeData that an alarm compares.                          *)
Fields == {"month", "week", "day", "hour", "minute"}
Field(f, t) ==
  CASE f = "minute" -> Minute(t) % MinutesPerHour
    [] f = "hour"   -> Hour(t) % HoursPerDay
    [] f = "week"   -> Day(t) % DaysPerWeek
    [] f = "day"    -> 1 + (Day(t) % DaysPerMonth)
    [] f = "month"  -> 1 + (Day(t) \div DaysPerMonth)

Advance == now < MaxTime /\ now' = now + 1

=============================================================================
