------------------------------ MODULE TimerEx -------------------------------
(***************************************************************************)
(* TimerEx: a callback every interval, an alarm on the minutes whose       *)
(* fields have the values asked for, or both.                              *)
(*                                                                         *)
(* Both compare with one time, that of the last trigger, which starts as   *)
(* the time the timer is made.  The alarm is a word of flags and values:   *)
(* a setter given a value out of range clears the field's flag and leaves  *)
(* its value there, and Tick takes the alarm as set while the word is not  *)
(* zero.                                                                   *)
(*                                                                         *)
(* X_How is X with a plausible mistake in it, to try the properties on.    *)
(***************************************************************************)
EXTENDS Calendar

VARIABLES
  last,      (* m_kLastTrigger                                             *)
  alarm,     (* m_nClock: flag and value of each field                     *)
  interval   (* m_nInterval, in units                                      *)

timer == <<last, alarm, interval>>

Least    == [f \in Fields |-> IF f \in {"month", "day"} THEN 1 ELSE 0]
Greatest == [month |-> 12, week |-> DaysPerWeek - 1, day |-> DaysPerMonth,
             hour |-> HoursPerDay - 1, minute |-> MinutesPerHour - 1]
NotSet   == [f \in Fields |-> [on |-> FALSE, val |-> 0]]

(* Faulty: a new timer has never triggered.                                *)
TimerMade_LongAgo ==
  last' = 0 /\ alarm' = NotSet /\ interval' = 0

(* The constructor.                                                        *)
TimerMade ==
  last' = now /\ alarm' = NotSet /\ interval' = 0

SetAlarm(f, v) ==
  /\ alarm' = IF v \in Least[f] .. Greatest[f]
              THEN [alarm EXCEPT ![f] = [on |-> TRUE, val |-> v]]
              ELSE [alarm EXCEPT ![f].on = FALSE]
  /\ UNCHANGED <<last, interval>>

SetInterval(n) ==
  /\ interval' = IF n > 0 THEN n ELSE interval
  /\ UNCHANGED <<last, alarm>>

(* Faulty: only the minute of the hour is compared.                        *)
SameMinute_OfAnyHour(s, t) == Field("minute", s) = Field("minute", t)

SameMinute(s, t) == \A f \in Fields : Field(f, s) = Field(f, t)

AlarmSet == \E f \in Fields : alarm[f].on \/ alarm[f].val # 0

Matches(t) == AlarmSet /\ \A f \in Fields : alarm[f].on => alarm[f].val = Field(f, t)

(* Why Tick calls back at t, if it does.  The interval goes first and      *)
(* makes t the last trigger, so the alarm finds itself in its minute.      *)
Cause(t) ==
  IF interval > 0 /\ t - last >= interval THEN "interval"
  ELSE IF ~SameMinute(last, t) /\ Matches(t) THEN "alarm"
  ELSE "none"

Triggered(t) ==
  /\ last' = IF Cause(t) = "none" THEN last ELSE t
  /\ UNCHANGED <<alarm, interval>>

=============================================================================
