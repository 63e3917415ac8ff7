-------------------------- MODULE MCMonitorService --------------------------
(***************************************************************************)
(* Instances of MonitorService for TLC: a file is full after one line.     *)
(***************************************************************************)
EXTENDS MonitorService

\* The hour, the minute, and a day out of range, which asks for any day.
SomeAlarms    == {<<"hour", 1>>, <<"minute", 1>>, <<"day", 0>>}
SomeIntervals == {-1, 2}
=============================================================================
