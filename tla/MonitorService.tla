--------------------------- MODULE MonitorService ---------------------------
(***************************************************************************)
(* MonitorService: a timer whose callback writes a line to a log.          *)
(*                                                                         *)
(* The manager schedules the service with a copy of the time; a worker     *)
(* runs it later, and only then compares the copy with the alarm and, if   *)
(* it calls back, looks at the clock again for the name of the file.  The  *)
(* process may crash between any two steps and be started again, on the    *)
(* files the earlier run left.                                             *)
(***************************************************************************)
EXTENDS TimerEx, LogEngine

CONSTANTS
  Alarms,     (* <<field, value>>: the calls of setters an Init may make   *)
  Intervals,  (* the values it may give SetInterval                        *)
  Gap,        (* a service is left alone for so long, 3000 ms              *)
  MaxRuns,    (* bound on starts of the process                            *)
  MaxFaults   (* bound on failed writes and deleted files                  *)

ASSUME MonitorAssumption ==
  /\ Alarms \subseteq Fields \X Int /\ Intervals \subseteq Int
  /\ Gap \in Nat /\ MaxRuns \in Nat \ {0} /\ MaxFaults \in Nat

VARIABLES
  phase,     (* down, in Init, or running                                  *)
  lastTick,  (* m_nLastTickTime                                            *)
  td,        (* the time the service is scheduled with, or Never           *)
  runs,      (* starts of the process so far                               *)
  faults,    (* failed writes and deleted files so far                     *)
  asked,     (* history: the alarm fields Init asked for                   *)
  born,      (* history: when the timer was made                           *)
  heard,     (* history: callbacks in the minute of the latest Tick        *)
  stored     (* history: the lines of this run that reached a named file   *)

service == <<phase, lastTick, td, runs, faults>>
history == <<asked, born, heard, stored>>
vars    == <<now, timer, disk, logEngine, service, history>>

Never   == -1
Nothing == [minute |-> Never, alarm |-> 0, interval |-> 0]

Init ==
  /\ now \in 0 .. UnitsPerMinute - 1
  /\ last = 0 /\ alarm = NotSet /\ interval = 0
  /\ logDay = 0 /\ stream = Closed /\ count = 1 /\ lastTick = 0 /\ td = Never
  /\ asked = <<>> /\ born = 0 /\ heard = Nothing /\ stored = {}
  /\ phase = "down"
  /\ disk = <<>> /\ runs = 0 /\ faults = 0

Clock == Advance /\ UNCHANGED <<timer, disk, logEngine, service, history>>

(* Init up to the setters.                                                 *)
Start ==
  /\ phase = "down" /\ runs < MaxRuns
  /\ phase' = "init" /\ runs' = runs + 1 /\ lastTick' = now
  /\ LogInit /\ TimerMade
  /\ born' = now
  /\ UNCHANGED <<now, td, faults, asked, heard, stored>>

(* One setter; a value out of range asks for any.                          *)
Sets(f, v) ==
  /\ phase = "init" /\ SetAlarm(f, v)
  /\ asked' = IF v \in Least[f] .. Greatest[f]
              THEN With(asked, f, v)
              ELSE [g \in DOMAIN asked \ {f} |-> asked[g]]
  /\ UNCHANGED <<now, disk, logEngine, service, born, heard, stored>>

SetsInterval(n) ==
  /\ phase = "init" /\ SetInterval(n)
  /\ UNCHANGED <<now, disk, logEngine, service, history>>

(* The end of Init; the manager then waits until every service is ready.   *)
AddTimer ==
  /\ phase = "init" /\ phase' = "running"
  /\ UNCHANGED <<now, timer, disk, logEngine, lastTick, td, runs, faults, history>>

(* The manager's Tick: NeedSchedule, and the bind that copies the time.    *)
Schedule ==
  /\ phase = "running" /\ td = Never /\ now - lastTick > Gap
  /\ lastTick' = now /\ td' = now
  /\ UNCHANGED <<now, timer, disk, logEngine, phase, runs, faults, history>>

(* heard after a Tick at t that called back for cause.                     *)
Heard(t, cause) ==
  LET before == IF heard.minute = Minute(t) THEN heard
                ELSE [Nothing EXCEPT !.minute = Minute(t)] IN
  IF cause = "none" THEN before ELSE [before EXCEPT ![cause] = @ + 1]

(* A worker runs the service.  The callback writes the line, or fails to,  *)
(* and cannot tell the two apart; a line that reaches its file only with a *)
(* later one counts as lost.                                               *)
Tick ==
  /\ phase = "running" /\ td # Never
  /\ Triggered(td) /\ heard' = Heard(td, Cause(td)) /\ td' = Never
  /\ LET line == [at |-> td, cause |-> Cause(td)] IN
     \/ /\ line.cause = "none"
        /\ UNCHANGED <<disk, logEngine, faults, stored>>
     \/ /\ line.cause # "none" /\ LogTrue(<<line>>)
        /\ stored' = IF stream = Gone /\ stream' = Gone THEN stored ELSE stored \cup {line}
        /\ UNCHANGED faults
     \/ /\ line.cause # "none" /\ faults < MaxFaults /\ (LogFalse \/ LogTrue(<<>>))
        /\ faults' = faults + 1 /\ UNCHANGED stored
  /\ UNCHANGED <<now, phase, lastTick, runs, asked, born>>

(* The lines of a file that somebody deletes are lost with it.             *)
Deletes ==
  /\ phase # "down" /\ faults < MaxFaults /\ Delete
  /\ faults' = faults + 1
  /\ stored' = stored \ {disk[File(logDay)][i] : i \in DOMAIN disk[File(logDay)]}
  /\ UNCHANGED <<now, timer, phase, lastTick, td, runs, asked, born, heard>>

(* Memory is lost, the files stay.                                         *)
Crash ==
  /\ phase # "down" /\ phase' = "down"
  /\ last' = 0 /\ alarm' = NotSet /\ interval' = 0
  /\ logDay' = 0 /\ stream' = Closed /\ count' = 1 /\ lastTick' = 0 /\ td' = Never
  /\ asked' = <<>> /\ born' = 0 /\ heard' = Nothing /\ stored' = {}
  /\ UNCHANGED <<now, disk, runs, faults>>

Next ==
  \/ Clock \/ Start \/ AddTimer \/ Schedule \/ Tick \/ Deletes \/ Crash
  \/ \E a \in Alarms : Sets(a[1], a[2])
  \/ \E n \in Intervals : SetsInterval(n)

Spec == Init /\ [][Next]_vars

-----------------------------------------------------------------------------
OnDisk(line) == \E n \in DOMAIN disk : \E i \in DOMAIN disk[n] : disk[n][i] = line

Lines == [at : 0 .. MaxTime, cause : {"alarm", "interval"}]

(* Types: the timer's word holds values that fit its fields and its        *)
(* interval is never negative; a file's number stays below the limit.      *)
TypeOK ==
  /\ now \in 0 .. MaxTime /\ last \in 0 .. now /\ interval \in Nat
  /\ \A f \in Fields : alarm[f] = NotSet[f] \/ alarm[f].val \in Least[f] .. Greatest[f]
  /\ stream \in {Closed, Named, Gone} /\ count \in 1 .. MaxFiles
  /\ \A n \in DOMAIN disk :
       n[1] \in 0 .. Day(now) /\ n[2] \in 0 .. MaxFiles - 1 /\ disk[n] \in Seq(Lines)
  /\ phase \in {"down", "init", "running"} /\ runs \in 0 .. MaxRuns
  /\ lastTick \in 0 .. now /\ td \in {Never} \cup 0 .. now
  /\ faults \in 0 .. MaxFaults /\ born \in 0 .. now /\ stored \subseteq Lines

(* An alarm was due in the minute of the latest Tick: its fields are the   *)
(* ones Init asked for, and the timer was not made in that very minute.    *)
Due ==
  /\ DOMAIN asked # {} /\ heard.minute # Minute(born)
  /\ \A f \in DOMAIN asked : asked[f] = Field(f, heard.minute * UnitsPerMinute)

(* TimerEx::Tick calls back for an alarm at most once in a minute and only *)
(* in a minute that was asked for; and in such a minute the first Tick     *)
(* calls back, for the alarm or because the interval had elapsed.          *)
AlarmExact ==
  heard.minute # Never =>
    /\ heard.alarm <= 1
    /\ heard.alarm = 1 => Due
    /\ Due => heard.alarm + heard.interval >= 1

(* No minute's alarm is in the files twice, not even when the process was  *)
(* started again within the minute.                                        *)
ReportedOnce ==
  \A m, n \in DOMAIN disk : \A i \in DOMAIN disk[m], j \in DOMAIN disk[n] :
    /\ disk[m][i].cause = "alarm" /\ disk[n][j].cause = "alarm"
    /\ Minute(disk[m][i].at) = Minute(disk[n][j].at)
    => m = n /\ i = j

(* A line that has reached its file is still in one of the files as long   *)
(* as the process runs, wherever check_file has moved it and whatever it   *)
(* removed, over midnight, failed opens, writes and renames, unless        *)
(* somebody deleted the file.                                              *)
NoLineLost == phase = "running" => \A line \in stored : OnDisk(line)

(* What log.h:23 says of max_log_file_size: no file grows beyond it.       *)
(* check_file looks before each line, but writes on when rename has failed *)
(* and, once there are MaxFiles files, without looking.                    *)
SizeBounded == \A n \in DOMAIN disk : Len(disk[n]) =< MaxLines

=============================================================================
