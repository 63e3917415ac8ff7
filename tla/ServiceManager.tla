--------------------------- MODULE ServiceManager ---------------------------
(***************************************************************************)
(* ServiceManager, Service::Run and the thread pool between them.          *)
(*                                                                         *)
(* The main thread runs three phases, SS_START, SS_RUN and SS_SHUTDOWN.    *)
(* In each it stores the phase as the state of every service, then walks   *)
(* over the services again and again, handing those that are ready to the  *)
(* pool, until the phase's break condition holds, and waits until the pool *)
(* is idle.  Workers take the oldest task and run Service::Run, which      *)
(* calls one handler of the service chosen by its state.  The two sides    *)
(* share the state and the running state of every service without a lock.  *)
(*                                                                         *)
(* Each access to a shared variable is a step.  A handler is a step that   *)
(* begins and one that ends; what it does inside belongs to other modules. *)
(* An exception that leaves Service::Run leaves a thread of the pool and   *)
(* ends the process.                                                       *)
(*                                                                         *)
(* X_How is X with a plausible mistake in it, to try the properties on.    *)
(***************************************************************************)
EXTENDS Integers, Sequences, FiniteSets

CONSTANTS
  Registered,   (* the services, in the order of Register                  *)
  Workers,      (* the threads of the pool                                 *)
  HttpManagers, (* services with HttpManagerService's overrides            *)
  HttpPool,     (* the HttpServices of its pool                            *)
  Throttled,    (* services whose NeedSchedule is true once in 3 seconds   *)
  InitMayFail,  (* services whose Init may return false                    *)
  WaitMayTimeOut, (* whether a task may outlast the 600 seconds of Wait  *)
  NoService     (* the service of an idle worker                           *)

Services == {Registered[i] : i \in DOMAIN Registered}
Count == Len(Registered)

ASSUME ServiceAssumption ==
  /\ Registered \in Seq(Services) /\ Registered # <<>>
  /\ \A i, j \in DOMAIN Registered : Registered[i] = Registered[j] => i = j
  /\ HttpPool \subseteq Services
  /\ WaitMayTimeOut \in BOOLEAN
  /\ NoService \notin Services

VARIABLES
  mpc,        (* what the main thread does: set, tick, check, wait, exit   *)
  at,         (* the service its loop has reached                          *)
  phase,      (* the argument of RunLogic                                  *)
  bShutdown,  (* m_bShutdown                                               *)
  state,      (* m_enmServiceState of each service                         *)
  run,        (* m_enmRunState of each service                             *)
  due,        (* whether a throttled service's 3 seconds are over          *)
  tasks,      (* the pool's scheduler: services to run, oldest first       *)
  wpc,        (* what each worker does                                     *)
  svc,        (* the service it does it for                                *)
  crashed     (* an exception has ended the process                        *)

main   == <<mpc, at, phase>>
worker == <<wpc, svc>>
vars   == <<main, bShutdown, state, run, due, tasks, worker, crashed>>

(* The states of ServiceState in the order a service goes through them.    *)
StateOrder ==
  <<"SS_NONE", "SS_START", "SS_START_PROCESS", "SS_START_FAIL", "SS_START_OK",
    "SS_RUN", "SS_SHUTDOWN", "SS_SHUTDOWN_PROCESS", "SS_SHUTDOWN_OK">>
ServiceStates == {StateOrder[i] : i \in DOMAIN StateOrder}

Handlers == {"Init", "IsStartOK", "Tick", "Shutdown", "IsShutdownOK"}

(* What each phase makes the state of every service, and waits for.        *)
Goal == [SS_START |-> "SS_START_OK", SS_SHUTDOWN |-> "SS_SHUTDOWN_OK"]

Init ==
  /\ mpc = "set" /\ at = 1 /\ phase = "SS_START"
  /\ bShutdown = FALSE
  /\ state = [s \in Services |-> "SS_NONE"]
  /\ run = [s \in Services |-> "RS_READY"]
  /\ due \in [Services -> BOOLEAN]  \* m_nLastTickTime is not initialised
  /\ \A s \in Services \ Throttled : due[s]
  /\ tasks = <<>>
  /\ wpc = [w \in Workers |-> "idle"]
  /\ svc = [w \in Workers |-> NoService]
  /\ crashed = FALSE

-----------------------------------------------------------------------------
(* The main thread.                                                        *)

(* Faulty: one service too many                                            *)
Advance_PastTheEnd(what) ==
  IF at <= Count
  THEN at' = at + 1 /\ UNCHANGED mpc
  ELSE at' = 1 /\ mpc' = what

(* The loop goes on to the next service, or past the last to do what.      *)
Advance(what) ==
  IF at < Count
  THEN at' = at + 1 /\ UNCHANGED mpc
  ELSE at' = 1 /\ mpc' = what

SetServiceState ==
  /\ mpc = "set"
  /\ state' = [state EXCEPT ![Registered[at]] = phase]
  /\ Advance("tick")
  /\ UNCHANGED <<phase, bShutdown, run, due, tasks, worker, crashed>>

(* Faulty: not once shutdown begins                                        *)
NeedSchedule_UntilShutdown(s) ==
  state[s] \in {"SS_START", "SS_START_PROCESS", "SS_START_FAIL", "SS_START_OK", "SS_RUN"}

(* Service::NeedSchedule, which MonitorService consults when it is due.    *)
NeedSchedule(s) == state[s] \notin {"SS_NONE", "SS_SHUTDOWN_OK"}

(* Faulty: the state is set only by Service::Run                           *)
Tick_UntilItRuns ==
  LET s == Registered[at] IN
  /\ mpc = "tick"
  /\ IF run[s] = "RS_READY"
     THEN /\ due' = [due EXCEPT ![s] = @ /\ s \notin Throttled]
          /\ IF due[s] /\ NeedSchedule(s)
             THEN tasks' = Append(tasks, s) /\ UNCHANGED run
             ELSE UNCHANGED <<run, tasks>>
     ELSE UNCHANGED <<due, run, tasks>>
  /\ Advance("check")
  /\ UNCHANGED <<phase, bShutdown, state, worker, crashed>>

(* ServiceManager::Tick for one service.                                   *)
Tick ==
  LET s == Registered[at] IN
  /\ mpc = "tick"
  /\ IF run[s] = "RS_READY"
     THEN /\ due' = [due EXCEPT ![s] = @ /\ s \notin Throttled]
          /\ IF due[s] /\ NeedSchedule(s)
             THEN /\ run' = [run EXCEPT ![s] = "RS_SCHEDULE"]
                  /\ tasks' = Append(tasks, s)
             ELSE UNCHANGED <<run, tasks>>
     ELSE UNCHANGED <<due, run, tasks>>
  /\ Advance("check")
  /\ UNCHANGED <<phase, bShutdown, state, worker, crashed>>

(* Faulty: one service is enough                                           *)
BreakCondition_AnyService ==
  /\ mpc = "check"
  /\ IF phase = "SS_RUN"
     THEN /\ mpc' = IF bShutdown THEN "wait" ELSE "tick"
          /\ UNCHANGED at
     ELSE IF state[Registered[at]] = Goal[phase]
     THEN mpc' = "wait" /\ at' = 1
     ELSE Advance("tick")
  /\ UNCHANGED <<phase, bShutdown, state, run, due, tasks, worker, crashed>>

(* RunLogicBreakCondition: the next service, or m_bShutdown.               *)
BreakCondition ==
  /\ mpc = "check"
  /\ IF phase = "SS_RUN"
     THEN /\ mpc' = IF bShutdown THEN "wait" ELSE "tick"
          /\ UNCHANGED at
     ELSE IF state[Registered[at]] = Goal[phase]
     THEN Advance("wait")
     ELSE mpc' = "tick" /\ at' = 1
  /\ UNCHANGED <<phase, bShutdown, state, run, due, tasks, worker, crashed>>

PoolIdle == tasks = <<>> /\ \A w \in Workers : wpc[w] = "idle"

(* Faulty: tasks in progress are forgotten                                 *)
Wait_QueueOnly ==
  /\ mpc = "wait"
  /\ tasks = <<>> \/ WaitMayTimeOut
  /\ CASE phase = "SS_START"    -> mpc' = "set" /\ phase' = "SS_RUN"
       [] phase = "SS_RUN"      -> mpc' = "set" /\ phase' = "SS_SHUTDOWN"
       [] phase = "SS_SHUTDOWN" -> mpc' = "exit" /\ UNCHANGED phase
  /\ UNCHANGED <<at, bShutdown, state, run, due, tasks, worker, crashed>>

(* Wait, and Run going on to the next phase whether it timed out or not.   *)
Wait ==
  /\ mpc = "wait"
  /\ PoolIdle \/ WaitMayTimeOut
  /\ CASE phase = "SS_START"    -> mpc' = "set" /\ phase' = "SS_RUN"
       [] phase = "SS_RUN"      -> mpc' = "set" /\ phase' = "SS_SHUTDOWN"
       [] phase = "SS_SHUTDOWN" -> mpc' = "exit" /\ UNCHANGED phase
  /\ UNCHANGED <<at, bShutdown, state, run, due, tasks, worker, crashed>>

Main == SetServiceState \/ Tick \/ BreakCondition \/ Wait

-----------------------------------------------------------------------------
(* A worker: pool_core::execute_task and Service::Run.                     *)

Goto(w, pc) == wpc' = [wpc EXCEPT ![w] = pc]

ExecuteTask(w) ==
  /\ wpc[w] = "idle"
  /\ tasks # <<>>
  /\ svc' = [svc EXCEPT ![w] = Head(tasks)]
  /\ tasks' = Tail(tasks)
  /\ Goto(w, "run")
  /\ UNCHANGED <<main, bShutdown, state, run, due, crashed>>

RunBegin(w) ==
  /\ wpc[w] = "run"
  /\ run' = [run EXCEPT ![svc[w]] = "RS_RUNNING"]
  /\ Goto(w, "switch")
  /\ UNCHANGED <<main, bShutdown, state, due, tasks, svc, crashed>>

(* The switch on m_enmServiceState.                                        *)
RunSwitch(w) ==
  LET s == svc[w] IN
  /\ wpc[w] = "switch"
  /\ CASE state[s] = "SS_START" ->
            /\ state' = [state EXCEPT ![s] = "SS_START_PROCESS"]
            /\ Goto(w, "Init") /\ UNCHANGED crashed
       [] state[s] = "SS_START_PROCESS" ->
            Goto(w, "IsStartOK") /\ UNCHANGED <<state, crashed>>
       [] state[s] = "SS_START_FAIL" ->
            crashed' = TRUE /\ UNCHANGED <<state, wpc>>
       [] state[s] = "SS_RUN" ->
            Goto(w, "Tick") /\ UNCHANGED <<state, crashed>>
       [] state[s] = "SS_SHUTDOWN" ->
            /\ state' = [state EXCEPT ![s] = "SS_SHUTDOWN_PROCESS"]
            /\ Goto(w, "Shutdown") /\ UNCHANGED crashed
       [] state[s] = "SS_SHUTDOWN_PROCESS" ->
            Goto(w, "IsShutdownOK") /\ UNCHANGED <<state, crashed>>
       [] OTHER -> Goto(w, "ready") /\ UNCHANGED <<state, crashed>>
  /\ UNCHANGED <<main, bShutdown, run, due, tasks, svc>>

(* Init returns; when it fails, SS_START_FAIL.  MonitorService's Init      *)
(* starts its 3 seconds.                                                   *)
InitReturns(w) ==
  LET s == svc[w] IN
  /\ wpc[w] = "Init"
  /\ \/ UNCHANGED state
     \/ s \in InitMayFail /\ state' = [state EXCEPT ![s] = "SS_START_FAIL"]
  /\ due' = [due EXCEPT ![s] = @ /\ s \notin Throttled]
  /\ Goto(w, "ready")
  /\ UNCHANGED <<main, bShutdown, run, tasks, svc, crashed>>

(* Service::IsStartOK and HttpManagerService::IsStartOK.                   *)
IsStartOK(s) ==
  LET started(t) == state[t] # "SS_RUN" IN
  IF s \in HttpManagers THEN \A t \in HttpPool : started(t) ELSE started(s)

(* Service::IsShutdownOK and HttpManagerService::IsShutdownOK.             *)
IsShutdownOK(s) ==
  LET over(t) == state[t] = "SS_SHUTDOWN_OK" IN
  IF s \in HttpManagers THEN \A t \in HttpPool : ~over(t) ELSE over(s)

IsStartOKReturns(w) ==
  LET s == svc[w] IN
  /\ wpc[w] = "IsStartOK"
  /\ state' = IF IsStartOK(s) THEN [state EXCEPT ![s] = "SS_START_OK"] ELSE state
  /\ Goto(w, "ready")
  /\ UNCHANGED <<main, bShutdown, run, due, tasks, svc, crashed>>

IsShutdownOKReturns(w) ==
  LET s == svc[w] IN
  /\ wpc[w] = "IsShutdownOK"
  /\ state' = IF IsShutdownOK(s) THEN [state EXCEPT ![s] = "SS_SHUTDOWN_OK"] ELSE state
  /\ Goto(w, "ready")
  /\ UNCHANGED <<main, bShutdown, run, due, tasks, svc, crashed>>

TickOrShutdownReturns(w) ==
  /\ wpc[w] \in {"Tick", "Shutdown"}
  /\ Goto(w, "ready")
  /\ UNCHANGED <<main, bShutdown, state, run, due, tasks, svc, crashed>>

(* Faulty: RS_READY is not restored                                        *)
RunEnd_StaysRunning(w) ==
  /\ wpc[w] = "ready"
  /\ Goto(w, "return")
  /\ UNCHANGED <<main, bShutdown, state, run, due, tasks, svc, crashed>>

RunEnd(w) ==
  /\ wpc[w] = "ready"
  /\ run' = [run EXCEPT ![svc[w]] = "RS_READY"]
  /\ Goto(w, "return")
  /\ UNCHANGED <<main, bShutdown, state, due, tasks, svc, crashed>>

TaskReturns(w) ==
  /\ wpc[w] = "return"
  /\ Goto(w, "idle")
  /\ svc' = [svc EXCEPT ![w] = NoService]
  /\ UNCHANGED <<main, bShutdown, state, run, due, tasks, crashed>>

Worker(w) ==
  \/ ExecuteTask(w) \/ RunBegin(w) \/ RunSwitch(w)
  \/ InitReturns(w) \/ IsStartOKReturns(w) \/ TickOrShutdownReturns(w)
  \/ IsShutdownOKReturns(w) \/ RunEnd(w) \/ TaskReturns(w)

-----------------------------------------------------------------------------
(* Outside: anyone may call ShutDown, and time passes.                     *)

ShutDown ==
  /\ ~bShutdown
  /\ bShutdown' = TRUE
  /\ UNCHANGED <<main, state, run, due, tasks, worker, crashed>>

TimePasses(s) ==
  /\ ~due[s]
  /\ due' = [due EXCEPT ![s] = TRUE]
  /\ UNCHANGED <<main, bShutdown, state, run, tasks, worker, crashed>>

Next ==
  /\ ~crashed
  /\ \/ Main
     \/ \E w \in Workers : Worker(w)
     \/ ShutDown
     \/ \E s \in Throttled : TimePasses(s)

Spec == Init /\ [][Next]_vars

(* The threads run and time passes; nobody need ever call ShutDown.        *)
FairSpec ==
  /\ Spec
  /\ WF_vars(~crashed /\ Main)
  /\ \A w \in Workers : WF_vars(~crashed /\ Worker(w))
  /\ \A s \in Throttled : WF_vars(~crashed /\ TimePasses(s))

-----------------------------------------------------------------------------
(* Properties.                                                             *)

(* Every variable stays in its type; in particular the main thread's loop  *)
(* never runs off the list of services.                                    *)
TypeOK ==
  /\ mpc \in {"set", "tick", "check", "wait", "exit"}
  /\ at \in 1 .. Count
  /\ phase \in {"SS_START", "SS_RUN", "SS_SHUTDOWN"}
  /\ bShutdown \in BOOLEAN /\ crashed \in BOOLEAN
  /\ state \in [Services -> ServiceStates]
  /\ run \in [Services -> {"RS_READY", "RS_SCHEDULE", "RS_RUNNING"}]
  /\ due \in [Services -> BOOLEAN]
  /\ tasks \in Seq(Services)
  /\ wpc \in [Workers -> {"idle", "run", "switch", "ready", "return"} \cup Handlers]
  /\ svc \in [Workers -> Services \cup {NoService}]
  /\ \A w \in Workers : wpc[w] # "idle" => svc[w] \in Services

(* A worker that is inside Service::Run, before and after it has begun.    *)
Fetched(w) == wpc[w] = "run"
Inside(w)  == wpc[w] \in {"switch", "ready"} \cup Handlers

(* The running state of a service says where its one task is: nowhere, in  *)
(* the pool or fetched by a worker, or inside Service::Run.  So a service  *)
(* is never queued twice and no two workers are ever inside it, although   *)
(* nothing but m_enmRunState keeps the main thread from scheduling it.     *)
OneRunPerService ==
  /\ \A i, j \in DOMAIN tasks : tasks[i] = tasks[j] => i = j
  /\ \A i \in DOMAIN tasks : run[tasks[i]] = "RS_SCHEDULE"
  /\ \A w \in Workers : Fetched(w) =>
       /\ run[svc[w]] = "RS_SCHEDULE"
       /\ \A i \in DOMAIN tasks : tasks[i] # svc[w]
  /\ \A w \in Workers : Inside(w) => run[svc[w]] = "RS_RUNNING"
  /\ \A v, w \in Workers :
       /\ Fetched(v) \/ Inside(v)
       /\ Fetched(w) \/ Inside(w)
       /\ svc[v] = svc[w]
       => v = w

(* Where a service is in its life, from its state and the handler in       *)
(* progress.                                                               *)
In(s, handler) == \E w \in Workers : svc[w] = s /\ wpc[w] = handler
Stage ==
  [s \in Services |->
     CASE In(s, "Init")     -> "init"
       [] In(s, "Tick")     -> "tick"
       [] In(s, "Shutdown") -> "stop"
       [] OTHER -> CASE state[s] \in {"SS_NONE", "SS_START"} -> "new"
                     [] state[s] = "SS_START_FAIL" -> "failed"
                     [] state[s] \in {"SS_SHUTDOWN_PROCESS", "SS_SHUTDOWN_OK"} -> "down"
                     [] OTHER -> "up"]

(* When no task outlasts Wait: every service is initialised once before    *)
(* any is ticked, none is shut down while another is ticked, each is shut  *)
(* down once, and a failed Init keeps all of them from being ticked.       *)
Lifecycle == INSTANCE ServiceLifecycle WITH stage <- Stage
ImplementsLifecycle == Lifecycle!Spec

(* The main thread storing a phase and a worker storing the outcome of a   *)
(* handler never overwrite each other's later state with an earlier one,   *)
(* not even when Wait gives up on a slow task.                             *)
Rank(x) == CHOOSE i \in DOMAIN StateOrder : StateOrder[i] = x
StateNeverGoesBack ==
  [][\A s \in Services : Rank(state'[s]) >= Rank(state[s])]_vars

(* What each phase makes of the states.                                    *)
Starting == {"SS_START", "SS_START_PROCESS", "SS_START_FAIL", "SS_START_OK"}
Stopping == {"SS_SHUTDOWN", "SS_SHUTDOWN_PROCESS", "SS_SHUTDOWN_OK"}
Before == [SS_START |-> {"SS_NONE"}, SS_RUN |-> {"SS_START_OK"}, SS_SHUTDOWN |-> {"SS_RUN"}]
Within == [SS_START |-> Starting, SS_RUN |-> {"SS_RUN"}, SS_SHUTDOWN |-> Stopping]

(* Why: a phase begins when every service has ended the one before, so a   *)
(* service's state says how far the main thread is, and a worker in the    *)
(* middle of Init, IsStartOK or IsShutdownOK finds it as it left it.       *)
PhaseInv ==
  /\ mpc = "wait" \/ (mpc = "check" /\ phase = "SS_RUN") => at = 1
  /\ \A i \in 1 .. Count :
       /\ state[Registered[i]] \in
            IF mpc = "set" /\ i >= at THEN Before[phase] ELSE Within[phase]
       /\ phase = "SS_START" /\ (mpc = "wait" \/ (mpc = "check" /\ i < at))
            => state[Registered[i]] = "SS_START_OK"
  /\ \A w \in Workers :
       /\ wpc[w] \in {"Init", "IsStartOK"} => state[svc[w]] = "SS_START_PROCESS"
       /\ wpc[w] = "IsShutdownOK" => state[svc[w]] = "SS_SHUTDOWN_PROCESS"

(* Why, when no task outlasts Wait: the main thread stores a phase only    *)
(* while the pool is idle, so Tick and Shutdown are called and return in   *)
(* one state.                                                              *)
LifeInv ==
  /\ mpc = "set" => PoolIdle
  /\ \A w \in Workers :
       /\ wpc[w] = "Tick" => state[svc[w]] = "SS_RUN"
       /\ wpc[w] = "Shutdown" => state[svc[w]] = "SS_SHUTDOWN_PROCESS"

(* A failed Init keeps the main thread in the start phase until the        *)
(* process ends.                                                           *)
StartFailed == \E s \in Services : state[s] = "SS_START_FAIL"

(* Until ShutDown is called every service is ticked again and again, if no *)
(* Init fails: the start phase ends, however the services' start checks    *)
(* look at each other; no service is left marked as scheduled; and a slow  *)
(* or throttled one never keeps the others from the pool for good.         *)
EveryServiceTicked ==
  \A s \in Services : []<>(In(s, "Tick") \/ bShutdown \/ StartFailed)

(* After ShutDown every started service gets its Shutdown handler called,  *)
(* even when ShutDown comes while the services are still starting.         *)
EveryServiceShutDown ==
  bShutdown ~> \/ \A s \in Services : state[s] \in {"SS_SHUTDOWN_PROCESS", "SS_SHUTDOWN_OK"}
               \/ StartFailed

(* "run service manager RunShutdown end" is logged (servicemanager.cpp:70) *)
(* and the caller goes on to delete the services (main.cpp:74) once        *)
(* ShutDown has been called.                                               *)
ShutdownCompletes == bShutdown ~> mpc = "exit"

=============================================================================
