------------------------ MODULE ServiceManagerProofs ------------------------
(***************************************************************************)
(* Proofs about ServiceManager, for any number of services and workers:    *)
(* the types; that a service is never handed to two workers; that a phase  *)
(* begins when each service has ended the one before, so that no state     *)
(* goes back; and, if Wait never times out, that the manager gives each    *)
(* service the life ServiceLifecycle promises.  Each rests on the one      *)
(* before it.                                                              *)
(***************************************************************************)
EXTENDS ServiceManager, TLAPS

(* The main thread's loops index the list of registered services.          *)
LEMMA RegisteredAt ==
  ASSUME NEW i \in 1 .. Count
  PROVE  Registered[i] \in Services
BY ServiceAssumption DEF Services, Count

(* Advance stays within the list.                                          *)
LEMMA AdvanceInRange ==
  ASSUME at \in 1 .. Count, NEW what \in {"set", "tick", "check", "wait", "exit"},
         mpc \in {"set", "tick", "check", "wait", "exit"}, Advance(what)
  PROVE  /\ at' \in 1 .. Count
         /\ mpc' \in {"set", "tick", "check", "wait", "exit"}
BY ServiceAssumption DEF Advance, Count

(* The task a worker takes is a service, and so are those it leaves.       *)
LEMMA TakeTask ==
  ASSUME tasks \in Seq(Services), tasks # <<>>
  PROVE  Head(tasks) \in Services /\ Tail(tasks) \in Seq(Services)
OBVIOUS

(* A step of the main thread keeps the types.                              *)
LEMMA MainTypes ==
  ASSUME TypeOK, Main
  PROVE  TypeOK'
<1>1. CASE SetServiceState
  <2>1. Registered[at] \in Services
    BY RegisteredAt DEF TypeOK
  <2>2. phase \in ServiceStates
    <3>1. StateOrder[2] = "SS_START" /\ StateOrder[6] = "SS_RUN"
          /\ StateOrder[7] = "SS_SHUTDOWN" /\ {2, 6, 7} \subseteq DOMAIN StateOrder
      BY DEF StateOrder
    <3> QED BY <3>1 DEF ServiceStates, TypeOK
  <2>3. at' \in 1 .. Count /\ mpc' \in {"set", "tick", "check", "wait", "exit"}
    BY <1>1, AdvanceInRange DEF SetServiceState, TypeOK
  <2> QED BY <1>1, <2>1, <2>2, <2>3 DEF SetServiceState, TypeOK, worker
<1>2. CASE Tick
  <2>1. Registered[at] \in Services
    BY RegisteredAt DEF TypeOK
  <2>2. at' \in 1 .. Count /\ mpc' \in {"set", "tick", "check", "wait", "exit"}
    BY <1>2, AdvanceInRange DEF Tick, TypeOK
  <2>3. Append(tasks, Registered[at]) \in Seq(Services)
    BY <2>1 DEF TypeOK
  <2>4. /\ due' \in [Services -> BOOLEAN]
        /\ run' \in [Services -> {"RS_READY", "RS_SCHEDULE", "RS_RUNNING"}]
        /\ tasks' \in Seq(Services)
    BY <1>2, <2>1, <2>3 DEF Tick, TypeOK
  <2> QED BY <1>2, <2>2, <2>4 DEF Tick, TypeOK, worker
<1>3. CASE BreakCondition
  <2>1. at' \in 1 .. Count /\ mpc' \in {"set", "tick", "check", "wait", "exit"}
    BY <1>3, AdvanceInRange, ServiceAssumption DEF BreakCondition, TypeOK, Count
  <2> QED BY <1>3, <2>1 DEF BreakCondition, TypeOK, worker
<1>4. CASE Wait
  BY <1>4 DEF Wait, TypeOK, worker
<1> QED BY <1>1, <1>2, <1>3, <1>4 DEF Main

(* A step of a worker keeps the types.                                     *)
LEMMA WorkerTypes ==
  ASSUME TypeOK, NEW w \in Workers, Worker(w)
  PROVE  TypeOK'
<1> DEFINE s == svc[w]
<1>0. /\ StateOrder[3] = "SS_START_PROCESS" /\ StateOrder[4] = "SS_START_FAIL"
      /\ StateOrder[5] = "SS_START_OK" /\ StateOrder[8] = "SS_SHUTDOWN_PROCESS"
      /\ StateOrder[9] = "SS_SHUTDOWN_OK"
      /\ {3, 4, 5, 8, 9} \subseteq DOMAIN StateOrder
  BY DEF StateOrder
<1>a. {"SS_START_PROCESS", "SS_START_FAIL", "SS_START_OK",
       "SS_SHUTDOWN_PROCESS", "SS_SHUTDOWN_OK"} \subseteq ServiceStates
  BY <1>0 DEF ServiceStates
<1>b. wpc[w] # "idle" => s \in Services
  BY DEF TypeOK
<1> USE DEF Goto, Handlers, main
<1>1. CASE ExecuteTask(w)
  BY <1>1, TakeTask DEF ExecuteTask, TypeOK
<1>2. CASE RunBegin(w)
  BY <1>2, <1>b DEF RunBegin, TypeOK
<1>3. CASE RunSwitch(w)
  <2>1. wpc[w] # "idle" /\ wpc[w] = "switch"
    BY <1>3 DEF RunSwitch
  <2>2. /\ state' \in [Services -> ServiceStates]
        /\ crashed' \in BOOLEAN
        /\ wpc' \in [Workers -> {"idle", "run", "switch", "ready", "return"} \cup Handlers]
        /\ \A v \in Workers : wpc'[v] # "idle" => wpc[v] # "idle"
    BY <1>3, <1>a, <1>b, <2>1 DEF RunSwitch, TypeOK
  <2> QED BY <1>3, <2>2 DEF RunSwitch, TypeOK
<1>4. CASE InitReturns(w)
  BY <1>4, <1>a, <1>b DEF InitReturns, TypeOK
<1>5. CASE IsStartOKReturns(w)
  BY <1>5, <1>a, <1>b DEF IsStartOKReturns, TypeOK
<1>6. CASE TickOrShutdownReturns(w)
  BY <1>6 DEF TickOrShutdownReturns, TypeOK
<1>7. CASE IsShutdownOKReturns(w)
  BY <1>7, <1>a, <1>b DEF IsShutdownOKReturns, TypeOK
<1>8. CASE RunEnd(w)
  BY <1>8, <1>b DEF RunEnd, TypeOK
<1>9. CASE TaskReturns(w)
  BY <1>9 DEF TaskReturns, TypeOK
<1> QED
  BY <1>1, <1>2, <1>3, <1>4, <1>5, <1>6, <1>7, <1>8, <1>9 DEF Worker

(* The first state has the types.                                          *)
LEMMA InitTypes == Init => TypeOK
<1>1. StateOrder[1] = "SS_NONE" /\ 1 \in DOMAIN StateOrder
  BY DEF StateOrder
<1>2. "SS_NONE" \in ServiceStates
  BY <1>1 DEF ServiceStates
<1>3. 1 \in 1 .. Count
  BY ServiceAssumption DEF Count
<1>4. ASSUME Init
      PROVE  /\ state \in [Services -> ServiceStates]
             /\ run \in [Services -> {"RS_READY", "RS_SCHEDULE", "RS_RUNNING"}]
             /\ due \in [Services -> BOOLEAN]
  BY <1>2, <1>4 DEF Init
<1>5. ASSUME Init
      PROVE  /\ tasks \in Seq(Services)
             /\ wpc \in [Workers -> {"idle", "run", "switch", "ready", "return"}
                                       \cup Handlers]
             /\ svc \in [Workers -> Services \cup {NoService}]
             /\ \A w \in Workers : wpc[w] = "idle"
  BY <1>5 DEF Init
<1>6. ASSUME Init
      PROVE  /\ mpc \in {"set", "tick", "check", "wait", "exit"}
             /\ at \in 1 .. Count
             /\ phase \in {"SS_START", "SS_RUN", "SS_SHUTDOWN"}
             /\ bShutdown \in BOOLEAN /\ crashed \in BOOLEAN
  BY <1>3, <1>6 DEF Init
<1> QED BY <1>4, <1>5, <1>6 DEF TypeOK

(* So does the state after any step.                                       *)
LEMMA NextTypes == TypeOK /\ [Next]_vars => TypeOK'
<1> SUFFICES ASSUME TypeOK, [Next]_vars PROVE TypeOK'
  OBVIOUS
<1>1. CASE Main
  BY <1>1, MainTypes
<1>2. CASE \E w \in Workers : Worker(w)
  BY <1>2, WorkerTypes
<1>3. CASE ShutDown
  BY <1>3 DEF ShutDown, TypeOK, main, worker
<1>4. CASE \E s \in Throttled : TimePasses(s)
  BY <1>4 DEF TimePasses, TypeOK, main, worker
<1>5. CASE UNCHANGED vars
  BY <1>5 DEF vars, TypeOK, main, worker
<1> QED BY <1>1, <1>2, <1>3, <1>4, <1>5 DEF Next

(* Every variable stays in its type, however the main thread and the       *)
(* workers interleave: RunLogic's and IsAllServiceStatusEqual's loops      *)
(* never pass the last service, and a busy worker has a service.           *)
THEOREM TypeCorrect == Spec => []TypeOK
<1> QED BY InitTypes, NextTypes, PTL DEF Spec

-----------------------------------------------------------------------------
(* One run of a service at a time.                                         *)

(* Going from one point inside Service::Run to another disturbs nothing.   *)
LEMMA StaysInside ==
  ASSUME TypeOK, OneRunPerService, NEW w \in Workers, Inside(w),
         NEW pc \in {"switch", "ready"} \cup Handlers, Goto(w, pc),
         UNCHANGED <<run, tasks, svc>>
  PROVE  OneRunPerService'
BY DEF TypeOK, OneRunPerService, Inside, Fetched, Handlers, Goto

(* The main thread schedules a service only when no task of it is left.    *)
LEMMA MainKeepsOneRun ==
  ASSUME TypeOK, OneRunPerService, Main
  PROVE  OneRunPerService'
<1>1. CASE Tick
  <2> DEFINE s == Registered[at]
  <2>1. s \in Services
    BY RegisteredAt DEF TypeOK
  <2>2. CASE run[s] = "RS_READY" /\ due[s] /\ NeedSchedule(s)
    <3>1. /\ run' = [run EXCEPT ![s] = "RS_SCHEDULE"]
          /\ tasks' = Append(tasks, s)
          /\ UNCHANGED <<wpc, svc>>
      BY <1>1, <2>2 DEF Tick, worker
    <3>2. /\ \A i \in DOMAIN tasks : tasks[i] # s
          /\ \A w \in Workers : Fetched(w) \/ Inside(w) => svc[w] # s
      BY <2>2 DEF OneRunPerService
    <3>3. /\ \A i \in DOMAIN tasks' : i \in DOMAIN tasks \/ i = Len(tasks) + 1
          /\ \A i \in DOMAIN tasks : tasks'[i] = tasks[i] /\ i # Len(tasks) + 1
          /\ tasks'[Len(tasks) + 1] = s
      BY <3>1, <2>1 DEF TypeOK
    <3>4. /\ \A w \in Workers : Fetched(w)' <=> Fetched(w)
          /\ \A w \in Workers : Inside(w)' <=> Inside(w)
      BY <3>1 DEF Fetched, Inside
    <3>5. \A i \in DOMAIN tasks : tasks[i] \in Services
      BY DEF TypeOK
    <3>6. \A w \in Workers : Fetched(w) \/ Inside(w) => svc[w] \in Services
      BY DEF TypeOK, Fetched, Inside, Handlers
    <3>7. \A i, j \in DOMAIN tasks' : tasks'[i] = tasks'[j] => i = j
      BY <3>2, <3>3 DEF OneRunPerService
    <3>8. \A i \in DOMAIN tasks' : run'[tasks'[i]] = "RS_SCHEDULE"
      BY <3>1, <3>2, <3>3, <3>5, <2>1 DEF OneRunPerService, TypeOK
    <3>9. \A w \in Workers : Fetched(w)' =>
            /\ run'[svc'[w]] = "RS_SCHEDULE"
            /\ \A i \in DOMAIN tasks' : tasks'[i] # svc'[w]
      BY <3>1, <3>2, <3>3, <3>4, <3>6 DEF OneRunPerService, TypeOK
    <3>10. \A w \in Workers : Inside(w)' => run'[svc'[w]] = "RS_RUNNING"
      BY <3>1, <3>2, <3>4, <3>6 DEF OneRunPerService, TypeOK
    <3>11. \A v, w \in Workers :
             (Fetched(v) \/ Inside(v))' /\ (Fetched(w) \/ Inside(w))'
             /\ svc'[v] = svc'[w] => v = w
      BY <3>1, <3>4 DEF OneRunPerService
    <3> QED BY <3>7, <3>8, <3>9, <3>10, <3>11 DEF OneRunPerService
  <2>3. CASE ~(run[s] = "RS_READY" /\ due[s] /\ NeedSchedule(s))
    <3>1. UNCHANGED <<run, tasks, wpc, svc>>
      BY <1>1, <2>3 DEF Tick, worker
    <3> QED BY <3>1 DEF OneRunPerService, Fetched, Inside
  <2> QED BY <2>2, <2>3
<1>2. CASE ~Tick
  <2>1. UNCHANGED <<run, tasks, wpc, svc>>
    BY <1>2 DEF Main, SetServiceState, BreakCondition, Wait, worker
  <2> QED BY <2>1 DEF OneRunPerService, Fetched, Inside
<1> QED BY <1>1, <1>2

(* A worker moves the one task of a service along: from the pool, into     *)
(* Service::Run and out of it.                                             *)
LEMMA WorkerKeepsOneRun ==
  ASSUME TypeOK, OneRunPerService, NEW w \in Workers, Worker(w)
  PROVE  OneRunPerService'
<1> DEFINE s == svc[w]
<1>a. wpc[w] # "idle" => s \in Services
  BY DEF TypeOK
<1>b. \A v \in Workers : Fetched(v) \/ Inside(v) => svc[v] \in Services
  BY DEF TypeOK, Fetched, Inside, Handlers
<1>1. CASE ExecuteTask(w)
  <2> DEFINE t == Head(tasks)
  <2>1. /\ tasks # <<>> /\ wpc[w] = "idle"
        /\ svc' = [svc EXCEPT ![w] = t] /\ tasks' = Tail(tasks)
        /\ wpc' = [wpc EXCEPT ![w] = "run"] /\ run' = run
    BY <1>1 DEF ExecuteTask, Goto
  <2>2. t = tasks[1] /\ 1 \in DOMAIN tasks
    BY <2>1 DEF TypeOK
  <2>3. \A i \in DOMAIN tasks' : i + 1 \in DOMAIN tasks /\ tasks'[i] = tasks[i + 1]
                                  /\ i + 1 # 1 /\ i \in Int
    BY <2>1 DEF TypeOK
  <2>4. \A i \in DOMAIN tasks' : tasks'[i] # t
    BY <2>2, <2>3 DEF OneRunPerService
  <2>5. \A v \in Workers : v # w => /\ svc'[v] = svc[v] /\ wpc'[v] = wpc[v]
                                    /\ Fetched(v)' <=> Fetched(v)
                                    /\ Inside(v)' <=> Inside(v)
    BY <2>1 DEF TypeOK, Fetched, Inside
  <2>6. svc'[w] = t /\ Fetched(w)' /\ ~Inside(w)'
    BY <2>1 DEF TypeOK, Fetched, Inside, Handlers
  <2>7. \A v \in Workers : v # w /\ (Fetched(v) \/ Inside(v)) => svc[v] # t
    BY <2>2 DEF OneRunPerService
  <2>8. \A i, j \in DOMAIN tasks' : tasks'[i] = tasks'[j] => i = j
    <3> SUFFICES ASSUME NEW i \in DOMAIN tasks', NEW j \in DOMAIN tasks',
                        tasks'[i] = tasks'[j]
                 PROVE  i = j
      OBVIOUS
    <3>1. i + 1 = j + 1
      BY <2>3 DEF OneRunPerService
    <3> QED BY <3>1, <2>3
  <2>9. \A i \in DOMAIN tasks' : run'[tasks'[i]] = "RS_SCHEDULE"
    BY <2>1, <2>3 DEF OneRunPerService
  <2>10. \A v \in Workers : Fetched(v)' =>
           /\ run'[svc'[v]] = "RS_SCHEDULE"
           /\ \A i \in DOMAIN tasks' : tasks'[i] # svc'[v]
    BY <2>1, <2>2, <2>3, <2>4, <2>5, <2>6 DEF OneRunPerService
  <2>11. \A v \in Workers : Inside(v)' => run'[svc'[v]] = "RS_RUNNING"
    BY <2>1, <2>5, <2>6 DEF OneRunPerService
  <2>12. \A u, v \in Workers :
           (Fetched(u) \/ Inside(u))' /\ (Fetched(v) \/ Inside(v))'
           /\ svc'[u] = svc'[v] => u = v
    BY <2>5, <2>6, <2>7 DEF OneRunPerService
  <2> QED BY <2>8, <2>9, <2>10, <2>11, <2>12 DEF OneRunPerService
<1>2. CASE RunBegin(w)
  <2>1. /\ Fetched(w) /\ run' = [run EXCEPT ![s] = "RS_RUNNING"]
        /\ wpc' = [wpc EXCEPT ![w] = "switch"] /\ UNCHANGED <<tasks, svc>>
    BY <1>2 DEF RunBegin, Goto, Fetched
  <2>2. /\ \A i \in DOMAIN tasks : tasks[i] # s /\ tasks[i] \in Services
        /\ \A v \in Workers : v # w /\ (Fetched(v) \/ Inside(v)) => svc[v] # s
    BY <2>1 DEF OneRunPerService, TypeOK
  <2>3. \A v \in Workers : v # w => /\ Fetched(v)' <=> Fetched(v)
                                    /\ Inside(v)' <=> Inside(v)
    BY <2>1 DEF TypeOK, Fetched, Inside
  <2>4. Inside(w)' /\ ~Fetched(w)'
    BY <2>1 DEF TypeOK, Fetched, Inside
  <2>5. \A x \in Services : run'[x] = IF x = s THEN "RS_RUNNING" ELSE run[x]
    BY <2>1 DEF TypeOK
  <2> QED BY <2>1, <2>2, <2>3, <2>4, <2>5, <1>b DEF OneRunPerService
<1>3. CASE RunSwitch(w)
  <2>1. PICK pc \in {"switch", "ready"} \cup Handlers : Goto(w, pc)
    BY <1>3 DEF RunSwitch, Goto, Handlers, TypeOK
  <2>2. Inside(w) /\ UNCHANGED <<run, tasks, svc>>
    BY <1>3 DEF RunSwitch, Inside
  <2> QED BY <2>1, <2>2, StaysInside
<1>4. CASE InitReturns(w) \/ IsStartOKReturns(w) \/ TickOrShutdownReturns(w)
           \/ IsShutdownOKReturns(w)
  <2>1. Inside(w) /\ Goto(w, "ready") /\ UNCHANGED <<run, tasks, svc>>
    BY <1>4 DEF InitReturns, IsStartOKReturns, TickOrShutdownReturns,
                IsShutdownOKReturns, Inside, Handlers
  <2> QED BY <2>1, StaysInside
<1>5. CASE RunEnd(w)
  <2>1. /\ Inside(w) /\ run' = [run EXCEPT ![s] = "RS_READY"]
        /\ wpc' = [wpc EXCEPT ![w] = "return"] /\ UNCHANGED <<tasks, svc>>
    BY <1>5 DEF RunEnd, Goto, Inside
  <2>2. s \in Services /\ run[s] = "RS_RUNNING"
    BY <2>1, <1>b DEF OneRunPerService
  <2>3. /\ \A i \in DOMAIN tasks : tasks[i] # s /\ tasks[i] \in Services
        /\ \A v \in Workers : v # w /\ (Fetched(v) \/ Inside(v)) => svc[v] # s
    BY <2>1, <2>2 DEF OneRunPerService, TypeOK
  <2>4. \A v \in Workers : v # w => /\ Fetched(v)' <=> Fetched(v)
                                    /\ Inside(v)' <=> Inside(v)
    BY <2>1 DEF TypeOK, Fetched, Inside
  <2>5. ~Inside(w)' /\ ~Fetched(w)'
    BY <2>1 DEF TypeOK, Fetched, Inside, Handlers
  <2>6. \A x \in Services : x # s => run'[x] = run[x]
    BY <2>1 DEF TypeOK
  <2> QED BY <2>1, <2>3, <2>4, <2>5, <2>6, <1>b DEF OneRunPerService
<1>6. CASE TaskReturns(w)
  <2>1. /\ wpc' = [wpc EXCEPT ![w] = "idle"]
        /\ svc' = [svc EXCEPT ![w] = NoService] /\ UNCHANGED <<run, tasks>>
    BY <1>6 DEF TaskReturns, Goto
  <2>2. \A v \in Workers : v # w => /\ svc'[v] = svc[v]
                                    /\ Fetched(v)' <=> Fetched(v)
                                    /\ Inside(v)' <=> Inside(v)
    BY <2>1 DEF TypeOK, Fetched, Inside
  <2>3. ~Inside(w)' /\ ~Fetched(w)'
    BY <2>1 DEF TypeOK, Fetched, Inside, Handlers
  <2> QED BY <2>1, <2>2, <2>3 DEF OneRunPerService
<1> QED BY <1>1, <1>2, <1>3, <1>4, <1>5, <1>6 DEF Worker

(* Every step keeps a service's runs apart.                                *)
LEMMA NextKeepsOneRun ==
  TypeOK /\ OneRunPerService /\ [Next]_vars => OneRunPerService'
<1> SUFFICES ASSUME TypeOK, OneRunPerService, [Next]_vars PROVE OneRunPerService'
  OBVIOUS
<1>1. CASE Main
  BY <1>1, MainKeepsOneRun
<1>2. CASE \E w \in Workers : Worker(w)
  BY <1>2, WorkerKeepsOneRun
<1>3. CASE ShutDown \/ (\E s \in Throttled : TimePasses(s)) \/ UNCHANGED vars
  <2>1. UNCHANGED <<run, tasks, wpc, svc>>
    BY <1>3 DEF ShutDown, TimePasses, vars, worker
  <2> QED BY <2>1 DEF OneRunPerService, Fetched, Inside
<1> QED BY <1>1, <1>2, <1>3 DEF Next

(* However many workers the pool has, at most one task of a service is     *)
(* queued or running at any time: ServiceManager::Tick's test of           *)
(* m_enmRunState, with the order of the two stores in Service::Run, is     *)
(* enough to keep a service single-threaded without a lock.                *)
THEOREM OneRunKept == Spec => []OneRunPerService
<1>1. Init => OneRunPerService
  BY DEF Init, OneRunPerService, Fetched, Inside, Handlers
<1>2. TypeOK /\ OneRunPerService /\ [Next]_vars => OneRunPerService'
  BY NextKeepsOneRun
<1> QED BY <1>1, <1>2, TypeCorrect, PTL DEF Spec

-----------------------------------------------------------------------------
(* The states of the services and the phase of the main thread.            *)

(* Every service is somewhere in the list, and in one place.               *)
LEMMA RegisteredOnce ==
  /\ \A s \in Services : \E i \in 1 .. Count : Registered[i] = s
  /\ \A i, j \in 1 .. Count : Registered[i] = Registered[j] => i = j
BY ServiceAssumption DEF Services, Count

(* The main thread begins a phase only with services that ended the last.  *)
LEMMA MainKeepsPhase ==
  ASSUME TypeOK, PhaseInv, Main
  PROVE  PhaseInv'
<1> USE DEF Before, Within, Starting, Stopping
<1>0. at \in 1 .. Count /\ Count \in Nat
  BY ServiceAssumption DEF TypeOK, Count
<1>1. CASE SetServiceState
  <2> DEFINE s == Registered[at]
  <2>1. /\ mpc = "set" /\ state' = [state EXCEPT ![s] = phase]
        /\ UNCHANGED <<phase, wpc, svc>>
    BY <1>1 DEF SetServiceState, worker
  <2>2. s \in Services /\ \A x \in Services : state'[x] = IF x = s THEN phase ELSE state[x]
    BY <1>0, <2>1, RegisteredAt DEF TypeOK
  <2>3. \A i \in 1 .. Count : state'[Registered[i]] = IF i = at THEN phase ELSE state[Registered[i]]
    BY <1>0, <2>2, RegisteredAt, RegisteredOnce
  <2>4. IF at < Count THEN at' = at + 1 /\ mpc' = "set" ELSE at' = 1 /\ mpc' = "tick"
    BY <1>1, <2>1 DEF SetServiceState, Advance
  <2>5. phase \in Within[phase]
    BY DEF TypeOK
  <2>6. \A i \in 1 .. Count :
          /\ state'[Registered[i]] \in
               IF mpc' = "set" /\ i >= at' THEN Before[phase] ELSE Within[phase]
          /\ ~(mpc' = "wait" \/ (mpc' = "check" /\ i < at'))
    <3> SUFFICES ASSUME NEW i \in 1 .. Count
                 PROVE  /\ state'[Registered[i]] \in
                             IF mpc' = "set" /\ i >= at' THEN Before[phase] ELSE Within[phase]
                        /\ ~(mpc' = "wait" \/ (mpc' = "check" /\ i < at'))
      OBVIOUS
    <3>1. CASE i < at
      <4>1. state'[Registered[i]] \in Within[phase]
        BY <2>1, <2>3, <3>1, <1>0 DEF PhaseInv
      <4> QED BY <4>1, <2>4, <3>1, <1>0
    <3>2. CASE i = at
      BY <2>3, <2>4, <2>5, <3>2, <1>0
    <3>3. CASE i > at
      <4>1. state'[Registered[i]] \in Before[phase]
        BY <2>1, <2>3, <3>3, <1>0 DEF PhaseInv
      <4> QED BY <4>1, <2>4, <3>3, <1>0
    <3> QED BY <3>1, <3>2, <3>3, <1>0
  <2>7. state[s] \in Before[phase]
    BY <1>0, <2>1 DEF PhaseInv
  <2>8. state[s] \notin {"SS_START_PROCESS", "SS_SHUTDOWN_PROCESS"}
    BY <2>7 DEF TypeOK
  <2>9. \A w \in Workers :
          /\ wpc'[w] \in {"Init", "IsStartOK"} => state'[svc'[w]] = "SS_START_PROCESS"
          /\ wpc'[w] = "IsShutdownOK" => state'[svc'[w]] = "SS_SHUTDOWN_PROCESS"
    BY <2>1, <2>2, <2>8 DEF PhaseInv, TypeOK
  <2> QED BY <2>1, <2>4, <2>6, <2>9 DEF PhaseInv
<1>2. CASE Tick
  <2>1. /\ mpc = "tick" /\ mpc' \in {"tick", "check"}
        /\ mpc' = "check" => at' = 1
        /\ UNCHANGED <<phase, state, wpc, svc>>
    BY <1>2 DEF Tick, Advance, worker
  <2> QED BY <2>1 DEF PhaseInv
<1>3. CASE BreakCondition
  <2>1. mpc = "check" /\ UNCHANGED <<phase, state, wpc, svc>> /\ mpc' # "set"
    BY <1>3 DEF BreakCondition, Advance, worker
  <2>2. \A i \in 1 .. Count : state'[Registered[i]] \in Within[phase]
    BY <2>1 DEF PhaseInv
  <2>a. mpc' = "wait" \/ (mpc' = "check" /\ phase' = "SS_RUN") => at' = 1
    BY <1>3, <2>1, <1>0 DEF BreakCondition, Advance, PhaseInv, TypeOK
  <2>3. CASE phase = "SS_START" /\ state[Registered[at]] = "SS_START_OK"
    <3>1. \A i \in 1 .. Count : i < at \/ i = at => state[Registered[i]] = "SS_START_OK"
      BY <2>1, <2>3 DEF PhaseInv
    <3>2. IF at < Count THEN at' = at + 1 /\ mpc' = "check" ELSE at' = 1 /\ mpc' = "wait"
      BY <1>3, <2>1, <2>3 DEF BreakCondition, Advance, Goal
    <3>3. \A i \in 1 .. Count : mpc' = "wait" \/ i < at' => i < at \/ i = at
      BY <3>2, <1>0
    <3> QED BY <2>1, <2>2, <2>a, <3>1, <3>3 DEF PhaseInv
  <2>4. CASE phase = "SS_START" /\ state[Registered[at]] # "SS_START_OK"
    <3>1. mpc' = "tick"
      BY <1>3, <2>4 DEF BreakCondition, Goal
    <3> QED BY <2>1, <2>2, <2>a, <3>1 DEF PhaseInv
  <2>5. CASE phase # "SS_START"
    BY <2>1, <2>2, <2>a, <2>5 DEF PhaseInv
  <2> QED BY <2>3, <2>4, <2>5
<1>4. CASE Wait
  <2>1. mpc = "wait" /\ UNCHANGED <<at, state, wpc, svc>> /\ mpc' \in {"set", "exit"}
    BY <1>4 DEF Wait, worker, TypeOK
  <2>2. at = 1
    BY <2>1 DEF PhaseInv
  <2>3. CASE phase = "SS_START"
    <3>1. phase' = "SS_RUN" /\ mpc' = "set" /\ \A i \in 1 .. Count : state[Registered[i]] = "SS_START_OK"
      BY <1>4, <2>1, <2>3 DEF Wait, PhaseInv
    <3> QED BY <2>1, <2>2, <3>1 DEF PhaseInv
  <2>4. CASE phase = "SS_RUN"
    <3>1. phase' = "SS_SHUTDOWN" /\ mpc' = "set" /\ \A i \in 1 .. Count : state[Registered[i]] = "SS_RUN"
      BY <1>4, <2>1, <2>4 DEF Wait, PhaseInv
    <3> QED BY <2>1, <2>2, <3>1 DEF PhaseInv
  <2>5. CASE phase = "SS_SHUTDOWN"
    <3>1. mpc' = "exit" /\ phase' = phase
      BY <1>4, <2>5 DEF Wait
    <3> QED BY <2>1, <2>5, <3>1 DEF PhaseInv
  <2> QED BY <2>3, <2>4, <2>5 DEF TypeOK
<1> QED BY <1>1, <1>2, <1>3, <1>4 DEF Main

(* What Service::Run may make of a service's state.                        *)
Moves(x) ==
  CASE x = "SS_START"            -> {"SS_START_PROCESS"}
    [] x = "SS_START_PROCESS"    -> {"SS_START_FAIL", "SS_START_OK"}
    [] x = "SS_SHUTDOWN"         -> {"SS_SHUTDOWN_PROCESS"}
    [] x = "SS_SHUTDOWN_PROCESS" -> {"SS_SHUTDOWN_OK"}
    [] OTHER                     -> {}

(* A worker that changes a state is inside its service and moves it on.    *)
LEMMA WorkerMoves ==
  ASSUME TypeOK, PhaseInv, NEW w \in Workers, Worker(w), state' # state
  PROVE  /\ Inside(w) /\ svc[w] \in Services /\ UNCHANGED <<main, svc>>
         /\ \A v \in Workers : v # w => wpc'[v] = wpc[v]
         /\ \E y \in Moves(state[svc[w]]) :
              /\ state' = [state EXCEPT ![svc[w]] = y]
              /\ wpc'[w] \in {"Init", "IsStartOK"} => y = "SS_START_PROCESS"
              /\ wpc'[w] = "IsShutdownOK" => y = "SS_SHUTDOWN_PROCESS"
<1> USE DEF Moves
<1> DEFINE s == svc[w]
<1>1. \/ RunSwitch(w) \/ InitReturns(w) \/ IsStartOKReturns(w) \/ IsShutdownOKReturns(w)
  BY DEF Worker, ExecuteTask, RunBegin, TickOrShutdownReturns, RunEnd, TaskReturns
<1>2. /\ Inside(w) /\ s \in Services /\ UNCHANGED <<main, svc>>
      /\ \A v \in Workers : v # w => wpc'[v] = wpc[v]
  BY <1>1 DEF RunSwitch, InitReturns, IsStartOKReturns, IsShutdownOKReturns, Inside,
              Handlers, Goto, TypeOK
<1>3. \E y \in Moves(state[s]) :
        /\ state' = [state EXCEPT ![s] = y]
        /\ wpc'[w] \in {"Init", "IsStartOK"} => y = "SS_START_PROCESS"
        /\ wpc'[w] = "IsShutdownOK" => y = "SS_SHUTDOWN_PROCESS"
  <2>1. CASE RunSwitch(w)
    BY <2>1, <1>2 DEF RunSwitch, Goto, TypeOK
  <2>2. CASE InitReturns(w)
    <3>1. state[s] = "SS_START_PROCESS" /\ state' = [state EXCEPT ![s] = "SS_START_FAIL"]
          /\ wpc'[w] = "ready"
      BY <2>2 DEF InitReturns, PhaseInv, Goto, TypeOK
    <3> QED BY <3>1
  <2>3. CASE IsStartOKReturns(w)
    <3>1. state[s] = "SS_START_PROCESS" /\ state' = [state EXCEPT ![s] = "SS_START_OK"]
          /\ wpc'[w] = "ready"
      BY <2>3 DEF IsStartOKReturns, PhaseInv, Goto, TypeOK
    <3> QED BY <3>1
  <2>4. CASE IsShutdownOKReturns(w)
    <3>1. state[s] = "SS_SHUTDOWN_PROCESS" /\ state' = [state EXCEPT ![s] = "SS_SHUTDOWN_OK"]
          /\ wpc'[w] = "ready"
      BY <2>4 DEF IsShutdownOKReturns, PhaseInv, Goto, TypeOK
    <3> QED BY <3>1
  <2> QED BY <1>1, <2>1, <2>2, <2>3, <2>4
<1> QED BY <1>2, <1>3

(* A worker moves a service's state on within its phase, and no other      *)
(* worker is at the service to be surprised by it.                         *)
LEMMA WorkerKeepsPhase ==
  ASSUME TypeOK, OneRunPerService, PhaseInv, NEW w \in Workers, Worker(w)
  PROVE  PhaseInv'
<1> USE DEF Before, Within, Starting, Stopping, Moves
<1> DEFINE s == svc[w]
<1>1. CASE state' = state
  <2>1. \A v \in Workers :
          /\ wpc'[v] \in {"Init", "IsStartOK"} => state[svc'[v]] = "SS_START_PROCESS"
          /\ wpc'[v] = "IsShutdownOK" => state[svc'[v]] = "SS_SHUTDOWN_PROCESS"
    <3> SUFFICES ASSUME NEW v \in Workers
                 PROVE  /\ wpc'[v] \in {"Init", "IsStartOK"}
                             => state[svc'[v]] = "SS_START_PROCESS"
                        /\ wpc'[v] = "IsShutdownOK"
                             => state[svc'[v]] = "SS_SHUTDOWN_PROCESS"
      OBVIOUS
    <3>1. CASE v # w
      <4>1. wpc'[v] = wpc[v] /\ svc'[v] = svc[v]
        BY <3>1 DEF Worker, ExecuteTask, RunBegin, RunSwitch, InitReturns, IsStartOKReturns,
                    TickOrShutdownReturns, IsShutdownOKReturns, RunEnd, TaskReturns, Goto, TypeOK
      <4> QED BY <4>1 DEF PhaseInv
    <3>2. CASE v = w /\ RunSwitch(w)
      <4>1. svc'[w] = s /\ s \in Services
        BY <3>2 DEF RunSwitch, TypeOK
      <4>2. /\ wpc'[w] = "Init" => state'[s] = "SS_START_PROCESS"
            /\ wpc'[w] = "IsStartOK" => state[s] = "SS_START_PROCESS"
            /\ wpc'[w] = "IsShutdownOK" => state[s] = "SS_SHUTDOWN_PROCESS"
        BY <3>2, <4>1 DEF RunSwitch, Goto, TypeOK
      <4> QED BY <1>1, <3>2, <4>1, <4>2
    <3>3. CASE v = w /\ ~RunSwitch(w)
      <4>1. wpc'[w] \notin {"Init", "IsStartOK", "IsShutdownOK"}
        BY <3>3 DEF Worker, ExecuteTask, RunBegin, InitReturns, IsStartOKReturns,
                    TickOrShutdownReturns, IsShutdownOKReturns, RunEnd, TaskReturns, Goto, TypeOK
      <4> QED BY <3>3, <4>1
    <3> QED BY <3>1, <3>2, <3>3
  <2>2. UNCHANGED main
    BY DEF Worker, ExecuteTask, RunBegin, RunSwitch, InitReturns, IsStartOKReturns,
           TickOrShutdownReturns, IsShutdownOKReturns, RunEnd, TaskReturns
  <2> QED BY <1>1, <2>1, <2>2 DEF PhaseInv, main
<1>2. CASE state' # state
  <2>2. /\ Inside(w) /\ s \in Services /\ UNCHANGED <<main, svc>>
        /\ \A v \in Workers : v # w => wpc'[v] = wpc[v]
    BY <1>2, WorkerMoves
  <2>3. PICK y \in Moves(state[s]) :
          /\ state' = [state EXCEPT ![s] = y]
          /\ wpc'[w] \in {"Init", "IsStartOK"} => y = "SS_START_PROCESS"
          /\ wpc'[w] = "IsShutdownOK" => y = "SS_SHUTDOWN_PROCESS"
    BY <1>2, WorkerMoves
  <2>4. \A x \in Services : state'[x] = IF x = s THEN y ELSE state[x]
    BY <2>3, <2>2 DEF TypeOK
  <2>5. \A v \in Workers : v # w /\ Inside(v) => svc[v] # s /\ svc[v] \in Services
    BY <2>2 DEF OneRunPerService, TypeOK, Inside, Handlers
  <2>6. \A v \in Workers :
          /\ wpc'[v] \in {"Init", "IsStartOK"} => state'[svc'[v]] = "SS_START_PROCESS"
          /\ wpc'[v] = "IsShutdownOK" => state'[svc'[v]] = "SS_SHUTDOWN_PROCESS"
    BY <2>2, <2>3, <2>4, <2>5 DEF PhaseInv, Inside, Handlers
  <2>7. \A i \in 1 .. Count :
          /\ state'[Registered[i]] \in
               IF mpc = "set" /\ i >= at THEN Before[phase] ELSE Within[phase]
          /\ phase = "SS_START" /\ (mpc = "wait" \/ (mpc = "check" /\ i < at))
               => state'[Registered[i]] = "SS_START_OK"
    <3> SUFFICES ASSUME NEW i \in 1 .. Count
                 PROVE  /\ state'[Registered[i]] \in
                             IF mpc = "set" /\ i >= at THEN Before[phase] ELSE Within[phase]
                        /\ phase = "SS_START" /\ (mpc = "wait" \/ (mpc = "check" /\ i < at))
                             => state'[Registered[i]] = "SS_START_OK"
      OBVIOUS
    <3>1. CASE Registered[i] # s
      BY <2>4, <3>1, RegisteredAt DEF PhaseInv
    <3>2. CASE Registered[i] = s
      <4>1. /\ state[s] \in IF mpc = "set" /\ i >= at THEN Before[phase] ELSE Within[phase]
            /\ phase = "SS_START" /\ (mpc = "wait" \/ (mpc = "check" /\ i < at))
                 => state[s] = "SS_START_OK"
        BY <3>2 DEF PhaseInv
      <4>2. state'[Registered[i]] = y /\ y \in Moves(state[s])
        BY <2>4, <2>2, <2>3, <3>2
      <4> QED BY <4>1, <4>2 DEF TypeOK
    <3> QED BY <3>1, <3>2
  <2> QED BY <2>2, <2>6, <2>7 DEF PhaseInv, main
<1> QED BY <1>1, <1>2

(* Every step keeps the phases apart.                                      *)
LEMMA NextKeepsPhase ==
  TypeOK /\ OneRunPerService /\ PhaseInv /\ [Next]_vars => PhaseInv'
<1> SUFFICES ASSUME TypeOK, OneRunPerService, PhaseInv, [Next]_vars PROVE PhaseInv'
  OBVIOUS
<1>1. CASE Main
  BY <1>1, MainKeepsPhase
<1>2. CASE \E w \in Workers : Worker(w)
  BY <1>2, WorkerKeepsPhase
<1>3. CASE ShutDown \/ (\E s \in Throttled : TimePasses(s)) \/ UNCHANGED vars
  <2>1. UNCHANGED <<mpc, at, phase, state, wpc, svc>>
    BY <1>3 DEF ShutDown, TimePasses, vars, main, worker
  <2> QED BY <2>1 DEF PhaseInv
<1> QED BY <1>1, <1>2, <1>3 DEF Next

(* With any number of services and workers, and whether or not Wait times  *)
(* out, a phase of RunLogic begins with every service at the end of the    *)
(* phase before, and a handler that returns finds the state Service::Run   *)
(* stored before it called the handler.                                    *)
THEOREM PhaseKept == Spec => []PhaseInv
<1>1. Init => PhaseInv
  BY RegisteredAt DEF Init, PhaseInv, Before
<1>2. TypeOK /\ OneRunPerService /\ PhaseInv /\ [Next]_vars => PhaseInv'
  BY NextKeepsPhase
<1> QED BY <1>1, <1>2, TypeCorrect, OneRunKept, PTL DEF Spec

(* The order of the states.                                                *)
LEMMA Ranks ==
  /\ Rank("SS_NONE") = 1 /\ Rank("SS_START") = 2 /\ Rank("SS_START_PROCESS") = 3
  /\ Rank("SS_START_FAIL") = 4 /\ Rank("SS_START_OK") = 5 /\ Rank("SS_RUN") = 6
  /\ Rank("SS_SHUTDOWN") = 7 /\ Rank("SS_SHUTDOWN_PROCESS") = 8
  /\ Rank("SS_SHUTDOWN_OK") = 9
<1>1. DOMAIN StateOrder = 1 .. 9
  BY DEF StateOrder
<1>2. /\ StateOrder[1] = "SS_NONE" /\ StateOrder[2] = "SS_START"
      /\ StateOrder[3] = "SS_START_PROCESS" /\ StateOrder[4] = "SS_START_FAIL"
      /\ StateOrder[5] = "SS_START_OK" /\ StateOrder[6] = "SS_RUN"
      /\ StateOrder[7] = "SS_SHUTDOWN" /\ StateOrder[8] = "SS_SHUTDOWN_PROCESS"
      /\ StateOrder[9] = "SS_SHUTDOWN_OK"
  BY DEF StateOrder
<1>3. \A i \in 1 .. 9 : Rank(StateOrder[i]) = i
  <2> SUFFICES ASSUME NEW i \in 1 .. 9 PROVE Rank(StateOrder[i]) = i
    OBVIOUS
  <2>1. \A j \in 1 .. 9 : StateOrder[j] = StateOrder[i] => j = i
    BY <1>2
  <2> QED BY <1>1, <2>1 DEF Rank
<1> QED BY <1>2, <1>3

(* No service's state ever goes back in the order None, Start, Run,        *)
(* Shutdown, whatever the main thread and the workers store without a lock *)
(* and even when Wait gives up on a slow task.                             *)
THEOREM StatesOnlyAdvance == Spec => StateNeverGoesBack
<1>1. TypeOK /\ PhaseInv /\ [Next]_vars
      => [\A s \in Services : Rank(state'[s]) >= Rank(state[s])]_vars
  <2> SUFFICES ASSUME TypeOK, PhaseInv, [Next]_vars, NEW s \in Services
               PROVE  Rank(state'[s]) >= Rank(state[s])
    OBVIOUS
  <2>1. Rank(state[s]) \in Int
    <3>1. PICK i \in 1 .. 9 : state[s] = StateOrder[i]
      BY DEF TypeOK, ServiceStates, StateOrder
    <3> QED BY <3>1, Ranks DEF StateOrder
  <2>2. CASE state'[s] = state[s]
    BY <2>1, <2>2
  <2>3. CASE SetServiceState
    <3>1. /\ state' = [state EXCEPT ![Registered[at]] = phase] /\ mpc = "set"
          /\ Registered[at] \in Services /\ at \in 1 .. Count
      BY <2>3, RegisteredAt DEF SetServiceState, TypeOK
    <3>2. state[Registered[at]] \in Before[phase]
      BY <3>1 DEF PhaseInv, Count
    <3>3. CASE s = Registered[at]
      <4>1. state'[s] = phase
        BY <3>1, <3>3 DEF TypeOK
      <4> QED BY <3>2, <3>3, <4>1, Ranks DEF Before, TypeOK
    <3>4. CASE s # Registered[at]
      BY <3>1, <3>4, <2>2 DEF TypeOK
    <3> QED BY <3>3, <3>4
  <2>4. CASE \E w \in Workers : Worker(w) /\ state'[s] # state[s]
    <3>1. PICK w \in Workers : Worker(w) /\ state'[s] # state[s]
      BY <2>4
    <3>2. PICK y \in Moves(state[svc[w]]) : state' = [state EXCEPT ![svc[w]] = y]
      BY <3>1, WorkerMoves
    <3>3. s = svc[w] /\ state'[s] = y
      BY <3>1, <3>2 DEF TypeOK
    <3> QED BY <3>2, <3>3, Ranks DEF Moves
  <2>5. SetServiceState \/ (\E w \in Workers : Worker(w)) \/ state' = state
    BY DEF Next, Main, Tick, BreakCondition, Wait, ShutDown, TimePasses, vars
  <2> QED BY <2>2, <2>3, <2>4, <2>5
<1> QED BY <1>1, TypeCorrect, PhaseKept, PTL DEF Spec, StateNeverGoesBack
-----------------------------------------------------------------------------
(* The services' lives, when no task outlasts Wait.                        *)

(* A worker alone can end the idleness of the pool, and needs a task.      *)
LEMMA IdleWorkers ==
  ASSUME PoolIdle, NEW w \in Workers
  PROVE  ~Worker(w)
BY DEF PoolIdle, Worker, ExecuteTask, RunBegin, RunSwitch, InitReturns, IsStartOKReturns,
       TickOrShutdownReturns, IsShutdownOKReturns, RunEnd, TaskReturns, Handlers

(* The main thread stores states only while no handler runs.               *)
LEMMA MainKeepsLife ==
  ASSUME ~WaitMayTimeOut, LifeInv, Main
  PROVE  LifeInv'
<1>1. CASE SetServiceState
  <2>1. PoolIdle /\ UNCHANGED <<wpc, svc, tasks>>
    BY <1>1 DEF SetServiceState, LifeInv, worker
  <2> QED BY <2>1 DEF LifeInv, PoolIdle
<1>2. CASE Tick \/ BreakCondition
  <2>1. mpc' # "set" /\ UNCHANGED <<wpc, svc, state>>
    BY <1>2 DEF Tick, BreakCondition, Advance, worker
  <2> QED BY <2>1 DEF LifeInv
<1>3. CASE Wait
  <2>1. PoolIdle /\ UNCHANGED <<wpc, svc, tasks, state>>
    BY <1>3 DEF Wait, worker
  <2> QED BY <2>1 DEF LifeInv, PoolIdle
<1> QED BY <1>1, <1>2, <1>3 DEF Main

(* What the step of a worker leaves to the others.                         *)
LEMMA WorkerAlone ==
  ASSUME TypeOK, NEW w \in Workers, Worker(w)
  PROVE  /\ UNCHANGED main
         /\ \A v \in Workers : v # w => wpc'[v] = wpc[v] /\ svc'[v] = svc[v]
         /\ ~ExecuteTask(w) => wpc[w] # "idle"
         /\ ~ExecuteTask(w) /\ ~TaskReturns(w) => svc' = svc
BY DEF TypeOK, Worker, ExecuteTask, RunBegin, RunSwitch, InitReturns, IsStartOKReturns,
       TickOrShutdownReturns, IsShutdownOKReturns, RunEnd, TaskReturns, Handlers, Goto

(* A worker calls Tick and Shutdown in the state it has seen or stored,    *)
(* and no other worker is there to change it.                              *)
LEMMA WorkerKeepsLife ==
  ASSUME TypeOK, OneRunPerService, PhaseInv, LifeInv, NEW w \in Workers, Worker(w)
  PROVE  LifeInv'
<1>1. mpc' # "set"
  BY IdleWorkers, WorkerAlone DEF LifeInv, main
<1> SUFFICES ASSUME NEW v \in Workers
             PROVE  /\ wpc'[v] = "Tick" => state'[svc'[v]] = "SS_RUN"
                    /\ wpc'[v] = "Shutdown" => state'[svc'[v]] = "SS_SHUTDOWN_PROCESS"
  BY <1>1 DEF LifeInv
<1>2. CASE v # w /\ wpc[v] \in {"Tick", "Shutdown"}
  <2>1. wpc'[v] = wpc[v] /\ svc'[v] = svc[v]
    BY <1>2, WorkerAlone
  <2>2. state'[svc[v]] = state[svc[v]]
    <3>1. Inside(v) /\ svc[v] \in Services
      BY <1>2 DEF Inside, Handlers, TypeOK
    <3>2. CASE state' # state
      <4>1. Inside(w) /\ \E y \in Moves(state[svc[w]]) : state' = [state EXCEPT ![svc[w]] = y]
        BY <3>2, WorkerMoves
      <4>2. svc[v] # svc[w]
        BY <1>2, <3>1, <4>1 DEF OneRunPerService
      <4> QED BY <3>1, <4>1, <4>2 DEF TypeOK
    <3> QED BY <3>2
  <2> QED BY <2>1, <2>2 DEF LifeInv
<1>3. CASE v # w /\ wpc[v] \notin {"Tick", "Shutdown"}
  BY <1>3, WorkerAlone
<1>4. CASE v = w /\ RunSwitch(w)
  <2>1. svc'[w] = svc[w] /\ svc[w] \in Services
    BY <1>4 DEF RunSwitch, TypeOK
  <2> QED BY <1>4, <2>1 DEF RunSwitch, Goto, TypeOK
<1>5. CASE v = w /\ ~RunSwitch(w)
  <2>1. wpc'[w] \notin {"Tick", "Shutdown"}
    BY <1>5 DEF Worker, ExecuteTask, RunBegin, InitReturns, IsStartOKReturns,
                TickOrShutdownReturns, IsShutdownOKReturns, RunEnd, TaskReturns, Goto, TypeOK
  <2> QED BY <1>5, <2>1
<1> QED BY <1>2, <1>3, <1>4, <1>5

(* Every step keeps handlers and phases apart.                             *)
LEMMA NextKeepsLife ==
  ASSUME ~WaitMayTimeOut
  PROVE  TypeOK /\ OneRunPerService /\ PhaseInv /\ LifeInv /\ [Next]_vars => LifeInv'
<1> SUFFICES ASSUME TypeOK, OneRunPerService, PhaseInv, LifeInv, [Next]_vars PROVE LifeInv'
  OBVIOUS
<1>1. CASE Main
  BY <1>1, MainKeepsLife
<1>2. CASE \E w \in Workers : Worker(w)
  BY <1>2, WorkerKeepsLife
<1>3. CASE ShutDown \/ (\E s \in Throttled : TimePasses(s)) \/ UNCHANGED vars
  <2>1. UNCHANGED <<mpc, state, tasks, wpc, svc>>
    BY <1>3 DEF ShutDown, TimePasses, vars, main, worker
  <2> QED BY <2>1 DEF LifeInv, PoolIdle
<1> QED BY <1>1, <1>2, <1>3 DEF Next

(* When no task outlasts Wait, the main thread stores a phase only while   *)
(* no handler runs: Tick is called and returns in SS_RUN, Shutdown in      *)
(* SS_SHUTDOWN_PROCESS.                                                    *)
THEOREM LifeKept == ASSUME ~WaitMayTimeOut PROVE Spec => []LifeInv
<1>1. Init => LifeInv
  BY DEF Init, LifeInv, PoolIdle
<1>2. TypeOK /\ OneRunPerService /\ PhaseInv /\ LifeInv /\ [Next]_vars => LifeInv'
  BY NextKeepsLife
<1> QED BY <1>1, <1>2, TypeCorrect, OneRunKept, PhaseKept, PTL DEF Spec

(* Where a service is when no worker is in one of the three handlers that  *)
(* are stages, and when the worker at pc is the one inside it.             *)
Resting(x) ==
  CASE x \in {"SS_NONE", "SS_START"} -> "new"
    [] x = "SS_START_FAIL" -> "failed"
    [] x \in {"SS_SHUTDOWN_PROCESS", "SS_SHUTDOWN_OK"} -> "down"
    [] OTHER -> "up"
StageAt(pc, x) ==
  CASE pc = "Init" -> "init" [] pc = "Tick" -> "tick" [] pc = "Shutdown" -> "stop"
    [] OTHER -> Resting(x)

(* The handlers that are stages.                                           *)
Staged == {"Init", "Tick", "Shutdown"}

(* The stage of a service no worker handles follows from its state.        *)
LEMMA StageOfFree ==
  ASSUME NEW s \in Services
  PROVE  /\ (\A h \in Staged : ~In(s, h)) => Stage[s] = Resting(state[s])
         /\ (\A h \in Staged : ~In(s, h)') => Stage'[s] = Resting(state'[s])
BY DEF Stage, Resting, Staged

(* A step that changes neither who is in which of these handlers nor where *)
(* a state rests changes no stage.                                         *)
LEMMA StageStays ==
  ASSUME \A s \in Services : /\ \A h \in Staged : In(s, h)' <=> In(s, h)
                             /\ Resting(state'[s]) = Resting(state[s])
  PROVE  Stage' = Stage
<1>1. \A s \in Services : Stage'[s] = Stage[s]
  BY DEF Stage, Resting, Staged
<1>2. Stage = [s \in Services |-> Stage[s]] /\ Stage' = [s \in Services |-> Stage'[s]]
  BY DEF Stage
<1> QED BY <1>1, <1>2

(* A step of the worker inside a service changes at most the service's     *)
(* stage, from what its place and the state were to what they become.      *)
LEMMA StageMoves ==
  ASSUME TypeOK, OneRunPerService, NEW w \in Workers, Fetched(w) \/ Inside(w),
         UNCHANGED svc, \A v \in Workers : v # w => wpc'[v] = wpc[v],
         \A t \in Services \ {svc[w]} : state'[t] = state[t]
  PROVE  /\ svc[w] \in Services
         /\ Stage[svc[w]] = StageAt(wpc[w], state[svc[w]])
         /\ Stage' = [Stage EXCEPT ![svc[w]] = StageAt(wpc'[w], state'[svc[w]])]
<1> DEFINE s == svc[w]
<1>1. s \in Services
  BY DEF TypeOK, Fetched, Inside, Handlers
<1>2. \A h \in Staged : /\ In(s, h) <=> wpc[w] = h
                        /\ In(s, h)' <=> wpc'[w] = h
  BY DEF OneRunPerService, In, Inside, Handlers, Staged
<1>3. \A t \in Services \ {s}, h \in Staged : In(t, h)' <=> In(t, h)
  BY DEF In
<1>4. Stage[s] = StageAt(wpc[w], state[s]) /\ Stage'[s] = StageAt(wpc'[w], state'[s])
  BY <1>1, <1>2 DEF Stage, StageAt, Resting, Staged
<1>5. \A t \in Services \ {s} : Stage'[t] = Stage[t]
  BY <1>3 DEF Stage, Staged
<1>6. Stage = [t \in Services |-> Stage[t]] /\ Stage' = [t \in Services |-> Stage'[t]]
  BY DEF Stage
<1> QED BY <1>1, <1>4, <1>5, <1>6

(* While a worker runs, every service is in the main thread's phase.       *)
LEMMA AllInPhase ==
  ASSUME LifeInv, PhaseInv, NEW w \in Workers, wpc[w] # "idle", NEW s \in Services
  PROVE  state[s] \in Within[phase]
BY RegisteredOnce DEF LifeInv, PoolIdle, PhaseInv

(* So when one is ticked the others can be ticked, and when one is shut    *)
(* down none is ticked.                                                    *)
LEMMA OthersStage ==
  ASSUME TypeOK, LifeInv, PhaseInv, NEW w \in Workers, wpc[w] # "idle"
  PROVE  /\ phase = "SS_RUN" => \A s \in Services : Stage[s] \in {"up", "tick"}
         /\ phase = "SS_SHUTDOWN" => \A s \in Services : Stage[s] \in {"up", "stop", "down"}
<1> SUFFICES ASSUME NEW s \in Services
             PROVE  /\ phase = "SS_RUN" => Stage[s] \in {"up", "tick"}
                    /\ phase = "SS_SHUTDOWN" => Stage[s] \in {"up", "stop", "down"}
  OBVIOUS
<1>1. state[s] \in Within[phase]
  BY AllInPhase
<1>2. /\ In(s, "Init") => state[s] = "SS_START_PROCESS"
      /\ In(s, "Tick") => state[s] = "SS_RUN"
      /\ In(s, "Shutdown") => state[s] = "SS_SHUTDOWN_PROCESS"
  BY DEF In, PhaseInv, LifeInv
<1> QED BY <1>1, <1>2 DEF Stage, Within, Starting, Stopping

(* The main thread changes no stage: it stores a phase in services that    *)
(* are through with the one before.                                        *)
LEMMA MainStutters ==
  ASSUME TypeOK, PhaseInv, LifeInv, Main
  PROVE  Stage' = Stage
<1>1. CASE SetServiceState
  <2> DEFINE s == Registered[at]
  <2>1. /\ mpc = "set" /\ PoolIdle /\ s \in Services /\ at \in 1 .. Count
        /\ state' = [state EXCEPT ![s] = phase] /\ UNCHANGED <<wpc, svc>>
    BY <1>1, RegisteredAt DEF SetServiceState, LifeInv, TypeOK, worker
  <2>2. state[s] \in Before[phase]
    BY <2>1 DEF PhaseInv, Count
  <2>3. \A t \in Services : Resting(state'[t]) = Resting(state[t])
    BY <2>1, <2>2 DEF Before, Resting, TypeOK
  <2>4. \A t \in Services, h \in Staged : In(t, h)' <=> In(t, h)
    BY <2>1 DEF In
  <2> QED BY <2>3, <2>4, StageStays
<1>2. CASE Tick \/ BreakCondition \/ Wait
  <2>1. UNCHANGED <<state, wpc, svc>>
    BY <1>2 DEF Tick, BreakCondition, Wait, worker
  <2> QED BY <2>1, StageStays DEF In
<1> QED BY <1>1, <1>2 DEF Main

(* A worker that takes a task or gives up its service changes no stage.    *)
LEMMA OutsideStutters ==
  ASSUME TypeOK, NEW w \in Workers, ExecuteTask(w) \/ TaskReturns(w)
  PROVE  Stage' = Stage
<1>1. /\ wpc[w] \notin Staged /\ wpc'[w] \notin Staged /\ state' = state
      /\ \A v \in Workers : v # w => wpc'[v] = wpc[v] /\ svc'[v] = svc[v]
  BY DEF ExecuteTask, TaskReturns, Goto, Staged, TypeOK
<1> QED BY <1>1, StageStays DEF In, Staged

(* The switch of Service::Run begins Init, Tick or Shutdown when the       *)
(* abstract service may, and otherwise changes no stage.                   *)
LEMMA SwitchMaps ==
  ASSUME TypeOK, OneRunPerService, PhaseInv, LifeInv, NEW w \in Workers, RunSwitch(w)
  PROVE  Lifecycle!Next \/ Stage' = Stage
<1> DEFINE s == svc[w]
<1>1. /\ wpc[w] = "switch" /\ Inside(w) /\ wpc[w] # "idle" /\ UNCHANGED svc
      /\ \A v \in Workers : v # w => wpc'[v] = wpc[v]
      /\ s \in Services
      /\ \A t \in Services \ {s} : state'[t] = state[t]
  BY DEF RunSwitch, Inside, Goto, TypeOK
<1>2. /\ Stage[s] = Resting(state[s])
      /\ Stage' = [Stage EXCEPT ![s] = StageAt(wpc'[w], state'[s])]
  BY <1>1, StageMoves DEF StageAt
<1>3. state[s] \in Within[phase]
  BY <1>1, AllInPhase
<1>4. CASE state[s] = "SS_START"
  <2>1. wpc'[w] = "Init"
    BY <1>4 DEF RunSwitch, Goto, TypeOK
  <2>2. Lifecycle!Move(s, "new", "init")
    BY <1>2, <1>4, <2>1 DEF Resting, StageAt, Lifecycle!Move
  <2> QED BY <1>1, <2>2 DEF Lifecycle!Next, Lifecycle!Initialise
<1>5. CASE state[s] = "SS_RUN"
  <2>1. wpc'[w] = "Tick" /\ phase = "SS_RUN"
    BY <1>3, <1>5 DEF RunSwitch, Goto, TypeOK, Within, Starting, Stopping
  <2>2. Lifecycle!Move(s, "up", "tick")
    BY <1>2, <1>5, <2>1 DEF Resting, StageAt, Lifecycle!Move
  <2>3. Lifecycle!Others(s, {"up", "tick"})
    BY <1>1, <2>1, OthersStage DEF Lifecycle!Others
  <2> QED BY <1>1, <2>2, <2>3 DEF Lifecycle!Next, Lifecycle!Tick
<1>6. CASE state[s] = "SS_SHUTDOWN"
  <2>1. wpc'[w] = "Shutdown" /\ phase = "SS_SHUTDOWN"
    BY <1>3, <1>6 DEF RunSwitch, Goto, TypeOK, Within, Starting, Stopping
  <2>2. Lifecycle!Move(s, "up", "stop")
    BY <1>2, <1>6, <2>1 DEF Resting, StageAt, Lifecycle!Move
  <2>3. Lifecycle!Others(s, {"up", "stop", "down"})
    BY <1>1, <2>1, OthersStage DEF Lifecycle!Others
  <2> QED BY <1>1, <2>2, <2>3 DEF Lifecycle!Next, Lifecycle!Stop
<1>7. CASE state[s] \notin {"SS_START", "SS_RUN", "SS_SHUTDOWN"}
  <2>1. wpc'[w] \notin Staged /\ state'[s] = state[s]
    BY <1>1, <1>7 DEF RunSwitch, Goto, TypeOK, Staged
  <2>2. StageAt(wpc'[w], state'[s]) = Stage[s]
    BY <1>2, <2>1 DEF StageAt, Staged
  <2>3. Stage' = Stage
    BY <1>2, <2>2 DEF Stage
  <2> QED BY <2>3
<1> QED BY <1>4, <1>5, <1>6, <1>7

(* A handler that returns ends a stage of the abstract service, and the    *)
(* other steps of Service::Run change none.                                *)
LEMMA ReturnMaps ==
  ASSUME TypeOK, OneRunPerService, PhaseInv, LifeInv, NEW w \in Workers,
         \/ RunBegin(w) \/ InitReturns(w) \/ IsStartOKReturns(w)
         \/ TickOrShutdownReturns(w) \/ IsShutdownOKReturns(w) \/ RunEnd(w)
  PROVE  Lifecycle!Next \/ Stage' = Stage
<1> DEFINE s == svc[w]
<1> USE DEF Goto, Staged
<1>1. /\ Fetched(w) \/ Inside(w)
      /\ UNCHANGED svc
      /\ \A v \in Workers : v # w => wpc'[v] = wpc[v]
      /\ \A t \in Services \ {s} : state'[t] = state[t]
      /\ wpc[w] # "idle" /\ s \in Services
  BY DEF RunBegin, InitReturns, IsStartOKReturns, TickOrShutdownReturns,
         IsShutdownOKReturns, RunEnd, Fetched, Inside, Handlers, TypeOK
<1>2. /\ Stage[s] = StageAt(wpc[w], state[s])
      /\ Stage' = [Stage EXCEPT ![s] = StageAt(wpc'[w], state'[s])]
  BY <1>1, StageMoves
<1>3. CASE StageAt(wpc'[w], state'[s]) = Stage[s]
  <2>1. Stage' = Stage
    BY <1>2, <1>3 DEF Stage
  <2> QED BY <2>1
<1>4. CASE RunBegin(w) \/ RunEnd(w)
  <2>1. wpc[w] \notin Staged /\ wpc'[w] \notin Staged /\ state' = state
    BY <1>4 DEF RunBegin, RunEnd, TypeOK
  <2> QED BY <1>2, <1>3, <2>1 DEF StageAt
<1>5. CASE InitReturns(w)
  <2>1. /\ wpc[w] = "Init" /\ wpc'[w] = "ready"
        /\ state'[s] \in {"SS_START_PROCESS", "SS_START_FAIL"}
    BY <1>1, <1>5 DEF InitReturns, PhaseInv, TypeOK
  <2>2. Lifecycle!Move(s, "init", "up") \/ Lifecycle!Move(s, "init", "failed")
    BY <1>2, <2>1 DEF StageAt, Resting, Lifecycle!Move
  <2> QED BY <1>1, <2>2 DEF Lifecycle!Next, Lifecycle!Initialised
<1>6. CASE IsStartOKReturns(w)
  <2>1. /\ wpc[w] = "IsStartOK" /\ wpc'[w] = "ready" /\ state[s] = "SS_START_PROCESS"
        /\ state'[s] \in {"SS_START_PROCESS", "SS_START_OK"}
    BY <1>1, <1>6 DEF IsStartOKReturns, PhaseInv, TypeOK
  <2> QED BY <1>2, <1>3, <2>1 DEF StageAt, Resting
<1>7. CASE TickOrShutdownReturns(w)
  <2>1. /\ wpc'[w] = "ready" /\ state' = state
        /\ \/ wpc[w] = "Tick" /\ state[s] = "SS_RUN"
           \/ wpc[w] = "Shutdown" /\ state[s] = "SS_SHUTDOWN_PROCESS"
    BY <1>1, <1>7 DEF TickOrShutdownReturns, LifeInv, TypeOK
  <2>2. Lifecycle!Move(s, "tick", "up") \/ Lifecycle!Move(s, "stop", "down")
    BY <1>2, <2>1 DEF StageAt, Resting, Lifecycle!Move
  <2> QED BY <1>1, <2>2 DEF Lifecycle!Next, Lifecycle!Ticked, Lifecycle!Stopped
<1>8. CASE IsShutdownOKReturns(w)
  <2>1. /\ wpc[w] = "IsShutdownOK" /\ wpc'[w] = "ready" /\ state[s] = "SS_SHUTDOWN_PROCESS"
        /\ state'[s] \in {"SS_SHUTDOWN_PROCESS", "SS_SHUTDOWN_OK"}
    BY <1>1, <1>8 DEF IsShutdownOKReturns, PhaseInv, TypeOK
  <2> QED BY <1>2, <1>3, <2>1 DEF StageAt, Resting
<1> QED BY <1>4, <1>5, <1>6, <1>7, <1>8

(* Every step is one of the abstract services' lives or a stutter.         *)
LEMMA NextMaps ==
  TypeOK /\ OneRunPerService /\ PhaseInv /\ LifeInv /\ [Next]_vars => [Lifecycle!Next]_Stage
<1> SUFFICES ASSUME TypeOK, OneRunPerService, PhaseInv, LifeInv, [Next]_vars
             PROVE  Lifecycle!Next \/ Stage' = Stage
  OBVIOUS
<1>1. CASE Main
  BY <1>1, MainStutters
<1>2. CASE \E w \in Workers : Worker(w)
  BY <1>2, OutsideStutters, SwitchMaps, ReturnMaps DEF Worker
<1>3. CASE ShutDown \/ (\E s \in Throttled : TimePasses(s)) \/ UNCHANGED vars
  <2>1. UNCHANGED <<state, wpc, svc>>
    BY <1>3 DEF ShutDown, TimePasses, vars, worker
  <2> QED BY <2>1, StageStays DEF In
<1> QED BY <1>1, <1>2, <1>3 DEF Next

(* With any number of services and workers, when no task outlasts Wait:    *)
(* Service::Run's switch on a state that the main thread stores without a  *)
(* lock initialises every service once before any is ticked, shuts each    *)
(* down once while none is ticked, and ticks none when an Init failed.     *)
THEOREM LifecycleImplemented == ASSUME ~WaitMayTimeOut PROVE Spec => ImplementsLifecycle
<1>1. Init => Lifecycle!Init
  BY DEF Init, Lifecycle!Init, Stage, In
<1>2. TypeOK /\ OneRunPerService /\ PhaseInv /\ LifeInv /\ [Next]_vars => [Lifecycle!Next]_Stage
  BY NextMaps
<1> QED
  BY <1>1, <1>2, TypeCorrect, OneRunKept, PhaseKept, LifeKept, PTL
     DEF Spec, ImplementsLifecycle, Lifecycle!Spec
=============================================================================
