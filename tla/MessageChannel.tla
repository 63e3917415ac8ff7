--------------------------- MODULE MessageChannel ---------------------------
(***************************************************************************)
(* A channel in shared memory, from the Init of the two services that name *)
(* its key, through crashes, to the end of the process.                    *)
(*                                                                         *)
(* NetService and HttpManagerService attach the key of channel 200 in      *)
(* their Init, on two workers at once: each opens the segment or creates   *)
(* it, and then initialises the input queue and the output queue.  The     *)
(* service manager ticks them only when both are done (ServiceLifecycle),  *)
(* and then the one sends what the other receives.  A segment outlives the *)
(* process unless the channels' destructors have removed it, so the next   *)
(* process finds it with what the last one left in the queues.             *)
(*                                                                         *)
(* A message is the run that sent it, a run being a life of the process,   *)
(* and its number in the run: uids start at 1 again in each run, and the   *)
(* reply to an earlier run's login would be given to a stranger.           *)
(*                                                                         *)
(* X_How is X with a plausible mistake in it, to try the properties on.    *)
(***************************************************************************)
EXTENDS Integers, Sequences

CONSTANTS
  QueueCap,   (* messages a queue has room for                             *)
  MaxMsgs,    (* bound on the messages a service sends in a run            *)
  MaxFaults   (* bound on crashes and clean ends                           *)

ASSUME ChannelAssumption ==
  QueueCap \in Nat \ {0} /\ MaxMsgs \in Nat /\ MaxFaults \in Nat

Users  == {"net", "manager"}
Queues == {"input", "output"}
SendsTo      == [net |-> "output", manager |-> "input"]
ReceivesFrom == [net |-> "input", manager |-> "output"]

(* A start on a free key may die and be repeated on the segment it left.   *)
MaxRuns == 2 * (MaxFaults + 1)

VARIABLES
  exists,   (* the key has a segment                                       *)
  queue,    (* the two queues in it                                        *)
  step,     (* how far each service is in InitMessageQueue, or beyond      *)
  key,      (* whether its Share_Memory holds the key, m_uiKey             *)
  mode,     (* its m_enmMode                                               *)
  run,      (* history: the life of the process                            *)
  sent,     (* history: messages of this run sent to each queue            *)
  got,      (* history: messages received from each queue in this run      *)
  faults    (* crashes and clean ends so far                               *)

vars == <<exists, queue, step, key, mode, run, sent, got, faults>>

Down == [u \in Users |-> "down"]
None == [q \in Queues |-> 0]
Empty == [q \in Queues |-> <<>>]

Init ==
  /\ exists = FALSE /\ queue = Empty
  /\ step = Down
  /\ key = [u \in Users |-> FALSE] /\ mode = [u \in Users |-> "ESM_INIT"]
  /\ run = 0 /\ sent = None /\ got = None
  /\ faults = 0

-----------------------------------------------------------------------------
(* A process: its objects are new.                                         *)

Start ==
  /\ step = Down
  /\ run < MaxRuns
  /\ run' = run + 1
  /\ step' = [u \in Users |-> "open"]
  /\ key' = [u \in Users |-> FALSE] /\ mode' = [u \in Users |-> "ESM_INIT"]
  /\ sent' = None /\ got' = None
  /\ UNCHANGED <<exists, queue, faults>>

Crash ==
  /\ step # Down
  /\ faults < MaxFaults
  /\ faults' = faults + 1
  /\ step' = Down
  /\ UNCHANGED <<exists, queue, key, mode, run, sent, got>>

-----------------------------------------------------------------------------
(* attach_share_memory.                                                    *)

(* Faulty: what was found is resumed whoever attached it.                  *)
Mode_KeyIgnored(u, found) == IF found THEN "ESM_RESUME" ELSE "ESM_INIT"

(* Resume what was found, if this very object has attached it before.      *)
Mode(u, found) == IF found /\ key[u] THEN "ESM_RESUME" ELSE "ESM_INIT"

Attached(u, found) ==
  /\ mode' = [mode EXCEPT ![u] = Mode(u, found)]
  /\ key' = [key EXCEPT ![u] = TRUE]
  /\ step' = [step EXCEPT ![u] = "input"]

(* Faulty: it is created first.                                            *)
OpenShareMem_CreateFirst(u) ==
  /\ step[u] = "open"
  /\ step' = [step EXCEPT ![u] = "create"] /\ UNCHANGED <<key, mode>>
  /\ UNCHANGED <<exists, queue, run, sent, got, faults>>

OpenShareMem(u) ==
  /\ step[u] = "open"
  /\ IF exists
     THEN Attached(u, TRUE)
     ELSE step' = [step EXCEPT ![u] = "create"] /\ UNCHANGED <<key, mode>>
  /\ UNCHANGED <<exists, queue, run, sent, got, faults>>

(* The other service may have created it since: IPC_EXCL fails, and so     *)
(* does attach, but InitMessageQueue goes on and init writes to a null     *)
(* pointer, which ends the process.                                        *)
CreateShareMem(u) ==
  /\ step[u] = "create"
  /\ IF exists
     THEN step' = Down /\ UNCHANGED <<exists, queue, key, mode>>
     ELSE exists' = TRUE /\ queue' = Empty /\ Attached(u, FALSE)
  /\ UNCHANGED <<run, sent, got, faults>>

(* Msg_Queue::init; its size checks agree, as the sizes are constants.     *)
InitQueue(u, q, next) ==
  /\ step[u] = q
  /\ queue' = IF mode[u] = "ESM_INIT" THEN [queue EXCEPT ![q] = <<>>] ELSE queue
  /\ step' = [step EXCEPT ![u] = next]
  /\ UNCHANGED <<exists, key, mode, run, sent, got, faults>>

InitMessageQueue(u) ==
  \/ OpenShareMem(u) \/ CreateShareMem(u)
  \/ InitQueue(u, "input", "output") \/ InitQueue(u, "output", "ready")

-----------------------------------------------------------------------------
(* Messages.                                                               *)

(* Faulty: the sender's own Init is enough.                                *)
MayTick_Alone(u) == step[u] = "ready"

(* No service is ticked before all have been initialised.                  *)
MayTick(u) == \A v \in Users : step[v] = "ready"

(* Faulty: the room in the queue is not looked at.                         *)
HasRoom_Always(q) == TRUE

HasRoom(q) == Len(queue[q]) < QueueCap

Send(u) ==
  LET q == SendsTo[u] IN
  /\ MayTick(u) /\ HasRoom(q)
  /\ sent[q] < MaxMsgs
  /\ sent' = [sent EXCEPT ![q] = @ + 1]
  /\ queue' = [queue EXCEPT ![q] = Append(@, <<run, sent[q] + 1>>)]
  /\ UNCHANGED <<exists, step, key, mode, run, got, faults>>

Receive(u) ==
  LET q == ReceivesFrom[u] IN
  /\ MayTick(u) /\ queue[q] # <<>>
  /\ queue' = [queue EXCEPT ![q] = Tail(@)]
  /\ got' = [got EXCEPT ![q] = @ + 1]
  /\ UNCHANGED <<exists, step, key, mode, run, sent, faults>>

-----------------------------------------------------------------------------
(* The clean end as main is written: Run returns, NetService is deleted    *)
(* and then the manager; each destructor removes the segment if it is      *)
(* still there.  (ServiceManager's ShutdownCompletes is about Run.)        *)

RunReturns ==
  /\ \A u \in Users : step[u] = "ready"
  /\ faults < MaxFaults
  /\ faults' = faults + 1
  /\ step' = [u \in Users |-> "stopped"]
  /\ UNCHANGED <<exists, queue, key, mode, run, sent, got>>

Detach(u) ==
  /\ step[u] = "stopped"
  /\ u = "manager" => step["net"] = "down"
  /\ step' = [step EXCEPT ![u] = "down"]
  /\ exists' = FALSE /\ queue' = Empty
  /\ UNCHANGED <<key, mode, run, sent, got, faults>>

Next ==
  \/ Start \/ Crash \/ RunReturns
  \/ \E u \in Users : InitMessageQueue(u) \/ Send(u) \/ Receive(u) \/ Detach(u)

Spec == Init /\ [][Next]_vars

(* The threads run, and somebody starts the server again when it has gone. *)
FairSpec ==
  /\ Spec
  /\ WF_vars(Start)
  /\ \A u \in Users : WF_vars(InitMessageQueue(u)) /\ WF_vars(Detach(u))

-----------------------------------------------------------------------------
(* Properties.                                                             *)

(* The segment, the set-up and the counters stay in their types; a queue   *)
(* never holds more than it has room for.                                  *)
TypeOK ==
  /\ exists \in BOOLEAN
  /\ queue \in [Queues -> Seq((1 .. MaxRuns) \X (1 .. MaxMsgs))]
  /\ \A q \in Queues : Len(queue[q]) =< QueueCap
  /\ step \in [Users -> {"down", "open", "create", "input", "output", "ready", "stopped"}]
  /\ key \in [Users -> BOOLEAN] /\ mode \in [Users -> {"ESM_INIT", "ESM_RESUME"}]
  /\ run \in 0 .. MaxRuns /\ faults \in 0 .. MaxFaults
  /\ sent \in [Queues -> 0 .. MaxMsgs] /\ got \in [Queues -> Nat]

Serving == \A u \in Users : step[u] = "ready"

(* What a service finds in a queue was sent in this run, although the      *)
(* segment of a crashed run keeps its messages and both services find it:  *)
(* no login and no reply of an earlier run is ever handled.                *)
OnlyThisRun ==
  Serving => \A q \in Queues : \A i \in DOMAIN queue[q] : queue[q][i][1] = run

(* Neither service's set-up clears what the other has sent: a message of   *)
(* this run stays in its queue until it is received.                       *)
NothingLost ==
  Serving => \A q \in Queues :
    \A n \in got[q] + 1 .. sent[q] : \E i \in DOMAIN queue[q] : queue[q][i] = <<run, n>>

(* A start on a key without a segment dies when the two services both try  *)
(* to create it; but started again and again the server comes to serve,    *)
(* whatever crashes and clean ends came before.                            *)
ServesInTheEnd == <>[]Serving

=============================================================================
