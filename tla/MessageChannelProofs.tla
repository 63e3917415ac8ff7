------------------------ MODULE MessageChannelProofs ------------------------
(***************************************************************************)
(* Proofs about MessageChannel, for queues of any room and any number of   *)
(* messages, crashes and restarts: the types, that no message of an        *)
(* earlier run is met, and that the set-up of one service clears nothing   *)
(* the other has sent.                                                     *)
(*                                                                         *)
(* What the two services rely on holds only when both are ready; the       *)
(* invariant says how they get there: whatever is found in the segment, a  *)
(* service clears both queues, as its object has not held the key before,  *)
(* and until the last one has done so nothing is sent.                     *)
(***************************************************************************)
EXTENDS MessageChannel, SequenceTheorems, TLAPS

USE ChannelAssumption

Message == (1 .. MaxRuns) \X (1 .. MaxMsgs)

(* A service in InitMessageQueue, and one that has set up queue q.         *)
SettingUp(u) == step[u] \in {"open", "create", "input", "output"}
Passed(u, q) == step[u] = "ready" \/ (q = "input" /\ step[u] = "output")

(* A process that is there has been started.                               *)
Started == (\E u \in Users : step[u] # "down") => run > 0

(* ESM_RESUME is never chosen.                                             *)
AlwaysCleared ==
  \A u \in Users :
    mode[u] = "ESM_INIT" /\ (step[u] \in {"open", "create"} => ~key[u])

(* Nothing is sent as long as one of the services is setting up.           *)
Unsent == \A u \in Users : SettingUp(u) => sent = None /\ got = None

(* q holds the messages of this run that are still to be received.         *)
Holds(q) ==
  /\ Len(queue[q]) = sent[q] - got[q]
  /\ \A i \in 1 .. Len(queue[q]) : queue[q][i] = <<run, got[q] + i>>

SetUpHolds == \A u \in Users, q \in Queues : Passed(u, q) => Holds(q)

IInv == TypeOK /\ Started /\ AlwaysCleared /\ Unsent /\ SetUpHolds

-----------------------------------------------------------------------------
(* What the invariant says of a server that serves.                        *)
LEMMA ServingHolds ==
  ASSUME SetUpHolds, Serving
  PROVE  \A q \in Queues : Holds(q)
BY DEF SetUpHolds, Serving, Passed, Users

LEMMA InvOnlyThisRun == IInv => OnlyThisRun
<1> SUFFICES ASSUME IInv, Serving, NEW q \in Queues, NEW i \in DOMAIN queue[q]
             PROVE  queue[q][i][1] = run
  BY DEF OnlyThisRun
<1>1. Holds(q)
  BY ServingHolds DEF IInv
<1>2. DOMAIN queue[q] = 1 .. Len(queue[q])
  BY LenProperties DEF IInv, TypeOK
<1> QED BY <1>1, <1>2 DEF Holds

LEMMA InvNothingLost == IInv => NothingLost
<1> SUFFICES ASSUME IInv, Serving, NEW q \in Queues, NEW n \in got[q] + 1 .. sent[q]
             PROVE  \E i \in DOMAIN queue[q] : queue[q][i] = <<run, n>>
  BY DEF NothingLost
<1>1. Holds(q)
  BY ServingHolds DEF IInv
<1>2. got[q] \in Nat /\ sent[q] \in Nat /\ DOMAIN queue[q] = 1 .. Len(queue[q])
  BY LenProperties DEF IInv, TypeOK
<1>3. n - got[q] \in 1 .. Len(queue[q])
  BY <1>1, <1>2 DEF Holds
<1>4. queue[q][n - got[q]] = <<run, got[q] + (n - got[q])>>
  BY <1>1, <1>3 DEF Holds
<1>5. got[q] + (n - got[q]) = n
  BY <1>2
<1> QED BY <1>2, <1>3, <1>4, <1>5

-----------------------------------------------------------------------------
LEMMA BoundsAreNat == MaxRuns \in Nat /\ MaxFaults \in Nat /\ MaxMsgs \in Nat
BY DEF MaxRuns

LEMMA EmptyQueues ==
  /\ Empty \in [Queues -> Seq(Message)]
  /\ \A q \in Queues : Len(Empty[q]) = 0 /\ Len(Empty[q]) =< QueueCap
<1>1. <<>> \in Seq(Message) /\ Len(<<>>) = 0
  OBVIOUS
<1> QED BY <1>1 DEF Empty

LEMMA InitInv == Init => IInv
<1> SUFFICES ASSUME Init PROVE IInv
  OBVIOUS
<1>1. TypeOK
  <2>1. queue \in [Queues -> Seq(Message)] /\ \A q \in Queues : Len(queue[q]) =< QueueCap
    BY EmptyQueues DEF Init
  <2>2. step \in [Users -> {"down", "open", "create", "input", "output", "ready", "stopped"}]
    BY DEF Init, Down
  <2>3. sent \in [Queues -> 0 .. MaxMsgs] /\ got \in [Queues -> Nat]
    BY BoundsAreNat DEF Init, None
  <2>4. run \in 0 .. MaxRuns /\ faults \in 0 .. MaxFaults
    BY BoundsAreNat DEF Init
  <2> QED BY <2>1, <2>2, <2>3, <2>4 DEF Init, TypeOK, Message
<1>2. Started /\ AlwaysCleared /\ Unsent /\ SetUpHolds
  BY DEF Init, Started, AlwaysCleared, Unsent, SetUpHolds, Down, SettingUp, Passed
<1> QED BY <1>1, <1>2 DEF IInv

LEMMA StartInv == IInv /\ Start => IInv'
<1> SUFFICES ASSUME IInv, Start PROVE IInv'
  OBVIOUS
<1>1. TypeOK'
  BY BoundsAreNat DEF IInv, TypeOK, Start, None
<1>2. Started'
  BY BoundsAreNat DEF IInv, TypeOK, Start, Started
<1>3. AlwaysCleared' /\ Unsent' /\ SetUpHolds'
  BY DEF Start, AlwaysCleared, Unsent, SetUpHolds, SettingUp, Passed
<1> QED BY <1>1, <1>2, <1>3 DEF IInv

(* The process ends without touching the segment: a crash, or the second   *)
(* of two creations.                                                       *)
LEMMA EndInv ==
  ASSUME IInv, step' = Down, faults' \in 0 .. MaxFaults,
         UNCHANGED <<exists, queue, key, mode, run, sent, got>>
  PROVE  IInv'
<1>1. TypeOK'
  BY DEF IInv, TypeOK, Down
<1>2. Started' /\ AlwaysCleared' /\ Unsent' /\ SetUpHolds'
  BY DEF IInv, Started, AlwaysCleared, Unsent, SetUpHolds, SettingUp, Passed, Down
<1> QED BY <1>1, <1>2 DEF IInv

LEMMA CrashInv == IInv /\ Crash => IInv'
BY EndInv DEF IInv, TypeOK, Crash

(* The first of two creations, or an opening: what was there is kept or    *)
(* all queues are empty.                                                   *)
LEMMA AttachedInv ==
  ASSUME IInv, NEW u \in Users, step[u] \in {"open", "create"},
         NEW found \in BOOLEAN, Attached(u, found),
         exists' \in BOOLEAN, queue' \in {queue, Empty},
         UNCHANGED <<run, sent, got, faults>>
  PROVE  IInv'
<1>1. mode'[u] = "ESM_INIT" /\ mode' \in [Users -> {"ESM_INIT", "ESM_RESUME"}]
  BY DEF IInv, TypeOK, AlwaysCleared, Attached, Mode
<1>2. queue' \in [Queues -> Seq(Message)] /\ \A q \in Queues : Len(queue'[q]) =< QueueCap
  BY EmptyQueues DEF IInv, TypeOK, Message
<1>3. TypeOK'
  BY <1>1, <1>2 DEF IInv, TypeOK, Attached, Message
<1>4. Started' /\ AlwaysCleared'
  BY <1>1 DEF IInv, TypeOK, Started, AlwaysCleared, Attached, Mode
<1>5. sent = None /\ got = None
  BY DEF IInv, Unsent, SettingUp
<1>6. Unsent'
  BY <1>5 DEF Unsent
<1>7. ASSUME NEW v \in Users, NEW q \in Queues, Passed(v, q)' PROVE Holds(q)'
  <2>1. Passed(v, q)
    BY <1>7 DEF Passed, Attached, IInv, TypeOK
  <2>2. Holds(q)
    BY <2>1 DEF IInv, SetUpHolds
  <2>3. CASE queue' = queue
    BY <2>2, <2>3 DEF Holds
  <2>4. CASE queue' = Empty
    BY <1>5, <2>4, EmptyQueues DEF Holds, None
  <2> QED BY <2>3, <2>4
<1> QED BY <1>3, <1>4, <1>6, <1>7 DEF IInv, SetUpHolds

LEMMA OpenInv == ASSUME NEW u \in Users PROVE IInv /\ OpenShareMem(u) => IInv'
<1> SUFFICES ASSUME IInv, OpenShareMem(u) PROVE IInv'
  OBVIOUS
<1>1. CASE exists
  BY <1>1, AttachedInv DEF OpenShareMem, IInv, TypeOK
<1>2. CASE ~exists
  <2>1. TypeOK'
    BY <1>2 DEF IInv, TypeOK, OpenShareMem
  <2>2. Started' /\ AlwaysCleared' /\ Unsent' /\ SetUpHolds'
    BY <1>2, SMTT(30)
    DEF IInv, TypeOK, Started, AlwaysCleared, Unsent, SetUpHolds, SettingUp, Passed, Holds, OpenShareMem
  <2> QED BY <2>1, <2>2 DEF IInv
<1> QED BY <1>1, <1>2

LEMMA CreateInv == ASSUME NEW u \in Users PROVE IInv /\ CreateShareMem(u) => IInv'
<1> SUFFICES ASSUME IInv, CreateShareMem(u) PROVE IInv'
  OBVIOUS
<1>1. CASE exists
  BY <1>1, EndInv DEF CreateShareMem, IInv, TypeOK
<1>2. CASE ~exists
  BY <1>2, AttachedInv DEF CreateShareMem, IInv, TypeOK
<1> QED BY <1>1, <1>2

-----------------------------------------------------------------------------
(* Msg_Queue::init always clears: nothing that the other service could     *)
(* have sent is there yet.                                                 *)
LEMMA InitQueueInv ==
  ASSUME NEW u \in Users, NEW q \in Queues, NEW next,
         <<q, next>> \in {<<"input", "output">>, <<"output", "ready">>}
  PROVE  IInv /\ InitQueue(u, q, next) => IInv'
<1> SUFFICES ASSUME IInv, InitQueue(u, q, next) PROVE IInv'
  OBVIOUS
<1>1. queue' = [queue EXCEPT ![q] = <<>>] /\ step' = [step EXCEPT ![u] = next]
  BY DEF InitQueue, IInv, AlwaysCleared
<1>2. \/ q = "input" /\ next = "output" /\ step[u] = "input"
      \/ q = "output" /\ next = "ready" /\ step[u] = "output"
  BY DEF InitQueue
<1>3. sent = None /\ got = None
  BY <1>2 DEF IInv, Unsent, SettingUp
<1>4. TypeOK'
  <2>1. queue' \in [Queues -> Seq(Message)] /\ \A p \in Queues : Len(queue'[p]) =< QueueCap
    BY <1>1 DEF IInv, TypeOK, Message
  <2> QED BY <1>1, <1>2, <2>1 DEF IInv, TypeOK, InitQueue, Message
<1>5. Started' /\ AlwaysCleared' /\ Unsent'
  BY <1>1, <1>2, <1>3 DEF IInv, TypeOK, Started, AlwaysCleared, Unsent, InitQueue
<1>6. ASSUME NEW v \in Users, NEW p \in Queues, Passed(v, p)' PROVE Holds(p)'
  <2>1. CASE p = q
    <3>1. Len(queue'[p]) = 0
      BY <1>1, <2>1 DEF IInv, TypeOK
    <3> QED BY <1>3, <3>1 DEF Holds, None, InitQueue
  <2>2. CASE p # q
    <3>1. Passed(v, p)
      BY <1>1, <1>2, <1>6, <2>2 DEF Passed, IInv, TypeOK, Queues
    <3>2. Holds(p) /\ queue'[p] = queue[p]
      BY <1>1, <2>2, <3>1 DEF IInv, SetUpHolds, TypeOK
    <3> QED BY <3>2 DEF Holds, InitQueue
  <2> QED BY <2>1, <2>2
<1> QED BY <1>4, <1>5, <1>6 DEF IInv, SetUpHolds

LEMMA InitMessageQueueInv ==
  ASSUME NEW u \in Users PROVE IInv /\ InitMessageQueue(u) => IInv'
<1>1. "input" \in Queues /\ "output" \in Queues
  BY DEF Queues
<1> QED BY <1>1, OpenInv, CreateInv, InitQueueInv DEF InitMessageQueue

-----------------------------------------------------------------------------
(* Services that are ticked are all ready.                                 *)
LEMMA TickMeansServing ==
  ASSUME IInv, NEW u \in Users, MayTick(u)
  PROVE  /\ Serving /\ run \in 1 .. MaxRuns /\ \A q \in Queues : Holds(q)
         /\ \A v \in Users : ~SettingUp(v)
<1>1. Serving /\ \A v \in Users : ~SettingUp(v)
  BY DEF MayTick, Serving, SettingUp
<1>2. run \in 1 .. MaxRuns
  BY <1>1, BoundsAreNat DEF IInv, TypeOK, Started, Serving, Users
<1> QED BY <1>1, <1>2, ServingHolds DEF IInv

LEMMA SendInv == ASSUME NEW u \in Users PROVE IInv /\ Send(u) => IInv'
<1> SUFFICES ASSUME IInv, Send(u) PROVE IInv'
  OBVIOUS
<1> DEFINE q == SendsTo[u]
           m == <<run, sent[q] + 1>>
<1>1. q \in Queues
  BY DEF SendsTo, Users, Queues
<1>2. run \in 1 .. MaxRuns /\ Holds(q) /\ \A p \in Queues : Holds(p)
  BY <1>1, TickMeansServing DEF Send
<1>3. sent[q] \in Nat /\ got[q] \in Nat /\ sent[q] < MaxMsgs /\ m \in Message
  BY <1>1, <1>2, BoundsAreNat DEF IInv, TypeOK, Send, Message
<1>4. queue[q] \in Seq(Message)
  BY <1>1 DEF IInv, TypeOK, Message
<1>5. queue' = [queue EXCEPT ![q] = Append(@, m)] /\ sent' = [sent EXCEPT ![q] = @ + 1]
  BY DEF Send
<1>6. /\ queue'[q] \in Seq(Message) /\ Len(queue'[q]) = Len(queue[q]) + 1
      /\ \A i \in 1 .. Len(queue[q]) : queue'[q][i] = queue[q][i]
      /\ queue'[q][Len(queue[q]) + 1] = m
  <2>1. queue'[q] = Append(queue[q], m)
    BY <1>1, <1>5 DEF IInv, TypeOK
  <2> QED BY <1>3, <1>4, <2>1, AppendProperties
<1>7. TypeOK'
  <2>1. Len(queue'[q]) =< QueueCap
    BY <1>4, <1>6 DEF Send, HasRoom
  <2>2. queue' \in [Queues -> Seq(Message)] /\ \A p \in Queues : Len(queue'[p]) =< QueueCap
    BY <1>1, <1>5, <1>6, <2>1 DEF IInv, TypeOK, Message
  <2>3. sent' \in [Queues -> 0 .. MaxMsgs]
    BY <1>1, <1>3, <1>5, BoundsAreNat, SMTT(30) DEF IInv, TypeOK
  <2> QED BY <2>2, <2>3 DEF IInv, TypeOK, Send, Message
<1>8. Started' /\ AlwaysCleared' /\ Unsent'
  BY TickMeansServing DEF IInv, Started, AlwaysCleared, Unsent, SettingUp, Send
<1>9. ASSUME NEW p \in Queues PROVE Holds(p)'
  <2>1. CASE p = q
    <3>1. Len(queue'[p]) = sent'[p] - got'[p]
      BY <1>1, <1>2, <1>3, <1>5, <1>6, <2>1, SMTT(30) DEF Holds, Send, IInv, TypeOK
    <3>2. ASSUME NEW i \in 1 .. Len(queue'[p]) PROVE queue'[p][i] = <<run', got'[p] + i>>
      <4>1. CASE i \in 1 .. Len(queue[q])
        BY <1>2, <1>6, <2>1, <4>1 DEF Holds, Send
      <4>2. CASE i \notin 1 .. Len(queue[q])
        <5>1. i = Len(queue[q]) + 1
          BY <1>4, <1>6, <2>1, <3>2, <4>2, LenProperties
        <5>2. got[q] + i = sent[q] + 1
          BY <1>2, <1>3, <5>1 DEF Holds
        <5> QED BY <1>6, <2>1, <5>1, <5>2 DEF Send
      <4> QED BY <4>1, <4>2
    <3> QED BY <3>1, <3>2 DEF Holds
  <2>2. CASE p # q
    <3>1. queue'[p] = queue[p] /\ sent'[p] = sent[p]
      BY <1>1, <1>5, <2>2 DEF IInv, TypeOK
    <3> QED BY <1>2, <3>1 DEF Holds, Send
  <2> QED BY <2>1, <2>2
<1> QED BY <1>7, <1>8, <1>9 DEF IInv, SetUpHolds

LEMMA ReceiveInv == ASSUME NEW u \in Users PROVE IInv /\ Receive(u) => IInv'
<1> SUFFICES ASSUME IInv, Receive(u) PROVE IInv'
  OBVIOUS
<1> DEFINE q == ReceivesFrom[u]
<1>1. q \in Queues
  BY DEF ReceivesFrom, Users, Queues
<1>2. Holds(q) /\ \A p \in Queues : Holds(p)
  BY <1>1, TickMeansServing DEF Receive
<1>3. sent[q] \in Nat /\ got[q] \in Nat /\ queue[q] \in Seq(Message) /\ queue[q] # <<>>
  BY <1>1, BoundsAreNat DEF IInv, TypeOK, Receive, Message
<1>4. queue' = [queue EXCEPT ![q] = Tail(@)] /\ got' = [got EXCEPT ![q] = @ + 1]
  BY DEF Receive
<1>5. /\ queue'[q] \in Seq(Message) /\ Len(queue'[q]) = Len(queue[q]) - 1
      /\ \A i \in 1 .. Len(queue'[q]) : queue'[q][i] = queue[q][i + 1]
  BY <1>1, <1>3, <1>4, HeadTailProperties DEF IInv, TypeOK
<1>6. TypeOK'
  <2>1. queue' \in [Queues -> Seq(Message)] /\ \A p \in Queues : Len(queue'[p]) =< QueueCap
    BY <1>1, <1>3, <1>4, <1>5, LenProperties, SMTT(30) DEF IInv, TypeOK, Message
  <2>2. got' \in [Queues -> Nat]
    BY <1>1, <1>3, <1>4 DEF IInv, TypeOK
  <2> QED BY <2>1, <2>2 DEF IInv, TypeOK, Receive, Message
<1>7. Started' /\ AlwaysCleared' /\ Unsent'
  BY TickMeansServing DEF IInv, Started, AlwaysCleared, Unsent, SettingUp, Receive
<1>8. ASSUME NEW p \in Queues PROVE Holds(p)'
  <2>1. CASE p = q
    <3>1. Len(queue'[p]) = sent'[p] - got'[p]
      BY <1>1, <1>2, <1>3, <1>4, <1>5, <2>1 DEF Holds, Receive, IInv, TypeOK
    <3>2. ASSUME NEW i \in 1 .. Len(queue'[p]) PROVE queue'[p][i] = <<run', got'[p] + i>>
      <4>1. i + 1 \in 1 .. Len(queue[q])
        BY <1>3, <1>5, <2>1, <3>2, LenProperties
      <4>2. queue'[p][i] = <<run, got[q] + (i + 1)>>
        BY <1>2, <1>5, <2>1, <3>2, <4>1 DEF Holds
      <4>3. got'[p] + i = got[q] + (i + 1)
        BY <1>1, <1>3, <1>4, <2>1, <4>1 DEF IInv, TypeOK
      <4> QED BY <4>2, <4>3 DEF Receive
    <3> QED BY <3>1, <3>2 DEF Holds
  <2>2. CASE p # q
    <3>1. queue'[p] = queue[p] /\ got'[p] = got[p]
      BY <1>1, <1>4, <2>2 DEF IInv, TypeOK
    <3> QED BY <1>2, <3>1 DEF Holds, Receive
  <2> QED BY <2>1, <2>2
<1> QED BY <1>6, <1>7, <1>8 DEF IInv, SetUpHolds

-----------------------------------------------------------------------------
LEMMA RunReturnsInv == IInv /\ RunReturns => IInv'
<1> SUFFICES ASSUME IInv, RunReturns PROVE IInv'
  OBVIOUS
<1>1. TypeOK'
  BY BoundsAreNat DEF IInv, TypeOK, RunReturns
<1>2. Started' /\ AlwaysCleared' /\ Unsent' /\ SetUpHolds'
  BY DEF IInv, Started, AlwaysCleared, Unsent, SetUpHolds, SettingUp, Passed, RunReturns, Users
<1> QED BY <1>1, <1>2 DEF IInv

(* A service is deleted when the other has stopped or is gone.             *)
StopsTogether ==
  \A u, v \in Users : step[u] = "stopped" => step[v] \in {"stopped", "down"}

LEMMA DetachInv ==
  ASSUME NEW u \in Users PROVE IInv /\ StopsTogether /\ Detach(u) => IInv'
<1> SUFFICES ASSUME IInv, StopsTogether, Detach(u) PROVE IInv'
  OBVIOUS
<1>1. TypeOK'
  BY EmptyQueues DEF IInv, TypeOK, Detach, Message
<1>2. Started' /\ AlwaysCleared' /\ Unsent'
  BY DEF IInv, TypeOK, Started, AlwaysCleared, Unsent, SettingUp, Detach
<1>3. SetUpHolds'
  BY DEF IInv, TypeOK, StopsTogether, SetUpHolds, Passed, Detach
<1> QED BY <1>1, <1>2, <1>3 DEF IInv

LEMMA StopsTogetherKept == IInv /\ StopsTogether /\ [Next]_vars => StopsTogether'
<1> SUFFICES ASSUME IInv, StopsTogether, [Next]_vars PROVE StopsTogether'
  OBVIOUS
<1>1. CASE Start \/ Crash \/ RunReturns
  BY <1>1 DEF StopsTogether, Start, Crash, RunReturns, Down
<1>2. ASSUME NEW u \in Users, InitMessageQueue(u) PROVE StopsTogether'
  BY <1>2 DEF StopsTogether, IInv, TypeOK, InitMessageQueue, OpenShareMem, CreateShareMem, InitQueue, Attached, Down
<1>3. ASSUME NEW u \in Users, Send(u) \/ Receive(u) PROVE StopsTogether'
  BY <1>3 DEF StopsTogether, Send, Receive
<1>4. ASSUME NEW u \in Users, Detach(u) PROVE StopsTogether'
  BY <1>4 DEF StopsTogether, IInv, TypeOK, Detach
<1>5. CASE UNCHANGED vars
  BY <1>5 DEF StopsTogether, vars
<1> QED BY <1>1, <1>2, <1>3, <1>4, <1>5 DEF Next

LEMMA NextInv == IInv /\ StopsTogether /\ [Next]_vars => IInv'
<1> SUFFICES ASSUME IInv, StopsTogether, [Next]_vars PROVE IInv'
  OBVIOUS
<1>1. CASE UNCHANGED vars
  BY <1>1 DEF vars, IInv, TypeOK, Started, AlwaysCleared, Unsent, SetUpHolds, SettingUp, Passed, Holds
<1> QED BY <1>1, StartInv, CrashInv, RunReturnsInv, InitMessageQueueInv, SendInv, ReceiveInv, DetachInv DEF Next

LEMMA InvKept == Spec => [](IInv /\ StopsTogether)
<1>1. Init => StopsTogether
  BY DEF Init, StopsTogether, Down
<1> QED BY <1>1, InitInv, NextInv, StopsTogetherKept, PTL DEF Spec

(* The types are kept, and no queue exceeds its room, in a channel of any  *)
(* room, over any number of runs.                                          *)
THEOREM TypeCorrect == Spec => []TypeOK
<1>1. IInv => TypeOK
  BY DEF IInv
<1> QED BY <1>1, InvKept, PTL

(* However often the process crashes or ends and finds its segment again,  *)
(* attach_share_memory and init leave no message of an earlier run to a    *)
(* service that is ticked.                                                 *)
THEOREM OnlyThisRunKept == Spec => []OnlyThisRun
BY InvKept, InvOnlyThisRun, PTL

(* However the two services interleave their InitMessageQueue, no message  *)
(* of this run is cleared before it is received.                           *)
THEOREM NothingLostKept == Spec => []NothingLost
BY InvKept, InvNothingLost, PTL

=============================================================================
