--------------------------- MODULE LoginFlowProofs --------------------------
(***************************************************************************)
(* Proofs about LoginFlow, for any number of connections, users and        *)
(* HttpServices and any queue and buffer sizes.                            *)
(*                                                                         *)
(* The types, and that the users and the connections in use stay each      *)
(* other's inverse: neither is inductive alone, as a request carries the   *)
(* uid of a connection in use and a new user takes a uid nobody has.       *)
(*                                                                         *)
(* That the services implement LoginService: a login under way is one      *)
(* place in one queue or in one service's hands, and each step adds one,   *)
(* takes one away, or moves one.  That none is lost while there are no     *)
(* more than services and room: by counting those places, a queue that     *)
(* were full, or a service taken for busy while all are, would be one      *)
(* login too many.                                                         *)
(***************************************************************************)
EXTENDS LoginFlow, FiniteSetTheorems, FunctionTheorems, TLAPS

USE LoginAssumption

(* append and pop keep a queue a queue.                                    *)
LEMMA AppendedQueue ==
  ASSUME NEW q \in Queue, NEW m \in Msg
  PROVE  Appended(q, m) \in Queue
BY DEF Queue, Appended, CanAppend

LEMMA PoppedQueue ==
  ASSUME NEW q \in Queue, NEW buf, CanPop(q, buf)
  PROVE  Head(q) \in Msg /\ Tail(q) \in Queue
BY DEF Queue, CanPop

(* What a message is made of.                                              *)
LEMMA MsgFields ==
  ASSUME NEW m \in Msg
  PROVE  m.uid \in Uids /\ m.len \in Nat
<1>1. m.uid \in Uids /\ m.len \in ReqLens \cup RetLens
  BY DEF Msg
<1>2. \A n \in 1 .. BufSize : n \in Nat
  OBVIOUS
<1> QED BY <1>1, <1>2

(* A full queue is one of the two ways a login is lost.                    *)
LEMMA Overflows == \A q : Overflow(q) \subseteq {"full", "busy"}
BY DEF Overflow

(* A connection in use has been given a uid, and no uid that is still to   *)
(* be given out has a user.                                                *)
UidsGivenOut ==
  /\ \A c \in Conns : status[c] # "UNUSED" => uidOf[c] \in Uids
  /\ \A u \in Uids : u >= nextUid => online[u] = Nobody

(* An HttpService that asks the web server does so for somebody.           *)
Verifying == \A h \in Pool : http[h].at = "verify" => http[h].req \in Uids

IInv == TypeOK /\ OnlineIsConnected /\ UidsGivenOut /\ Verifying

(* The invariant holds when the server starts.                             *)
LEMMA InitInv == Init => IInv
<1> SUFFICES ASSUME Init PROVE IInv
  OBVIOUS
<1>1. <<>> \in Queue
  BY DEF Queue
<1>2. TypeOK
  BY <1>1 DEF Init, TypeOK, Idle, Nothing, Pool, Uids, Conns, Nobody
<1>3. OnlineIsConnected /\ UidsGivenOut /\ Verifying
  BY DEF Init, OnlineIsConnected, UidsGivenOut, Verifying, Conns, Uids, Nobody
<1> QED BY <1>2, <1>3 DEF IInv

(* OnDisConnect's changes, also made when sending an answer fails.         *)
LEMMA DroppedInv ==
  ASSUME IInv, NEW c \in Conns, status[c] # "UNUSED", Dropped(c)
  PROVE  /\ OnlineIsConnected' /\ UidsGivenOut'
         /\ status' \in [Conns -> {"UNUSED", "CONNECTED", "VERIFYING"}]
         /\ uidOf' \in [Conns -> Uids \cup {Nobody}]
         /\ online' \in [Uids -> Conns \cup {Nobody}]
         /\ nextUid' \in 1 .. MaxUid + 1
<1>1. uidOf[c] \in Uids /\ online[uidOf[c]] = c
  BY DEF IInv, UidsGivenOut, OnlineIsConnected
<1>2. /\ status' \in [Conns -> {"UNUSED", "CONNECTED", "VERIFYING"}]
      /\ uidOf' \in [Conns -> Uids \cup {Nobody}]
      /\ online' \in [Uids -> Conns \cup {Nobody}]
      /\ nextUid' \in 1 .. MaxUid + 1
  BY <1>1 DEF IInv, TypeOK, Dropped
<1>3. OnlineIsConnected'
  BY <1>1 DEF IInv, TypeOK, Dropped, OnlineIsConnected, Conns, Uids, Nobody
<1>4. UidsGivenOut'
  BY <1>1 DEF IInv, TypeOK, Dropped, UidsGivenOut
<1> QED BY <1>2, <1>3, <1>4

(* A step that leaves the connections alone leaves the users in order.     *)
LEMMA SameConns ==
  ASSUME IInv, UNCHANGED conns
  PROVE  OnlineIsConnected' /\ UidsGivenOut'
BY DEF IInv, conns, OnlineIsConnected, UidsGivenOut

(* A step of another service leaves the HttpServices' requests alone.      *)
LEMMA SameHttp ==
  ASSUME IInv, UNCHANGED http
  PROVE  Verifying'
BY DEF IInv, Verifying

(* NetService: connections come and go, logins are sent on, replies end.   *)
LEMMA NetServiceInv ==
  ASSUME IInv, NetService
  PROVE  IInv'
<1> USE DEF Nothing, Nobody, Idle
<1>0. Verifying'
  BY SameHttp DEF NetService, OnNewConnec, OnDisConnect, HandlePacketUserLogin, TickHttpMsg,
                  HandleMsgUserLoginRet, NetTickEnds
<1>1. CASE OnNewConnec
  <2>1. PICK c \in Conns :
          /\ nextUid =< MaxUid /\ status[c] = "UNUSED"
          /\ status' = [status EXCEPT ![c] = "CONNECTED"]
          /\ uidOf' = [uidOf EXCEPT ![c] = nextUid]
          /\ online' = [online EXCEPT ![nextUid] = c]
          /\ nextUid' = nextUid + 1
    BY <1>1 DEF OnNewConnec, IdleConns, First
  <2>2. nextUid \in Uids /\ online[nextUid] = Nobody
    BY <2>1 DEF IInv, TypeOK, UidsGivenOut, Uids
  <2>3. TypeOK'
    BY <1>1, <2>1, <2>2 DEF IInv, TypeOK, OnNewConnec, queues, Uids
  <2>4. OnlineIsConnected'
    BY <2>1, <2>2 DEF IInv, TypeOK, OnlineIsConnected, UidsGivenOut, Conns, Uids
  <2>5. UidsGivenOut'
    BY <2>1, <2>2 DEF IInv, TypeOK, UidsGivenOut, Uids
  <2> QED BY <1>0, <2>3, <2>4, <2>5 DEF IInv
<1>2. ASSUME NEW c \in Conns, OnDisConnect(c)
      PROVE  IInv'
  <2>1. status[c] # "UNUSED" /\ Dropped(c)
    BY <1>2 DEF OnDisConnect
  <2>2. TypeOK'
    BY <1>2, <2>1, DroppedInv DEF IInv, TypeOK, OnDisConnect, queues
  <2> QED BY <1>0, <2>1, <2>2, DroppedInv DEF IInv
<1>3. ASSUME NEW c \in Conns, NEW len \in ReqLens, HandlePacketUserLogin(c, len)
      PROVE  IInv'
  <2>1. uidOf[c] \in Uids
    BY <1>3 DEF HandlePacketUserLogin, IInv, UidsGivenOut
  <2>2. [uid |-> uidOf[c], len |-> len] \in Msg
    BY <2>1 DEF Msg
  <2>3. toHttp' \in Queue
    BY <1>3, <2>2, AppendedQueue DEF HandlePacketUserLogin, IInv, TypeOK
  <2>4. TypeOK'
    BY <1>3, <2>1, <2>3, Overflows DEF HandlePacketUserLogin, IInv, TypeOK, Asked
  <2>5. OnlineIsConnected' /\ UidsGivenOut'
    BY <1>3 DEF HandlePacketUserLogin, IInv, TypeOK, OnlineIsConnected, UidsGivenOut
  <2> QED BY <1>0, <2>4, <2>5 DEF IInv
<1>4. CASE TickHttpMsg
  <2>1. TypeOK'
    BY <1>4 DEF TickHttpMsg, IInv, TypeOK, conns, queues
  <2> QED BY <1>0, <1>4, <2>1, SameConns DEF TickHttpMsg, IInv
<1>5. CASE HandleMsgUserLoginRet
  <2> DEFINE u == Head(fromHttp).uid
  <2>1. u \in Uids /\ Head(fromHttp).len \in Nat /\ fromHttp' \in Queue
    BY <1>5, PoppedQueue, MsgFields DEF HandleMsgUserLoginRet, IInv, TypeOK
  <2>2. /\ OnlineIsConnected' /\ UidsGivenOut'
        /\ status' \in [Conns -> {"UNUSED", "CONNECTED", "VERIFYING"}]
        /\ uidOf' \in [Conns -> Uids \cup {Nobody}]
        /\ online' \in [Uids -> Conns \cup {Nobody}]
        /\ nextUid' \in 1 .. MaxUid + 1
    <3>1. CASE UNCHANGED conns
      BY <3>1, SameConns DEF IInv, TypeOK, conns
    <3>2. CASE online[u] # Nobody /\ Dropped(online[u])
      <4>1. online[u] \in Conns /\ status[online[u]] # "UNUSED"
        BY <2>1, <3>2 DEF IInv, TypeOK, OnlineIsConnected
      <4> QED BY <3>2, <4>1, DroppedInv
    <3> QED BY <1>5, <3>1, <3>2 DEF HandleMsgUserLoginRet
  <2>3. net' \in [at : {"idle", "replies"}, buf : Nat]
    BY <1>5, <2>1 DEF HandleMsgUserLoginRet, IInv, TypeOK
  <2>4. TypeOK'
    BY <1>5, <2>1, <2>2, <2>3 DEF HandleMsgUserLoginRet, IInv, TypeOK, Answered
  <2> QED BY <1>0, <2>2, <2>4 DEF IInv
<1>6. CASE NetTickEnds
  <2>1. TypeOK'
    BY <1>6 DEF NetTickEnds, IInv, TypeOK, conns, queues
  <2> QED BY <1>0, <1>6, <2>1, SameConns DEF NetTickEnds, IInv
<1> QED BY <1>1, <1>2, <1>3, <1>4, <1>5, <1>6 DEF NetService

(* HttpManagerService moves messages and marks services.                   *)
LEMMA ManagerInv ==
  ASSUME IInv, Manager
  PROVE  IInv'
<1> USE DEF Nothing, Nobody
<1>0. UNCHANGED conns /\ Verifying'
  BY SameHttp DEF Manager, ManagerTick, DispatchRequest, RequestsEnd, ForwardReply
<1>1. CASE ManagerTick
  <2>1. mgr' \in [at : {"idle", "requests", "replies"}, buf : Nat, i : Pool]
    BY <1>1 DEF ManagerTick, Pool
  <2> QED BY <1>0, <1>1, <2>1, SameConns DEF ManagerTick, IInv, TypeOK, conns, queues
<1>2. CASE DispatchRequest
  <2> DEFINE m == Head(toHttp)
  <2>1. m \in Msg /\ m.len \in Nat /\ toHttp' \in Queue
    BY <1>2, PoppedQueue, MsgFields DEF DispatchRequest, IInv, TypeOK
  <2>2. mgr' \in [at : {"idle", "requests", "replies"}, buf : Nat, i : Pool]
    BY <1>2, <2>1 DEF DispatchRequest, IInv, TypeOK
  <2>3. /\ out' \in [Pool -> Queue] /\ free' \in [Pool -> BOOLEAN]
        /\ lost' \subseteq {"full", "busy"}
    <3>1. CASE FreeHttps = {} /\ lost' = lost \cup {"busy"} /\ UNCHANGED <<out, free>>
      BY <3>1 DEF IInv, TypeOK
    <3>2. ASSUME NEW h \in First(FreeHttps),
                 out' = [out EXCEPT ![h] = Appended(@, m)],
                 free' = [free EXCEPT ![h] = FALSE],
                 lost' = lost \cup Overflow(out[h])
          PROVE  <2>3
      <4>1. h \in Pool
        BY DEF First, FreeHttps
      <4>2. Appended(out[h], m) \in Queue
        BY <2>1, <4>1, AppendedQueue DEF IInv, TypeOK
      <4> QED BY <3>2, <4>1, <4>2, Overflows DEF IInv, TypeOK
    <3> QED BY <1>2, <3>1, <3>2 DEF DispatchRequest
  <2>4. TypeOK'
    BY <1>0, <1>2, <2>1, <2>2, <2>3 DEF DispatchRequest, IInv, TypeOK, conns
  <2> QED BY <1>0, <2>4, SameConns DEF IInv
<1>3. CASE RequestsEnd
  <2>1. mgr' \in [at : {"idle", "requests", "replies"}, buf : Nat, i : Pool]
    BY <1>3 DEF RequestsEnd, IInv, TypeOK
  <2> QED BY <1>0, <1>3, <2>1, SameConns DEF RequestsEnd, IInv, TypeOK, conns, queues
<1>4. CASE ForwardReply
  <2> DEFINE h == mgr.i
  <2>0. UNCHANGED <<toHttp, out, net, http>> /\ seen' = Nothing
    BY <1>4 DEF ForwardReply
  <2>1. h \in Pool /\ in[h] \in Queue
    BY DEF IInv, TypeOK
  <2>2. free' \in [Pool -> BOOLEAN]
    BY <1>4, <2>1 DEF ForwardReply, IInv, TypeOK
  <2>3. CASE CanPop(in[h], mgr.buf)
    <3>1. /\ Head(in[h]) \in Msg /\ Head(in[h]).len \in Nat
          /\ Tail(in[h]) \in Queue
      BY <2>1, <2>3, PoppedQueue, MsgFields
    <3>2. fromHttp' \in Queue
      BY <1>4, <2>3, <3>1, AppendedQueue DEF ForwardReply, IInv, TypeOK
    <3>3. mgr' \in [at : {"idle", "requests", "replies"}, buf : Nat, i : Pool]
      BY <1>4, <2>3, <3>1 DEF ForwardReply, IInv, TypeOK
    <3>4. in' \in [Pool -> Queue] /\ lost' \subseteq {"full", "busy"}
      <4>1. in' = [in EXCEPT ![h] = Tail(@)] /\ lost' = lost \cup Overflow(fromHttp)
        BY <1>4, <2>3 DEF ForwardReply
      <4>2. in \in [Pool -> Queue] /\ lost \subseteq {"full", "busy"}
        BY DEF IInv, TypeOK
      <4> QED BY <2>1, <3>1, <4>1, <4>2, Overflows
    <3>5. TypeOK'
      BY <1>0, <2>0, <2>2, <3>2, <3>3, <3>4 DEF IInv, TypeOK, conns
    <3> QED BY <1>0, <3>5, SameConns DEF IInv
  <2>4. CASE ~CanPop(in[h], mgr.buf)
    <3>1. mgr' \in [at : {"idle", "requests", "replies"}, buf : Nat, i : Pool]
      <4>1. mgr' = NextHttp(mgr)
        BY <1>4, <2>4 DEF ForwardReply
      <4>2. mgr \in [at : {"idle", "requests", "replies"}, buf : Nat, i : Pool]
        BY DEF IInv, TypeOK
      <4>3. 1 \in Pool /\ (h < Https => h + 1 \in Pool)
        BY <2>1 DEF Pool
      <4> QED BY <4>1, <4>2, <4>3 DEF NextHttp
    <3>2. UNCHANGED <<in, fromHttp, lost>>
      BY <1>4, <2>4 DEF ForwardReply
    <3>3. TypeOK'
      BY <1>0, <2>0, <2>2, <3>1, <3>2 DEF IInv, TypeOK, conns
    <3> QED BY <1>0, <3>3, SameConns DEF IInv
  <2> QED BY <2>3, <2>4
<1> QED BY <1>1, <1>2, <1>3, <1>4 DEF Manager

(* An HttpService handles requests one at a time.                          *)
LEMMA HttpServiceInv ==
  ASSUME IInv, NEW h \in Pool, HttpService(h)
  PROVE  IInv'
<1> USE DEF Nothing, Nobody
<1> DEFINE Ticks == [Pool -> [at : {"idle", "pop", "verify"}, buf : Nat, req : Uids \cup {Nobody}]]
<1>0. UNCHANGED conns
  BY DEF HttpService, HttpTick, HandleMsgUserLogin, HttpTickEnds, Verified
<1>1. CASE HttpTick(h)
  <2>1. http' \in Ticks
    BY <1>1 DEF HttpTick, IInv, TypeOK
  <2>2. Verifying'
    BY <1>1 DEF HttpTick, IInv, TypeOK, Verifying
  <2> QED BY <1>0, <1>1, <2>1, <2>2, SameConns DEF HttpTick, IInv, TypeOK, conns, queues
<1>2. CASE HandleMsgUserLogin(h)
  <2>1. /\ Head(out[h]) \in Msg /\ Tail(out[h]) \in Queue
        /\ Head(out[h]).uid \in Uids /\ Head(out[h]).len \in Nat
    BY <1>2, PoppedQueue, MsgFields DEF HandleMsgUserLogin, IInv, TypeOK
  <2>2. http' \in Ticks /\ out' \in [Pool -> Queue]
    BY <1>2, <2>1 DEF HandleMsgUserLogin, IInv, TypeOK
  <2>3. TypeOK'
    BY <1>0, <1>2, <2>2 DEF HandleMsgUserLogin, IInv, TypeOK, conns
  <2>4. Verifying'
    BY <1>2, <2>1 DEF HandleMsgUserLogin, IInv, TypeOK, Verifying
  <2> QED BY <1>0, <2>3, <2>4, SameConns DEF IInv
<1>3. CASE HttpTickEnds(h)
  <2>1. http' \in Ticks
    BY <1>3 DEF HttpTickEnds, IInv, TypeOK
  <2>2. Verifying'
    BY <1>3 DEF HttpTickEnds, IInv, TypeOK, Verifying
  <2> QED BY <1>0, <1>3, <2>1, <2>2, SameConns DEF HttpTickEnds, IInv, TypeOK, conns, queues
<1>4. ASSUME NEW len \in RetLens, Verified(h, len)
      PROVE  IInv'
  <2>1. http[h].req \in Uids
    BY <1>4 DEF Verified, IInv, TypeOK, Verifying
  <2>2. [uid |-> http[h].req, len |-> len] \in Msg
    BY <2>1 DEF Msg
  <2>3. in' \in [Pool -> Queue] /\ lost' \subseteq {"full", "busy"}
    BY <1>4, <2>2, AppendedQueue, Overflows DEF Verified, IInv, TypeOK
  <2>4. http' \in Ticks /\ Verifying'
    BY <1>4 DEF Verified, IInv, TypeOK, Verifying
  <2>5. TypeOK'
    BY <1>0, <1>4, <2>3, <2>4 DEF Verified, IInv, TypeOK, conns
  <2> QED BY <1>0, <2>4, <2>5, SameConns DEF IInv
<1> QED BY <1>1, <1>2, <1>3, <1>4 DEF HttpService

(* Every step keeps the invariant.                                         *)
LEMMA StepInv == IInv /\ [Next]_vars => IInv'
<1> SUFFICES ASSUME IInv, [Next]_vars PROVE IInv'
  OBVIOUS
<1>1. CASE UNCHANGED vars
  <2>1. TypeOK'
    BY <1>1 DEF IInv, TypeOK, vars, conns, queues
  <2> QED BY <1>1, <2>1, SameConns, SameHttp DEF IInv, vars
<1> QED BY <1>1, NetServiceInv, ManagerInv, HttpServiceInv DEF Next

(* The tables, queues and Ticks of the login server stay in their types,   *)
(* and a channel never holds more than it has room for.                    *)
THEOREM TypeCorrect == Spec => []TypeOK
<1>1. IInv => TypeOK
  BY DEF IInv
<1> QED BY <1>1, InitInv, StepInv, PTL DEF Spec

(* However often connections are reused, m_kOnlineUser and the connections *)
(* in use are each other's inverse: GetUser finds the client that asked or *)
(* nobody, and OnDisConnect's assertion never fails.                       *)
THEOREM OnlineKept == Spec => []OnlineIsConnected
<1>1. IInv => OnlineIsConnected
  BY DEF IInv
<1> QED BY <1>1, InitInv, StepInv, PTL DEF Spec

-----------------------------------------------------------------------------
(* Counting the logins under way: each is at one place in one position.    *)

Token == Msg \cup [uid : Uids]

Popped(W, p) == [W EXCEPT ![p] = Tail(@)]
Put(W, p, m) == [W EXCEPT ![p] = Appended(@, m)]

LEMMA HeldFinite == \A W, U : IsFiniteSet(Held(W, U)) /\ Load(W, U) \in Nat
<1>1. IsFiniteSet(Pool) /\ IsFiniteSet(1 .. QueueCap)
  BY FS_Interval DEF Pool
<1>2. IsFiniteSet({"toHttp", "fromHttp"}) /\ IsFiniteSet({"out", "in", "http"}) /\ IsFiniteSet({Nobody})
  <2>1. /\ {"toHttp", "fromHttp"} = {"toHttp"} \cup {"fromHttp"}
        /\ {"out", "in", "http"} = {"out"} \cup {"in"} \cup {"http"}
    OBVIOUS
  <2>2. \A s : IsFiniteSet({s})
    BY FS_Singleton
  <2>3. IsFiniteSet({"toHttp"} \cup {"fromHttp"}) /\ IsFiniteSet({"out"} \cup {"in"})
    BY <2>2, FS_AddElement
  <2>4. IsFiniteSet({"out"} \cup {"in"} \cup {"http"})
    BY <2>3, FS_AddElement
  <2> QED BY <2>1, <2>2, <2>3, <2>4
<1>3. IsFiniteSet({"toHttp", "fromHttp"} \X {Nobody}) /\ IsFiniteSet({"out", "in", "http"} \X Pool)
  BY <1>1, <1>2, FS_Product
<1>4. IsFiniteSet(Places)
  BY <1>3, FS_Union DEF Places
<1>5. IsFiniteSet(Places \X (1 .. QueueCap))
  BY <1>1, <1>4, FS_Product
<1>6. ASSUME NEW W, NEW U PROVE IsFiniteSet(Held(W, U))
  <2>1. Held(W, U) \in SUBSET (Places \X (1 .. QueueCap))
    BY DEF Held
  <2> QED BY <1>5, <2>1, FS_Subset
<1> QED BY <1>6, FS_CardinalityType DEF Load

(* One more at the end of a queue.                                         *)
LEMMA LoadAdd ==
  ASSUME NEW W \in [Places -> Seq(Token)], NEW p \in Places, NEW m \in Token,
         CanAppend(W[p]), NEW U
  PROVE  Load(Put(W, p, m), U) = IF m.uid \in U THEN Load(W, U) + 1 ELSE Load(W, U)
<1> DEFINE n  == Len(W[p]) + 1
           W2 == Put(W, p, m)
<1>0. W2 = [W EXCEPT ![p] = Append(@, m)] /\ Len(W[p]) < QueueCap
  BY DEF Put, Appended, CanAppend
<1> HIDE DEF W2
<1>1. W[p] \in Seq(Token) /\ n \in 1 .. QueueCap /\ n \in Nat
  BY <1>0
<1>2. /\ \A q \in Places : q # p => W2[q] = W[q]
      /\ W2[p] = Append(W[p], m) /\ Len(W2[p]) = n /\ W2[p][n] = m
      /\ \A i \in 1 .. QueueCap : i =< Len(W[p]) => W2[p][i] = W[p][i]
  BY <1>0, <1>1
<1>3. \A x \in Places \X (1 .. QueueCap) : x = <<x[1], x[2]>> /\ x[1] \in Places /\ x[2] \in 1 .. QueueCap
  OBVIOUS
<1>4. <<p, n>> \in Places \X (1 .. QueueCap)
  BY <1>1
<1>5. ASSUME NEW x \in Places \X (1 .. QueueCap), x # <<p, n>>
      PROVE  x \in Held(W2, U) <=> x \in Held(W, U)
  <2>1. CASE x[1] = p
    <3>1. x[2] # n /\ x[2] \in 1 .. QueueCap
      BY <1>3, <1>5, <2>1
    <3>2. x[2] =< n <=> x[2] =< Len(W[p])
      BY <1>1, <3>1
    <3> QED BY <1>2, <2>1, <3>1, <3>2 DEF Held
  <2>2. CASE x[1] # p
    BY <1>2, <1>3, <2>2 DEF Held
  <2> QED BY <2>1, <2>2
<1>6. <<p, n>> \notin Held(W, U)
  BY <1>1 DEF Held
<1>7. <<p, n>> \in Held(W2, U) <=> m.uid \in U
  BY <1>1, <1>2, <1>4 DEF Held
<1>8. Held(W2, U) \subseteq Places \X (1 .. QueueCap) /\ Held(W, U) \subseteq Places \X (1 .. QueueCap)
  BY DEF Held
<1>9. CASE m.uid \in U
  <2>1. Held(W2, U) = Held(W, U) \cup {<<p, n>>}
    BY <1>4, <1>5, <1>7, <1>8, <1>9
  <2>2. Cardinality(Held(W, U) \cup {<<p, n>>}) = Cardinality(Held(W, U)) + 1
    BY <1>6, HeldFinite, FS_AddElement
  <2> QED BY <1>9, <2>1, <2>2 DEF Load, W2
<1>10. CASE m.uid \notin U
  <2>1. \A x \in Places \X (1 .. QueueCap) : x \in Held(W2, U) <=> x \in Held(W, U)
    BY <1>5, <1>6, <1>7, <1>10
  <2>2. Held(W2, U) = Held(W, U)
    BY <1>8, <2>1, Zenon
  <2> QED BY <1>10, <2>2 DEF Load, W2
<1> QED BY <1>9, <1>10

(* Counting by comparing with another set.                                 *)
LEMMA SameSize ==
  ASSUME NEW S, NEW T, IsFiniteSet(S), NEW f \in [S -> T],
         \A a, b \in S : f[a] = f[b] => a = b, \A t \in T : \E s \in S : f[s] = t
  PROVE  Cardinality(T) = Cardinality(S)
<1>1. f \in Bijection(S, T)
  BY Fun_IsBij
<1>2. ExistsBijection(S, T)
  BY <1>1, Fun_ExistsBij
<1> QED BY <1>2, FS_Bijection

LEMMA NoMoreThan ==
  ASSUME NEW S, NEW T, IsFiniteSet(T), NEW f \in [S -> T],
         \A a, b \in S : f[a] = f[b] => a = b
  PROVE  Cardinality(S) =< Cardinality(T)
<1>1. f \in Injection(S, T)
  BY Fun_IsInj
<1> QED BY <1>1, FS_Injection

(* One less at the front of a queue: the others move up.                   *)
LEMMA LoadPop ==
  ASSUME NEW W \in [Places -> Seq(Token)], NEW p \in Places, W[p] # <<>>,
         Len(W[p]) =< QueueCap, NEW U
  PROVE  Load(Popped(W, p), U) = IF Head(W[p]).uid \in U THEN Load(W, U) - 1 ELSE Load(W, U)
<1> DEFINE W2 == Popped(W, p)
           A  == Held(W2, U)
           B  == Held(W, U) \ {<<p, 1>>}
           f  == [x \in A |-> IF x[1] = p THEN <<p, x[2] + 1>> ELSE x]
<1>0. W2 = [W EXCEPT ![p] = Tail(@)]
  BY DEF Popped
<1> HIDE DEF W2
<1>1. PICK n \in Nat : /\ n = Len(W[p]) /\ n > 0 /\ n =< QueueCap
                       /\ Len(W2[p]) = n - 1
                       /\ \A i \in 1 .. n - 1 : W2[p][i] = W[p][i + 1]
                       /\ W[p][1] = Head(W[p])
  <2>1. W[p] \in Seq(Token) /\ W2[p] = Tail(W[p])
    BY <1>0
  <2>2. Len(W[p]) \in Nat /\ Len(W[p]) > 0 /\ W[p][1] = Head(W[p])
    BY <2>1
  <2>3. Len(Tail(W[p])) = Len(W[p]) - 1 /\ \A i \in 1 .. Len(W[p]) - 1 : Tail(W[p])[i] = W[p][i + 1]
    BY <2>1, <2>2
  <2> QED BY <2>1, <2>2, <2>3
<1>2. \A q \in Places : q # p => W2[q] = W[q]
  BY <1>0
<1>3. \A x \in Places \X (1 .. QueueCap) : x = <<x[1], x[2]>> /\ x[1] \in Places /\ x[2] \in 1 .. QueueCap
  OBVIOUS
<1>4. A \subseteq Places \X (1 .. QueueCap) /\ Held(W, U) \subseteq Places \X (1 .. QueueCap)
  BY DEF Held
<1>5. \A i \in Nat : <<p, i>> \in A <=> i \in 1 .. n - 1 /\ W[p][i + 1].uid \in U
  <2>1. ASSUME NEW i \in Nat PROVE <<p, i>> \in A <=> i \in 1 .. QueueCap /\ i =< n - 1 /\ W2[p][i].uid \in U
    BY <1>1 DEF Held
  <2>2. ASSUME NEW i \in Nat PROVE i \in 1 .. QueueCap /\ i =< n - 1 <=> i \in 1 .. n - 1
    BY <1>1
  <2>3. ASSUME NEW i \in 1 .. n - 1 PROVE W2[p][i] = W[p][i + 1]
    BY <1>1
  <2> QED BY <2>1, <2>2, <2>3
<1>6. \A i \in Nat : <<p, i>> \in Held(W, U) <=> i \in 1 .. n /\ W[p][i].uid \in U
  <2>1. ASSUME NEW i \in Nat PROVE <<p, i>> \in Held(W, U) <=> i \in 1 .. QueueCap /\ i =< n /\ W[p][i].uid \in U
    BY <1>1 DEF Held
  <2>2. ASSUME NEW i \in Nat PROVE i \in 1 .. QueueCap /\ i =< n <=> i \in 1 .. n
    BY <1>1
  <2> QED BY <2>1, <2>2
<1>7. \A x \in Places \X (1 .. QueueCap) : x[1] # p => (x \in A <=> x \in Held(W, U))
  BY <1>2, <1>3 DEF Held
<1>8. ASSUME NEW x \in A PROVE /\ x \in Places \X (1 .. QueueCap)
                               /\ f[x] = IF x[1] = p THEN <<p, x[2] + 1>> ELSE x
                               /\ x[2] \in Nat /\ x[2] >= 1 /\ x = <<x[1], x[2]>>
  <2>1. x \in Places \X (1 .. QueueCap) /\ f[x] = IF x[1] = p THEN <<p, x[2] + 1>> ELSE x
    BY <1>4, <1>8
  <2> HIDE DEF A, f
  <2> QED BY <1>3, <2>1
<1>9. f \in [A -> B]
  <2> SUFFICES ASSUME NEW x \in A PROVE f[x] \in B
    OBVIOUS
  <2> HIDE DEF A, f
  <2>1. CASE x[1] = p
    <3>1. <<p, x[2]>> \in A /\ x[2] \in Nat
      BY <1>8, <2>1
    <3>2. x[2] \in 1 .. n - 1 /\ W[p][x[2] + 1].uid \in U
      BY <1>5, <3>1
    <3>3. x[2] + 1 \in Nat /\ x[2] + 1 \in 1 .. n /\ x[2] + 1 # 1
      BY <1>1, <3>1, <3>2
    <3>4. <<p, x[2] + 1>> \in Held(W, U)
      BY <1>6, <3>2, <3>3
    <3> QED BY <1>8, <2>1, <3>3, <3>4
  <2>2. CASE x[1] # p
    <3>1. f[x] = x /\ x \in Held(W, U)
      BY <1>7, <1>8, <2>2
    <3>2. <<p, 1>>[1] = p
      OBVIOUS
    <3>3. x # <<p, 1>>
      BY <2>2, <3>2, Zenon
    <3> QED BY <3>1, <3>3
  <2> QED BY <2>1, <2>2
<1>10. ASSUME NEW x \in A, NEW y \in A, f[x] = f[y] PROVE x = y
  <2> HIDE DEF A, f
  <2>1. /\ x = <<x[1], x[2]>> /\ f[x] = (IF x[1] = p THEN <<p, x[2] + 1>> ELSE x) /\ x[2] \in Nat
        /\ y = <<y[1], y[2]>> /\ f[y] = (IF y[1] = p THEN <<p, y[2] + 1>> ELSE y) /\ y[2] \in Nat
    BY <1>8
  <2>2. CASE x[1] = p /\ y[1] = p
    <3>1. <<p, x[2] + 1>> = <<p, y[2] + 1>>
      BY <1>10, <2>1, <2>2, Zenon
    <3>2. x[2] + 1 = y[2] + 1
      BY <3>1
    <3>3. x[2] = y[2]
      BY <2>1, <3>2
    <3> QED BY <2>1, <2>2, <3>3, Zenon
  <2>3. CASE ~(x[1] = p /\ y[1] = p)
    <3>1. \A i : <<p, i>>[1] = p
      OBVIOUS
    <3>2. f[x][1] = x[1] /\ f[y][1] = y[1]
      BY <2>1, <3>1, Zenon
    <3> QED BY <1>10, <2>1, <2>3, <3>2, Zenon
  <2> QED BY <2>2, <2>3
<1>11. ASSUME NEW y \in B PROVE \E x \in A : f[x] = y
  <2>1. /\ y \in Held(W, U) /\ y # <<p, 1>> /\ y \in Places \X (1 .. QueueCap)
        /\ y = <<y[1], y[2]>> /\ y[2] \in Nat
    BY <1>3, <1>4
  <2> HIDE DEF A, f
  <2>2. CASE y[1] = p
    <3>1. y[2] \in 1 .. n /\ W[p][y[2]].uid \in U /\ y[2] # 1
      BY <1>6, <2>1, <2>2
    <3>2. PICK i : i \in Nat /\ i \in 1 .. n - 1 /\ i + 1 = y[2]
      <4>1. PICK k \in Nat : k = y[2]
        BY <2>1
      <4>2. k - 1 \in Nat /\ k - 1 \in 1 .. n - 1 /\ k - 1 + 1 = k
        BY <1>1, <3>1, <4>1
      <4> QED BY <4>1, <4>2
    <3>3. <<p, i>> \in A
      BY <1>5, <3>1, <3>2
    <3>4. f[<<p, i>>] = y
      BY <1>8, <2>1, <2>2, <3>2, <3>3
    <3> QED BY <3>3, <3>4
  <2>3. CASE y[1] # p
    <3>1. y \in A
      BY <1>7, <2>1, <2>3
    <3> QED BY <1>8, <2>3, <3>1
  <2> QED BY <2>2, <2>3
<1>12. Cardinality(B) = Cardinality(A)
  <2>1. IsFiniteSet(A)
    BY HeldFinite
  <2> HIDE DEF A, B, f
  <2> QED BY <1>9, <1>10, <1>11, <2>1, SameSize
<1>13. Cardinality(B) = IF <<p, 1>> \in Held(W, U) THEN Cardinality(Held(W, U)) - 1 ELSE Cardinality(Held(W, U))
  BY HeldFinite, FS_RemoveElement
<1>14. <<p, 1>> \in Held(W, U) <=> Head(W[p]).uid \in U
  BY <1>1, <1>6
<1> QED BY <1>12, <1>13, <1>14 DEF Load, W2

-----------------------------------------------------------------------------
(* The actions seen as logins that move from place to place.               *)

ToHttp   == <<"toHttp", Nobody>>
FromHttp == <<"fromHttp", Nobody>>

Carried(u) == IF u = Nobody THEN <<>> ELSE <<[uid |-> u]>>

(* What is at each place.                                                  *)
LoginsAt ==
  /\ Logins = [p \in Places |-> Logins[p]]
  /\ Logins[ToHttp] = toHttp /\ Logins[FromHttp] = fromHttp
  /\ \A h \in Pool : /\ Logins[<<"out", h>>] = out[h] /\ Logins[<<"in", h>>] = in[h]
                     /\ Logins[<<"http", h>>] = Carried(http[h].req)

LEMMA PlacesAre ==
  /\ ToHttp \in Places /\ FromHttp \in Places
  /\ \A h \in Pool : <<"out", h>> \in Places /\ <<"in", h>> \in Places /\ <<"http", h>> \in Places
  /\ \A p \in Places : \/ p = ToHttp \/ p = FromHttp
                       \/ \E h \in Pool : p = <<"out", h>> \/ p = <<"in", h>> \/ p = <<"http", h>>
BY DEF Places, ToHttp, FromHttp

LEMMA LoginsAreAt == LoginsAt
<1>1. Logins = [p \in Places |-> Logins[p]]
  BY DEF Logins
<1>2. Logins[ToHttp] = toHttp /\ Logins[FromHttp] = fromHttp
  BY PlacesAre DEF Logins, ToHttp, FromHttp
<1>3. ASSUME NEW h \in Pool
      PROVE  /\ Logins[<<"out", h>>] = out[h] /\ Logins[<<"in", h>>] = in[h]
             /\ Logins[<<"http", h>>] = Carried(http[h].req)
  BY PlacesAre DEF Logins, Carried
<1> QED BY <1>1, <1>2, <1>3 DEF LoginsAt

(* The logins of the next state are known place by place.                  *)
LEMMA NextLogins ==
  ASSUME NEW W \in [Places -> Seq(Token)],
         W[ToHttp] = toHttp', W[FromHttp] = fromHttp',
         \A h \in Pool : /\ W[<<"out", h>>] = out'[h] /\ W[<<"in", h>>] = in'[h]
                         /\ W[<<"http", h>>] = Carried(http'[h].req)
  PROVE  Logins' = W
<1>1. ASSUME NEW p \in Places PROVE Logins'[p] = W[p]
  <2>1. CASE p = ToHttp
    BY <2>1, PlacesAre DEF Logins, ToHttp
  <2>2. CASE p = FromHttp
    BY <2>2, PlacesAre DEF Logins, FromHttp
  <2>3. ASSUME NEW h \in Pool, p = <<"out", h>> \/ p = <<"in", h>> \/ p = <<"http", h>>
        PROVE  Logins'[p] = W[p]
    <3>1. CASE p = <<"out", h>>
      BY <3>1, PlacesAre DEF Logins
    <3>2. CASE p = <<"in", h>>
      BY <3>2, PlacesAre DEF Logins
    <3>3. CASE p = <<"http", h>>
      BY <3>3, PlacesAre DEF Logins, Carried
    <3> QED BY <2>3, <3>1, <3>2, <3>3
  <2> QED BY <2>1, <2>2, <2>3, PlacesAre
<1>2. Logins' = [p \in Places |-> Logins'[p]]
  BY DEF Logins
<1> QED BY <1>1, <1>2

(* The logins are sequences of tokens.                                     *)
LEMMA LoginsType ==
  ASSUME TypeOK
  PROVE  /\ Logins \in [Places -> Seq(Token)]
         /\ \A p \in Places : Len(Logins[p]) =< QueueCap
         /\ \A m \in Token : m.uid \in Uids
<1>1. \A m \in Token : m.uid \in Uids
  BY DEF Token, Msg
<1>2. \A q \in Queue : q \in Seq(Token) /\ Len(q) =< QueueCap
  BY DEF Queue, Token
<1>3. ASSUME NEW p \in Places PROVE Logins[p] \in Seq(Token) /\ Len(Logins[p]) =< QueueCap
  <2>1. CASE p = ToHttp \/ p = FromHttp
    BY <1>2, <2>1, LoginsAreAt DEF LoginsAt, TypeOK
  <2>2. ASSUME NEW h \in Pool, p = <<"out", h>> \/ p = <<"in", h>> \/ p = <<"http", h>>
        PROVE  Logins[p] \in Seq(Token) /\ Len(Logins[p]) =< QueueCap
    <3>1. CASE p = <<"out", h>> \/ p = <<"in", h>>
      <4>1. out[h] \in Queue /\ in[h] \in Queue
        BY DEF TypeOK
      <4>2. Logins[p] = out[h] \/ Logins[p] = in[h]
        BY <3>1, LoginsAreAt DEF LoginsAt
      <4> QED BY <1>2, <4>1, <4>2, Zenon
    <3>2. CASE p = <<"http", h>>
      <4>1. Logins[p] = Carried(http[h].req) /\ http[h].req \in Uids \cup {Nobody}
        BY <3>2, LoginsAreAt DEF LoginsAt, TypeOK
      <4>2. \A u \in Uids : [uid |-> u] \in Token
        BY DEF Token
      <4> QED BY <4>1, <4>2 DEF Carried
    <3> QED BY <2>2, <3>1, <3>2
  <2> QED BY <2>1, <2>2, PlacesAre
<1> QED BY <1>1, <1>3, LoginsAreAt DEF LoginsAt

(* What pop and append leave at each place.                                *)
LEMMA PoppedAt ==
  ASSUME NEW W \in [Places -> Seq(Token)], NEW p \in Places, W[p] # <<>>
  PROVE  /\ Popped(W, p) \in [Places -> Seq(Token)]
         /\ Popped(W, p)[p] = Tail(W[p])
         /\ \A q \in Places : q # p => Popped(W, p)[q] = W[q]
<1>1. Tail(W[p]) \in Seq(Token)
  OBVIOUS
<1> QED BY <1>1 DEF Popped

LEMMA PutAt ==
  ASSUME NEW W \in [Places -> Seq(Token)], NEW p \in Places, NEW m \in Token
  PROVE  /\ Put(W, p, m) \in [Places -> Seq(Token)]
         /\ Put(W, p, m)[p] = Appended(W[p], m)
         /\ \A q \in Places : q # p => Put(W, p, m)[q] = W[q]
<1>1. Appended(W[p], m) \in Seq(Token)
  BY DEF Appended
<1> QED BY <1>1 DEF Put

LEMMA LoadPut ==
  ASSUME NEW W \in [Places -> Seq(Token)], NEW p \in Places, NEW m \in Token, NEW U
  PROVE  Load(Put(W, p, m), U) =
           IF CanAppend(W[p]) /\ m.uid \in U THEN Load(W, U) + 1 ELSE Load(W, U)
<1>1. CASE CanAppend(W[p])
  <2>1. Load(Put(W, p, m), U) = IF m.uid \in U THEN Load(W, U) + 1 ELSE Load(W, U)
    BY <1>1, LoadAdd, SMTT(30)
  <2> QED BY <1>1, <2>1
<1>2. CASE ~CanAppend(W[p])
  <2>1. Put(W, p, m) = W
    BY <1>2 DEF Put, Appended
  <2> QED BY <1>2, <2>1
<1> QED BY <1>1, <1>2

(* An HttpService has a login in hand only while it asks the web server.   *)
WaitingOnly == \A h \in Pool : http[h].at # "verify" => http[h].req = Nobody

LEMMA WaitingStarts == Init => WaitingOnly
BY DEF Init, WaitingOnly

LEMMA WaitingStep == IInv /\ WaitingOnly /\ [Next]_vars => WaitingOnly'
<1> SUFFICES ASSUME IInv, WaitingOnly, [Next]_vars PROVE WaitingOnly'
  OBVIOUS
<1>0. /\ http \in [Pool -> [at : {"idle", "pop", "verify"}, buf : Nat, req : Uids \cup {Nobody}]]
      /\ \A k \in Pool : http[k].at # "verify" => http[k].req = Nobody
  BY DEF IInv, TypeOK, WaitingOnly
<1>1. CASE UNCHANGED http
  BY <1>0, <1>1 DEF WaitingOnly
<1>2. ASSUME NEW h \in Pool, HttpService(h)
      PROVE  WaitingOnly'
  <2>1. CASE HttpTick(h)
    BY <1>0, <2>1 DEF HttpTick, WaitingOnly
  <2>2. CASE HandleMsgUserLogin(h)
    BY <1>0, <2>2 DEF HandleMsgUserLogin, WaitingOnly
  <2>3. CASE HttpTickEnds(h)
    BY <1>0, <2>3 DEF HttpTickEnds, WaitingOnly
  <2>4. ASSUME NEW len \in RetLens, Verified(h, len)
        PROVE  WaitingOnly'
    BY <1>0, <2>4 DEF Verified, WaitingOnly
  <2> QED BY <1>2, <2>1, <2>2, <2>3, <2>4 DEF HttpService
<1>3. NetService \/ Manager => UNCHANGED http
  BY DEF NetService, OnNewConnec, OnDisConnect, HandlePacketUserLogin, TickHttpMsg,
         HandleMsgUserLoginRet, NetTickEnds, Manager, ManagerTick, DispatchRequest, RequestsEnd,
         ForwardReply
<1> QED BY <1>1, <1>2, <1>3 DEF Next, vars

(* What a step does with the logins: nothing; a client sends one; one is   *)
(* answered; one moves to another queue, if that has room; one finds no    *)
(* service free.                                                           *)
Stays ==
  /\ Logins' = Logins /\ lost' = lost /\ seen' = Nothing
  /\ \A h \in Pool : free[h] => free'[h]

Sent ==
  /\ Owed < MaxOwed
  /\ \E m \in Token : /\ Logins' = Put(Logins, ToHttp, m)
                      /\ seen' = Asked(m.uid)
  /\ lost' = lost \cup Overflow(Logins[ToHttp])
  /\ free' = free

Returned ==
  /\ Logins[FromHttp] # <<>>
  /\ Logins' = Popped(Logins, FromHttp)
  /\ seen' = Answered(Head(Logins[FromHttp]).uid)
  /\ lost' = lost /\ free' = free

Moved ==
  \E p, q \in Places, m \in Token :
    /\ p # q /\ Logins[p] # <<>>
    /\ m.uid = Head(Logins[p]).uid
    /\ Logins' = Put(Popped(Logins, p), q, m)
    /\ lost' = lost \cup Overflow(Logins[q]) /\ seen' = Nothing
    /\ \A h \in Pool : ~free'[h] => q[2] = h \/ (~free[h] /\ p[2] # h)

Refused ==
  /\ Logins[ToHttp] # <<>>
  /\ Logins' = Popped(Logins, ToHttp)
  /\ \A h \in Pool : ~free[h]
  /\ lost' = lost \cup {"busy"} /\ seen' = Nothing /\ free' = free

LoginMoves == Stays \/ Sent \/ Returned \/ Moved \/ Refused

(* A step that leaves the queues and the logins in hand alone.             *)
LEMMA SameLogins ==
  ASSUME TypeOK, UNCHANGED queues, \A h \in Pool : http'[h].req = http[h].req
  PROVE  Logins' = Logins
<1>1. PICK W : W = Logins
  OBVIOUS
<1>2. W \in [Places -> Seq(Token)]
  BY <1>1, LoginsType
<1>3. /\ W[ToHttp] = toHttp' /\ W[FromHttp] = fromHttp'
      /\ \A h \in Pool : /\ W[<<"out", h>>] = out'[h] /\ W[<<"in", h>>] = in'[h]
                         /\ W[<<"http", h>>] = Carried(http'[h].req)
  BY <1>1, LoginsAreAt DEF LoginsAt, queues
<1>4. Logins' = W
  BY <1>2, <1>3, NextLogins
<1> QED BY <1>1, <1>4

(* The places are apart.                                                   *)
LEMMA Apart ==
  /\ ToHttp # FromHttp /\ ToHttp[2] = Nobody /\ FromHttp[2] = Nobody
  /\ \A h, k : /\ <<"out", h>> # ToHttp /\ <<"in", h>> # ToHttp /\ <<"http", h>> # ToHttp
               /\ <<"out", h>> # FromHttp /\ <<"in", h>> # FromHttp /\ <<"http", h>> # FromHttp
               /\ <<"out", h>> # <<"in", k>> /\ <<"out", h>> # <<"http", k>>
               /\ <<"in", h>> # <<"http", k>>
               /\ (h # k => <<"out", h>> # <<"out", k>> /\ <<"in", h>> # <<"in", k>>
                            /\ <<"http", h>> # <<"http", k>>)
  /\ \A k, h : <<k, h>>[1] = k /\ <<k, h>>[2] = h
BY DEF ToHttp, FromHttp

(* Messages are tokens.                                                    *)
LEMMA MsgToken == Msg \subseteq Token
BY DEF Token

LEMMA NetServiceMoves ==
  ASSUME IInv, NetService
  PROVE  LoginMoves
<1>0. TypeOK
  BY DEF IInv
<1>1. CASE OnNewConnec \/ TickHttpMsg \/ NetTickEnds \/ \E c \in Conns : OnDisConnect(c)
  <2>1. UNCHANGED <<queues, http, free, lost>> /\ seen' = Nothing
    BY <1>1 DEF OnNewConnec, TickHttpMsg, NetTickEnds, OnDisConnect
  <2>2. Logins' = Logins
    BY <1>0, <2>1, SameLogins
  <2>3. Stays
    BY <2>1, <2>2 DEF Stays
  <2> QED BY <2>3 DEF LoginMoves
<1>2. ASSUME NEW c \in Conns, NEW len \in ReqLens, HandlePacketUserLogin(c, len)
      PROVE  LoginMoves
  <2>1. uidOf[c] \in Uids
    BY <1>2 DEF HandlePacketUserLogin, IInv, UidsGivenOut
  <2>2. PICK m : m = [uid |-> uidOf[c], len |-> len]
    OBVIOUS
  <2>3. m \in Token /\ m.uid = uidOf[c]
    BY <2>1, <2>2 DEF Msg, Token
  <2>4. PICK L : L = Logins
    OBVIOUS
  <2>5. L \in [Places -> Seq(Token)]
    BY <1>0, <2>4, LoginsType
  <2>6. PICK W : W = Put(L, ToHttp, m)
    OBVIOUS
  <2>7. /\ W \in [Places -> Seq(Token)] /\ W[ToHttp] = Appended(L[ToHttp], m)
        /\ \A q \in Places : q # ToHttp => W[q] = L[q]
    BY <2>3, <2>5, <2>6, PutAt, PlacesAre
  <2>8. toHttp' = Appended(toHttp, m) /\ UNCHANGED <<fromHttp, out, in, http, free>>
    BY <1>2, <2>2 DEF HandlePacketUserLogin
  <2>9. /\ W[ToHttp] = toHttp' /\ W[FromHttp] = fromHttp'
        /\ \A h \in Pool : /\ W[<<"out", h>>] = out'[h] /\ W[<<"in", h>>] = in'[h]
                           /\ W[<<"http", h>>] = Carried(http'[h].req)
    BY <2>4, <2>7, <2>8, LoginsAreAt, Apart, PlacesAre DEF LoginsAt
  <2>10. Logins' = Put(Logins, ToHttp, m)
    BY <2>4, <2>6, <2>7, <2>9, NextLogins
  <2>11. /\ Owed < MaxOwed /\ seen' = Asked(m.uid) /\ free' = free
         /\ lost' = lost \cup Overflow(Logins[ToHttp])
    BY <1>2, <2>3, LoginsAreAt DEF HandlePacketUserLogin, LoginsAt
  <2>12. Sent
    BY <2>3, <2>10, <2>11 DEF Sent
  <2> QED BY <2>12 DEF LoginMoves
<1>3. CASE HandleMsgUserLoginRet
  <2>1. fromHttp # <<>> /\ fromHttp' = Tail(fromHttp) /\ UNCHANGED <<toHttp, out, in, http, free, lost>>
        /\ seen' = Answered(Head(fromHttp).uid)
    BY <1>3 DEF HandleMsgUserLoginRet, CanPop
  <2>4. PICK L : L = Logins
    OBVIOUS
  <2>5. L \in [Places -> Seq(Token)] /\ L[FromHttp] = fromHttp
    BY <1>0, <2>4, LoginsType, LoginsAreAt DEF LoginsAt
  <2>6. PICK W : W = Popped(L, FromHttp)
    OBVIOUS
  <2>7. /\ W \in [Places -> Seq(Token)] /\ W[FromHttp] = Tail(L[FromHttp])
        /\ \A q \in Places : q # FromHttp => W[q] = L[q]
    BY <2>1, <2>5, <2>6, PoppedAt, PlacesAre
  <2>9. /\ W[ToHttp] = toHttp' /\ W[FromHttp] = fromHttp'
        /\ \A h \in Pool : /\ W[<<"out", h>>] = out'[h] /\ W[<<"in", h>>] = in'[h]
                           /\ W[<<"http", h>>] = Carried(http'[h].req)
    BY <2>1, <2>4, <2>5, <2>7, LoginsAreAt, Apart, PlacesAre DEF LoginsAt
  <2>10. Logins' = Popped(Logins, FromHttp)
    BY <2>4, <2>6, <2>7, <2>9, NextLogins
  <2>11. Returned
    BY <2>1, <2>4, <2>5, <2>10 DEF Returned
  <2> QED BY <2>11 DEF LoginMoves
<1> QED BY <1>1, <1>2, <1>3 DEF NetService

LEMMA ManagerMoves ==
  ASSUME IInv, Manager
  PROVE  LoginMoves
<1>0. TypeOK
  BY DEF IInv
<1>1. CASE ManagerTick \/ RequestsEnd
  <2>1. UNCHANGED <<queues, http, free, lost>> /\ seen' = Nothing
    BY <1>1 DEF ManagerTick, RequestsEnd
  <2>2. Logins' = Logins
    BY <1>0, <2>1, SameLogins
  <2>3. Stays
    BY <2>1, <2>2 DEF Stays
  <2> QED BY <2>3 DEF LoginMoves
<1>2. CASE DispatchRequest
  <2>1. PICK m : m = Head(toHttp)
    OBVIOUS
  <2>2. /\ toHttp # <<>> /\ toHttp' = Tail(toHttp) /\ UNCHANGED <<fromHttp, in, http>>
        /\ seen' = Nothing
    BY <1>2 DEF DispatchRequest, CanPop
  <2>3. m \in Token
    BY <1>0, <1>2, <2>1, PoppedQueue, MsgToken DEF DispatchRequest, TypeOK
  <2>4. PICK L : L = Logins
    OBVIOUS
  <2>5. L \in [Places -> Seq(Token)] /\ L[ToHttp] = toHttp
    BY <1>0, <2>4, LoginsType, LoginsAreAt DEF LoginsAt
  <2>6. PICK V : V = Popped(L, ToHttp)
    OBVIOUS
  <2>7. /\ V \in [Places -> Seq(Token)] /\ V[ToHttp] = Tail(L[ToHttp])
        /\ \A q \in Places : q # ToHttp => V[q] = L[q]
    BY <2>2, <2>5, <2>6, PoppedAt, PlacesAre
  <2>8. CASE FreeHttps = {} /\ lost' = lost \cup {"busy"} /\ UNCHANGED <<out, free>>
    <3>1. /\ V[ToHttp] = toHttp' /\ V[FromHttp] = fromHttp'
          /\ \A h \in Pool : /\ V[<<"out", h>>] = out'[h] /\ V[<<"in", h>>] = in'[h]
                             /\ V[<<"http", h>>] = Carried(http'[h].req)
      BY <2>2, <2>4, <2>5, <2>7, <2>8, LoginsAreAt, Apart, PlacesAre DEF LoginsAt
    <3>2. Logins' = Popped(Logins, ToHttp)
      BY <2>4, <2>6, <2>7, <3>1, NextLogins
    <3>3. Refused
      BY <2>2, <2>4, <2>5, <2>8, <3>2 DEF Refused, FreeHttps
    <3> QED BY <3>3 DEF LoginMoves
  <2>9. ASSUME NEW h \in First(FreeHttps),
               out' = [out EXCEPT ![h] = Appended(@, m)],
               free' = [free EXCEPT ![h] = FALSE],
               lost' = lost \cup Overflow(out[h])
        PROVE  LoginMoves
    <3>1. h \in Pool
      BY DEF First, FreeHttps
    <3>2. PICK p : p = <<"out", h>>
      OBVIOUS
    <3>3. p \in Places /\ p # ToHttp /\ p # FromHttp /\ p[2] = h
      BY <3>1, <3>2, Apart, PlacesAre
    <3>4. PICK W : W = Put(V, p, m)
      OBVIOUS
    <3>5. /\ W \in [Places -> Seq(Token)] /\ W[p] = Appended(V[p], m)
          /\ \A q \in Places : q # p => W[q] = V[q]
      BY <2>3, <2>7, <3>3, <3>4, PutAt
    <3>6. W[ToHttp] = toHttp' /\ W[FromHttp] = fromHttp'
      BY <2>2, <2>4, <2>5, <2>7, <3>3, <3>5, LoginsAreAt, Apart, PlacesAre DEF LoginsAt
    <3>7. ASSUME NEW k \in Pool
          PROVE  /\ W[<<"out", k>>] = out'[k] /\ W[<<"in", k>>] = in'[k]
                 /\ W[<<"http", k>>] = Carried(http'[k].req)
      <4>1. W[<<"in", k>>] = in'[k] /\ W[<<"http", k>>] = Carried(http'[k].req)
        BY <2>2, <2>4, <2>7, <3>2, <3>5, LoginsAreAt, Apart, PlacesAre DEF LoginsAt
      <4>2. V[<<"out", k>>] = out[k]
        BY <2>4, <2>7, LoginsAreAt, Apart, PlacesAre DEF LoginsAt
      <4>3. CASE k = h
        BY <1>0, <2>9, <3>1, <3>2, <3>5, <4>1, <4>2, <4>3 DEF TypeOK
      <4>4. CASE k # h
        <5>1. W[<<"out", k>>] = V[<<"out", k>>]
          BY <3>2, <3>5, <4>4, Apart, PlacesAre
        <5>2. out'[k] = out[k]
          BY <1>0, <2>9, <4>4 DEF TypeOK
        <5> QED BY <4>1, <4>2, <5>1, <5>2
      <4> QED BY <4>3, <4>4
    <3>8. Logins' = Put(Popped(Logins, ToHttp), p, m)
      BY <2>4, <2>6, <3>4, <3>5, <3>6, <3>7, NextLogins
    <3>9. \A k \in Pool : ~free'[k] => p[2] = k \/ (~free[k] /\ ToHttp[2] # k)
      <4>1. \A k \in Pool : ToHttp[2] # k
        BY Apart DEF Pool, Nobody
      <4> QED BY <1>0, <2>9, <3>1, <3>3, <4>1 DEF TypeOK
    <3>10. lost' = lost \cup Overflow(Logins[p])
      BY <2>9, <3>1, <3>2, LoginsAreAt DEF LoginsAt
    <3>11. Moved
      BY <2>1, <2>2, <2>3, <2>4, <2>5, <3>3, <3>8, <3>9, <3>10, PlacesAre DEF Moved
    <3> QED BY <3>11 DEF LoginMoves
  <2> QED BY <1>2, <2>1, <2>8, <2>9 DEF DispatchRequest
<1>3. CASE ForwardReply
  <2> DEFINE h == mgr.i
  <2>1. h \in Pool /\ free' = [free EXCEPT ![h] = TRUE] /\ seen' = Nothing
        /\ UNCHANGED <<toHttp, out, http>>
    BY <1>0, <1>3 DEF ForwardReply, TypeOK
  <2>2. CASE ~CanPop(in[h], mgr.buf)
    <3>1. UNCHANGED <<queues, http, lost>>
      BY <1>3, <2>1, <2>2 DEF ForwardReply, queues
    <3>2. Logins' = Logins
      BY <1>0, <3>1, SameLogins
    <3>3. \A k \in Pool : free[k] => free'[k]
      BY <1>0, <2>1 DEF TypeOK
    <3>4. Stays
      BY <2>1, <3>1, <3>2, <3>3 DEF Stays
    <3> QED BY <3>4 DEF LoginMoves
  <2>3. CASE CanPop(in[h], mgr.buf)
    <3> HIDE DEF h
    <3>1. PICK m, p : m = Head(in[h]) /\ p = <<"in", h>>
      OBVIOUS
    <3>2. /\ in[h] # <<>> /\ in' = [in EXCEPT ![h] = Tail(@)] /\ fromHttp' = Appended(fromHttp, m)
          /\ lost' = lost \cup Overflow(fromHttp)
      BY <1>3, <2>3, <3>1 DEF ForwardReply, CanPop, h
    <3>3. m \in Token
      BY <1>0, <2>1, <2>3, <3>1, PoppedQueue, MsgToken DEF TypeOK
    <3>4. PICK L : L = Logins
      OBVIOUS
    <3>5. /\ L \in [Places -> Seq(Token)] /\ L[p] = in[h] /\ p \in Places
          /\ p # ToHttp /\ p # FromHttp /\ p[2] = h
      BY <1>0, <2>1, <3>1, <3>4, LoginsType, LoginsAreAt, PlacesAre, Apart DEF LoginsAt
    <3>6. PICK V : V = Popped(L, p)
      OBVIOUS
    <3>7. /\ V \in [Places -> Seq(Token)] /\ V[p] = Tail(L[p])
          /\ \A q \in Places : q # p => V[q] = L[q]
      BY <3>2, <3>5, <3>6, PoppedAt
    <3>8. PICK W : W = Put(V, FromHttp, m)
      OBVIOUS
    <3>9. /\ W \in [Places -> Seq(Token)] /\ W[FromHttp] = Appended(V[FromHttp], m)
          /\ \A q \in Places : q # FromHttp => W[q] = V[q]
      <4>1. FromHttp \in Places
        BY PlacesAre
      <4> QED BY <3>3, <3>7, <3>8, <4>1, PutAt
    <3>10. W[ToHttp] = toHttp' /\ W[FromHttp] = fromHttp'
      BY <2>1, <3>2, <3>4, <3>5, <3>7, <3>9, LoginsAreAt, Apart, PlacesAre DEF LoginsAt
    <3>11. ASSUME NEW k \in Pool
           PROVE  /\ W[<<"out", k>>] = out'[k] /\ W[<<"in", k>>] = in'[k]
                  /\ W[<<"http", k>>] = Carried(http'[k].req)
      <4>1. W[<<"out", k>>] = out'[k] /\ W[<<"http", k>>] = Carried(http'[k].req)
        BY <2>1, <3>1, <3>4, <3>7, <3>9, LoginsAreAt, Apart, PlacesAre DEF LoginsAt
      <4>2. W[<<"in", k>>] = V[<<"in", k>>]
        BY <3>9, Apart, PlacesAre
      <4>3. CASE k = h
        BY <1>0, <2>1, <3>1, <3>2, <3>5, <3>7, <4>1, <4>2, <4>3 DEF TypeOK
      <4>4. CASE k # h
        <5>1. V[<<"in", k>>] = L[<<"in", k>>]
          BY <3>1, <3>7, <4>4, Apart, PlacesAre
        <5>2. in'[k] = in[k] /\ L[<<"in", k>>] = in[k]
          BY <1>0, <3>2, <3>4, <4>4, LoginsAreAt DEF TypeOK, LoginsAt
        <5> QED BY <4>1, <4>2, <5>1, <5>2
      <4> QED BY <4>3, <4>4
    <3>12. Logins' = Put(Popped(Logins, p), FromHttp, m)
      BY <3>4, <3>6, <3>8, <3>9, <3>10, <3>11, NextLogins
    <3>13. \A k \in Pool : ~free'[k] => FromHttp[2] = k \/ (~free[k] /\ p[2] # k)
      BY <1>0, <2>1, <3>5 DEF TypeOK
    <3>14. lost' = lost \cup Overflow(Logins[FromHttp])
      BY <3>2, LoginsAreAt DEF LoginsAt
    <3>15. Moved
      BY <2>1, <3>1, <3>2, <3>3, <3>4, <3>5, <3>12, <3>13, <3>14, PlacesAre DEF Moved
    <3> QED BY <3>15 DEF LoginMoves
  <2> QED BY <2>2, <2>3
<1> QED BY <1>1, <1>2, <1>3 DEF Manager

LEMMA HttpServiceMoves ==
  ASSUME IInv, WaitingOnly, NEW h \in Pool, HttpService(h)
  PROVE  LoginMoves
<1> DEFINE Ticks == [Pool -> [at : {"idle", "pop", "verify"}, buf : Nat, req : Uids \cup {Nobody}]]
<1>0. TypeOK /\ http \in Ticks
  BY DEF IInv, TypeOK
<1>1. CASE HttpTick(h) \/ HttpTickEnds(h)
  <2>1. UNCHANGED <<queues, free, lost>> /\ seen' = Nothing
    BY <1>1 DEF HttpTick, HttpTickEnds
  <2>2. http[h].at # "verify" /\ http'[h].req = Nobody /\ \A k \in Pool : k # h => http'[k] = http[k]
    BY <1>0, <1>1 DEF HttpTick, HttpTickEnds
  <2>3. \A k \in Pool : http'[k].req = http[k].req
    BY <2>2 DEF WaitingOnly
  <2>4. Logins' = Logins
    BY <1>0, <2>1, <2>3, SameLogins
  <2>5. Stays
    BY <2>1, <2>4 DEF Stays
  <2> QED BY <2>5 DEF LoginMoves
<1>2. PICK L, po, pi, ph :
        L = Logins /\ po = <<"out", h>> /\ pi = <<"in", h>> /\ ph = <<"http", h>>
  OBVIOUS
<1>3. /\ L \in [Places -> Seq(Token)]
      /\ L[ToHttp] = toHttp /\ L[FromHttp] = fromHttp
      /\ \A k \in Pool : /\ L[<<"out", k>>] = out[k] /\ L[<<"in", k>>] = in[k]
                         /\ L[<<"http", k>>] = Carried(http[k].req)
  BY <1>0, <1>2, LoginsType, LoginsAreAt DEF LoginsAt
<1>4. /\ po \in Places /\ pi \in Places /\ ph \in Places
      /\ po # pi /\ po # ph /\ pi # ph /\ po[2] = h /\ pi[2] = h /\ ph[2] = h
      /\ ToHttp \in Places \ {po, pi, ph} /\ FromHttp \in Places \ {po, pi, ph}
  BY <1>2, PlacesAre, Apart
<1>5. ASSUME NEW k \in Pool, k # h
      PROVE  /\ <<"out", k>> \in Places \ {po, pi, ph} /\ <<"in", k>> \in Places \ {po, pi, ph}
             /\ <<"http", k>> \in Places \ {po, pi, ph}
  BY <1>2, <1>5, PlacesAre, Apart
<1>6. CASE HandleMsgUserLogin(h)
  <2>1. /\ out[h] # <<>> /\ out' = [out EXCEPT ![h] = Tail(@)]
        /\ http' = [http EXCEPT ![h] = [at |-> "verify", buf |-> Head(out[h]).len,
                                        req |-> Head(out[h]).uid]]
        /\ UNCHANGED <<toHttp, fromHttp, in, free, lost>> /\ seen' = Nothing
        /\ http[h].at # "verify"
    BY <1>6 DEF HandleMsgUserLogin, CanPop
  <2>2. PICK m : m = [uid |-> Head(out[h]).uid]
    OBVIOUS
  <2>3. m \in Token /\ m.uid = Head(out[h]).uid /\ m.uid \in Uids
    <3>1. Head(out[h]) \in Msg
      BY <1>0, <1>6, PoppedQueue DEF HandleMsgUserLogin, TypeOK
    <3>2. Head(out[h]).uid \in Uids
      BY <3>1, MsgFields
    <3> QED BY <2>2, <3>2 DEF Token
  <2>4. PICK V : V = Popped(L, po)
    OBVIOUS
  <2>5. /\ V \in [Places -> Seq(Token)] /\ V[po] = Tail(out[h])
        /\ \A q \in Places : q # po => V[q] = L[q]
    <3>1. L[po] = out[h]
      BY <1>2, <1>3
    <3>2. L[po] # <<>> /\ L \in [Places -> Seq(Token)] /\ po \in Places
      BY <1>3, <1>4, <2>1, <3>1
    <3> QED BY <2>4, <3>1, <3>2, PoppedAt
  <2>6. PICK W : W = Put(V, ph, m)
    OBVIOUS
  <2>7. /\ W \in [Places -> Seq(Token)] /\ W[ph] = Appended(V[ph], m)
        /\ \A q \in Places : q # ph => W[q] = V[q]
    <3>1. V \in [Places -> Seq(Token)] /\ ph \in Places /\ m \in Token
      BY <1>4, <2>3, <2>5
    <3> QED BY <2>6, <3>1, PutAt
  <2>8. V[ph] = <<>> /\ W[ph] = <<m>> /\ L[ph] = <<>>
    <3>1. L[ph] = <<>>
      BY <1>2, <1>3, <2>1 DEF WaitingOnly, Carried
    <3>2. Appended(<<>>, m) = <<m>>
      BY DEF Appended, CanAppend
    <3> QED BY <1>4, <2>5, <2>7, <3>1, <3>2
  <2>9. W[ToHttp] = toHttp' /\ W[FromHttp] = fromHttp'
    BY <1>3, <1>4, <2>1, <2>5, <2>7
  <2>10. ASSUME NEW k \in Pool
         PROVE  /\ W[<<"out", k>>] = out'[k] /\ W[<<"in", k>>] = in'[k]
                /\ W[<<"http", k>>] = Carried(http'[k].req)
    <3>1. CASE k = h
      <4>1. out'[h] = Tail(out[h]) /\ in'[h] = in[h] /\ http'[h].req = m.uid
        BY <1>0, <2>1, <2>3 DEF TypeOK
      <4>2. W[po] = Tail(out[h]) /\ W[pi] = in[h]
        BY <1>2, <1>3, <1>4, <2>5, <2>7
      <4>3. Carried(m.uid) = <<m>>
        BY <2>2, <2>3 DEF Carried, Uids, Nobody
      <4> QED BY <1>2, <2>8, <3>1, <4>1, <4>2, <4>3
    <3>2. CASE k # h
      <4>1. out'[k] = out[k] /\ in'[k] = in[k] /\ http'[k] = http[k]
        BY <1>0, <2>1, <3>2 DEF TypeOK
      <4>2. /\ W[<<"out", k>>] = L[<<"out", k>>] /\ W[<<"in", k>>] = L[<<"in", k>>]
            /\ W[<<"http", k>>] = L[<<"http", k>>]
        BY <1>5, <2>5, <2>7, <3>2
      <4> QED BY <1>3, <4>1, <4>2
    <3> QED BY <3>1, <3>2
  <2>11. Logins' = Put(Popped(Logins, po), ph, m)
    BY <1>2, <2>4, <2>6, <2>7, <2>9, <2>10, NextLogins
  <2>12. lost' = lost \cup Overflow(Logins[ph])
    BY <1>2, <2>1, <2>8 DEF Overflow, CanAppend
  <2>13. Logins[po] # <<>> /\ m.uid = Head(Logins[po]).uid
    BY <1>2, <1>3, <2>1, <2>3
  <2>14. \A k \in Pool : ~free'[k] => ph[2] = k \/ (~free[k] /\ po[2] # k)
    BY <1>4, <2>1
  <2>15. Moved
    BY <1>4, <2>1, <2>3, <2>11, <2>12, <2>13, <2>14, Zenon DEF Moved
  <2> QED BY <2>15 DEF LoginMoves
<1>7. ASSUME NEW len \in RetLens, Verified(h, len)
      PROVE  LoginMoves
  <2>1. PICK m : m = [uid |-> http[h].req, len |-> len]
    OBVIOUS
  <2>2. /\ in' = [in EXCEPT ![h] = Appended(@, m)]
        /\ http' = [http EXCEPT ![h] = [at |-> "pop", buf |-> @.buf, req |-> Nobody]]
        /\ UNCHANGED <<toHttp, fromHttp, out, free>> /\ seen' = Nothing
        /\ lost' = lost \cup Overflow(in[h])
        /\ http[h].at = "verify"
    BY <1>7, <2>1 DEF Verified
  <2>3. m \in Token /\ m.uid = http[h].req /\ m.uid \in Uids
    <3>1. http[h].req \in Uids
      BY <2>2 DEF IInv, Verifying
    <3> QED BY <2>1, <3>1 DEF Token, Msg
  <2>4. L[ph] = <<[uid |-> m.uid]>>
    <3>1. L[ph] = Carried(m.uid)
      BY <1>2, <1>3, <2>3
    <3>2. m.uid # Nobody
      BY <2>3 DEF Uids, Nobody
    <3> QED BY <3>1, <3>2 DEF Carried
  <2>5. L[ph] # <<>> /\ Head(L[ph]).uid = m.uid /\ Tail(L[ph]) = <<>>
    BY <2>4
  <2>6. PICK V : V = Popped(L, ph)
    OBVIOUS
  <2>7. /\ V \in [Places -> Seq(Token)] /\ V[ph] = <<>>
        /\ \A q \in Places : q # ph => V[q] = L[q]
    BY <1>3, <1>4, <2>5, <2>6, PoppedAt
  <2>8. PICK W : W = Put(V, pi, m)
    OBVIOUS
  <2>9. /\ W \in [Places -> Seq(Token)] /\ W[pi] = Appended(V[pi], m)
        /\ \A q \in Places : q # pi => W[q] = V[q]
    <3>1. V \in [Places -> Seq(Token)] /\ pi \in Places /\ m \in Token
      BY <1>4, <2>3, <2>7
    <3> QED BY <2>8, <3>1, PutAt
  <2>10. W[ToHttp] = toHttp' /\ W[FromHttp] = fromHttp'
    BY <1>3, <1>4, <2>2, <2>7, <2>9
  <2>11. ASSUME NEW k \in Pool
         PROVE  /\ W[<<"out", k>>] = out'[k] /\ W[<<"in", k>>] = in'[k]
                /\ W[<<"http", k>>] = Carried(http'[k].req)
    <3>1. CASE k = h
      <4>1. out'[h] = out[h] /\ in'[h] = Appended(in[h], m) /\ http'[h].req = Nobody
        BY <1>0, <2>2 DEF TypeOK
      <4>2. W[po] = out[h] /\ W[pi] = Appended(in[h], m) /\ W[ph] = <<>>
        BY <1>2, <1>3, <1>4, <2>7, <2>9
      <4> QED BY <1>2, <3>1, <4>1, <4>2 DEF Carried
    <3>2. CASE k # h
      <4>1. out'[k] = out[k] /\ in'[k] = in[k] /\ http'[k] = http[k]
        BY <1>0, <2>2, <3>2 DEF TypeOK
      <4>2. /\ W[<<"out", k>>] = L[<<"out", k>>] /\ W[<<"in", k>>] = L[<<"in", k>>]
            /\ W[<<"http", k>>] = L[<<"http", k>>]
        BY <1>5, <2>7, <2>9, <3>2
      <4> QED BY <1>3, <4>1, <4>2
    <3> QED BY <3>1, <3>2
  <2>12. Logins' = Put(Popped(Logins, ph), pi, m)
    BY <1>2, <2>6, <2>8, <2>9, <2>10, <2>11, NextLogins
  <2>13. lost' = lost \cup Overflow(Logins[pi])
    BY <1>2, <1>3, <2>2
  <2>14. \A k \in Pool : ~free'[k] => pi[2] = k \/ (~free[k] /\ ph[2] # k)
    BY <1>4, <2>2
  <2>15. Moved
    BY <1>2, <1>4, <2>2, <2>3, <2>5, <2>12, <2>13, <2>14, Zenon DEF Moved
  <2> QED BY <2>15 DEF LoginMoves
<1> QED BY <1>1, <1>6, <1>7 DEF HttpService

(* Whatever a step does, it does one of the five things to the logins.     *)
LEMMA NextMoves ==
  ASSUME IInv, WaitingOnly, Next
  PROVE  LoginMoves
BY NetServiceMoves, ManagerMoves, HttpServiceMoves DEF Next

-----------------------------------------------------------------------------
(* Through all queues and services a login stays one login.                *)

Counts(W) == [u \in Uids |-> Load(W, {u})]

(* Taking out a login takes one from its user, who had one.                *)
LEMMA CountsPopped ==
  ASSUME NEW W \in [Places -> Seq(Token)], NEW p \in Places, W[p] # <<>>,
         Len(W[p]) =< QueueCap, NEW w \in Uids, w = Head(W[p]).uid
  PROVE  /\ Counts(W)[w] > 0
         /\ Counts(Popped(W, p)) = [Counts(W) EXCEPT ![w] = @ - 1]
<1>1. ASSUME NEW u \in Uids
      PROVE  Load(Popped(W, p), {u}) = IF u = w THEN Load(W, {u}) - 1 ELSE Load(W, {u})
  <2>1. Load(Popped(W, p), {u}) = IF w \in {u} THEN Load(W, {u}) - 1 ELSE Load(W, {u})
    BY LoadPop
  <2> QED BY <2>1
<1>2. Load(W, {w}) > 0
  <2>1. Load(Popped(W, p), {w}) = Load(W, {w}) - 1
    BY <1>1
  <2>2. Load(Popped(W, p), {w}) \in Nat /\ Load(W, {w}) \in Nat
    BY HeldFinite
  <2> QED BY <2>1, <2>2
<1> QED BY <1>1, <1>2 DEF Counts

(* Putting one at the end of a queue with room gives one to its user.      *)
LEMMA CountsPut ==
  ASSUME NEW W \in [Places -> Seq(Token)], NEW p \in Places, NEW m \in Token, m.uid \in Uids
  PROVE  Counts(Put(W, p, m)) =
           IF CanAppend(W[p]) THEN [Counts(W) EXCEPT ![m.uid] = @ + 1] ELSE Counts(W)
<1>1. ASSUME NEW u \in Uids
      PROVE  Load(Put(W, p, m), {u}) =
               IF CanAppend(W[p]) /\ u = m.uid THEN Load(W, {u}) + 1 ELSE Load(W, {u})
  <2>1. Load(Put(W, p, m), {u}) =
          IF CanAppend(W[p]) /\ m.uid \in {u} THEN Load(W, {u}) + 1 ELSE Load(W, {u})
    BY LoadPut
  <2> QED BY <2>1
<1>2. CASE CanAppend(W[p])
  BY <1>1, <1>2 DEF Counts
<1>3. CASE ~CanAppend(W[p])
  BY <1>1, <1>3 DEF Counts
<1> QED BY <1>2, <1>3

(* A login that moves keeps its user's count, or is lost.                  *)
LEMMA CountsMoved ==
  ASSUME NEW W \in [Places -> Seq(Token)], NEW p \in Places, NEW q \in Places, NEW m \in Token,
         p # q, W[p] # <<>>, Len(W[p]) =< QueueCap, m.uid \in Uids, m.uid = Head(W[p]).uid
  PROVE  /\ Counts(W)[m.uid] > 0
         /\ Counts(Put(Popped(W, p), q, m)) =
              IF CanAppend(W[q]) THEN Counts(W) ELSE [Counts(W) EXCEPT ![m.uid] = @ - 1]
<1>1. PICK V : V = Popped(W, p)
  OBVIOUS
<1>2. V \in [Places -> Seq(Token)] /\ V[q] = W[q]
  BY <1>1, PoppedAt
<1>3. Counts(W)[m.uid] > 0 /\ Counts(V) = [Counts(W) EXCEPT ![m.uid] = @ - 1]
  BY <1>1, CountsPopped
<1>4. Counts(Put(V, q, m)) = IF CanAppend(V[q]) THEN [Counts(V) EXCEPT ![m.uid] = @ + 1] ELSE Counts(V)
  BY <1>2, CountsPut
<1>5. Counts(W) \in [Uids -> Nat]
  BY HeldFinite DEF Counts
<1>6. ASSUME NEW o \in [Uids -> Nat]
      PROVE  [[o EXCEPT ![m.uid] = @ - 1] EXCEPT ![m.uid] = @ + 1] = o
  <2>1. PICK a, b : a = [o EXCEPT ![m.uid] = @ - 1] /\ b = [a EXCEPT ![m.uid] = @ + 1]
    OBVIOUS
  <2>2. /\ b = [u \in Uids |-> b[u]] /\ b[m.uid] = (o[m.uid] - 1) + 1
        /\ \A u \in Uids : u # m.uid => b[u] = o[u]
    BY <2>1
  <2>3. (o[m.uid] - 1) + 1 = o[m.uid]
    <3>1. o[m.uid] \in Nat
      OBVIOUS
    <3> QED BY <3>1
  <2>4. b = o
    BY <2>2, <2>3
  <2> QED BY <2>1, <2>4
<1> QED BY <1>1, <1>2, <1>3, <1>4, <1>5, <1>6

(* What the abstract server owes is what is under way here.                *)
LEMMA OwedIsCounts ==
  /\ [u \in Uids |-> InFlight(u)] = Counts(Logins)
  /\ [u \in Uids |-> InFlight(u)]' = Counts(Logins')
BY DEF Counts, InFlight

(* Nothing is under way at first.                                          *)
LEMMA EmptyAtFirst ==
  ASSUME Init, NEW p \in Places
  PROVE  Logins[p] = <<>>
<1>1. LoginsAt
  BY LoginsAreAt
<1>2. Logins[ToHttp] = <<>> /\ Logins[FromHttp] = <<>>
  BY <1>1 DEF Init, LoginsAt
<1>3. ASSUME NEW h \in Pool
      PROVE  /\ Logins[<<"out", h>>] = <<>> /\ Logins[<<"in", h>>] = <<>>
             /\ Logins[<<"http", h>>] = <<>>
  <2>1. out[h] = <<>> /\ in[h] = <<>> /\ http[h].req = Nobody
    BY DEF Init
  <2> QED BY <1>1, <2>1 DEF LoginsAt, Carried
<1>4. CASE p = ToHttp \/ p = FromHttp
  BY <1>2, <1>4
<1>5. ASSUME NEW h \in Pool, p = <<"out", h>> \/ p = <<"in", h>> \/ p = <<"http", h>>
      PROVE  Logins[p] = <<>>
  BY <1>3, <1>5, Zenon
<1> QED BY <1>4, <1>5, PlacesAre

LEMMA LoginStarts == Init => LoginServer!Init
<1> SUFFICES ASSUME Init PROVE LoginServer!Init
  OBVIOUS
<1>1. PICK L : L = Logins
  OBVIOUS
<1>2. ASSUME NEW p \in Places PROVE L[p] = <<>>
  BY <1>1, EmptyAtFirst
<1>3. ASSUME NEW u \in Uids PROVE Load(L, {u}) = 0
  <2>1. Held(L, {u}) = {}
    BY <1>2 DEF Held
  <2> QED BY <2>1, FS_EmptySet DEF Load
<1>4. [u \in Uids |-> InFlight(u)] = [u \in Uids |-> 0]
  BY <1>1, <1>3 DEF InFlight
<1>5. seen = Nothing
  BY DEF Init
<1> QED BY <1>4, <1>5 DEF LoginServer!Init

LEMMA LoginSteps ==
  ASSUME IInv, WaitingOnly, [Next]_vars
  PROVE  [LoginServer!Next]_(LoginServer!vars)
<1> DEFINE owed == [u \in Uids |-> InFlight(u)]
<1>1. CASE UNCHANGED vars
  <2>1. UNCHANGED <<queues, http, seen>>
    BY <1>1 DEF vars
  <2>2. Logins' = Logins
    BY <2>1, SameLogins DEF IInv
  <2>3. owed' = owed
    BY <2>2, OwedIsCounts
  <2> QED BY <2>1, <2>3 DEF LoginServer!vars
<1>2. CASE Next
  <2>1. PICK L : L = Logins
    OBVIOUS
  <2>2. L \in [Places -> Seq(Token)] /\ (\A p \in Places : Len(L[p]) =< QueueCap)
    BY <2>1, LoginsType DEF IInv
  <2>3. \A m \in Token : m.uid \in Uids
    BY LoginsType DEF IInv
  <2>4. owed = Counts(L) /\ owed' = Counts(Logins')
    BY <2>1, OwedIsCounts
  <2> HIDE DEF owed
  <2>5. CASE Stays
    <3>1. LoginServer!Rest
      BY <2>1, <2>4, <2>5 DEF Stays, LoginServer!Rest, owed
    <3> QED BY <3>1 DEF LoginServer!Next
  <2>6. CASE Sent
    <3>1. PICK m \in Token : Logins' = Put(L, ToHttp, m) /\ seen' = Asked(m.uid)
      BY <2>1, <2>6 DEF Sent
    <3>2. m.uid \in Uids
      BY <2>3
    <3>3. Counts(Put(L, ToHttp, m)) \in {Counts(L), [Counts(L) EXCEPT ![m.uid] = @ + 1]}
      BY <2>2, <3>2, CountsPut, PlacesAre
    <3>4. owed' \in {owed, [owed EXCEPT ![m.uid] = @ + 1]}
      BY <2>4, <3>1, <3>3
    <3>5. LoginServer!Ask(m.uid)
      BY <3>1, <3>4 DEF LoginServer!Ask, owed
    <3> QED BY <3>2, <3>5 DEF LoginServer!Next
  <2>7. CASE Returned
    <3>1. PICK w : w = Head(L[FromHttp]).uid
      OBVIOUS
    <3>2. L[FromHttp] # <<>> /\ Logins' = Popped(L, FromHttp) /\ seen' = Answered(w)
      BY <2>1, <2>7, <3>1 DEF Returned
    <3>3. Head(L[FromHttp]) \in Token
      <4>1. L[FromHttp] \in Seq(Token)
        BY <2>2, PlacesAre
      <4> QED BY <3>2, <4>1
    <3>4. w \in Uids
      BY <2>3, <3>1, <3>3
    <3>5. Counts(L)[w] > 0 /\ Counts(Popped(L, FromHttp)) = [Counts(L) EXCEPT ![w] = @ - 1]
      BY <2>2, <3>1, <3>2, <3>4, CountsPopped, PlacesAre
    <3>6. owed[w] > 0 /\ owed' = [owed EXCEPT ![w] = @ - 1]
      BY <2>4, <3>2, <3>5
    <3>7. LoginServer!Answer(w)
      BY <3>2, <3>6 DEF LoginServer!Answer, LoginServer!Settle, owed
    <3> QED BY <3>4, <3>7 DEF LoginServer!Next
  <2>8. CASE Moved
    <3>1. PICK p \in Places, q \in Places, m \in Token :
            /\ p # q /\ L[p] # <<>> /\ m.uid = Head(L[p]).uid
            /\ Logins' = Put(Popped(L, p), q, m) /\ seen' = Nothing
      BY <2>1, <2>8 DEF Moved
    <3>2. m.uid \in Uids
      BY <2>3
    <3>3. /\ Counts(L)[m.uid] > 0
          /\ Counts(Put(Popped(L, p), q, m)) =
               IF CanAppend(L[q]) THEN Counts(L) ELSE [Counts(L) EXCEPT ![m.uid] = @ - 1]
      BY <2>2, <3>1, <3>2, CountsMoved
    <3>4. CASE CanAppend(L[q])
      <4>1. owed' = owed
        BY <2>4, <3>1, <3>3, <3>4
      <4>2. LoginServer!Rest
        BY <3>1, <4>1 DEF LoginServer!Rest, owed
      <4> QED BY <4>2 DEF LoginServer!Next
    <3>5. CASE ~CanAppend(L[q])
      <4>1. owed[m.uid] > 0 /\ owed' = [owed EXCEPT ![m.uid] = @ - 1]
        BY <2>4, <3>1, <3>3, <3>5
      <4>2. LoginServer!Lose(m.uid)
        BY <3>1, <4>1 DEF LoginServer!Lose, LoginServer!Settle, owed
      <4> QED BY <3>2, <4>2 DEF LoginServer!Next
    <3> QED BY <3>4, <3>5
  <2>9. CASE Refused
    <3>1. PICK w : w = Head(L[ToHttp]).uid
      OBVIOUS
    <3>2. L[ToHttp] # <<>> /\ Logins' = Popped(L, ToHttp) /\ seen' = Nothing
      BY <2>1, <2>9 DEF Refused
    <3>3. Head(L[ToHttp]) \in Token
      <4>1. L[ToHttp] \in Seq(Token)
        BY <2>2, PlacesAre
      <4> QED BY <3>2, <4>1
    <3>4. w \in Uids
      BY <2>3, <3>1, <3>3
    <3>5. Counts(L)[w] > 0 /\ Counts(Popped(L, ToHttp)) = [Counts(L) EXCEPT ![w] = @ - 1]
      BY <2>2, <3>1, <3>2, <3>4, CountsPopped, PlacesAre
    <3>6. owed[w] > 0 /\ owed' = [owed EXCEPT ![w] = @ - 1]
      BY <2>4, <3>2, <3>5
    <3>7. LoginServer!Lose(w)
      BY <3>2, <3>6 DEF LoginServer!Lose, LoginServer!Settle, owed
    <3> QED BY <3>4, <3>7 DEF LoginServer!Next
  <2> QED BY <1>2, <2>5, <2>6, <2>7, <2>8, <2>9, NextMoves DEF LoginMoves
<1> QED BY <1>1, <1>2

(* However requests and replies pass through the queues and services, a    *)
(* login is answered at most once, with the uid of the connection that     *)
(* sent it, or lost where the code drops it.                               *)
THEOREM LoginImplemented == Spec => ImplementsLogin
<1>1. Init => IInv /\ WaitingOnly
  BY InitInv, WaitingStarts
<1>2. IInv /\ WaitingOnly /\ [Next]_vars => (IInv /\ WaitingOnly)'
  BY StepInv, WaitingStep
<1> QED BY <1>1, <1>2, LoginStarts, LoginSteps, PTL DEF Spec, ImplementsLogin, LoginServer!Spec

-----------------------------------------------------------------------------
(* No login is lost while there are no more than services and room.        *)

(* A login waits at an HttpService, or is in its hands.                    *)
Occupied(W, h) == \E p \in Places : p[2] = h /\ W[p] # <<>>

Narrow == MaxOwed =< Https /\ MaxOwed =< QueueCap

(* A service that is not free really has something to do: only then are    *)
(* services enough for the logins.                                         *)
PoolInv ==
  /\ Owed =< MaxOwed
  /\ Narrow => lost = {} /\ \A h \in Pool : free[h] \/ Occupied(Logins, h)

(* Each login in a queue is counted,                                       *)
LEMMA QueueCounts ==
  ASSUME NEW W \in [Places -> Seq(Token)], NEW p \in Places, Len(W[p]) =< QueueCap,
         \A m \in Token : m.uid \in Uids
  PROVE  Len(W[p]) =< Load(W, Uids)
<1> DEFINE f == [i \in 1 .. Len(W[p]) |-> <<p, i>>]
<1>1. PICK n \in Nat : n = Len(W[p]) /\ n =< QueueCap
  OBVIOUS
<1>2. ASSUME NEW i \in 1 .. Len(W[p]) PROVE <<p, i>> \in Held(W, Uids)
  <2>1. W[p] \in Seq(Token)
    OBVIOUS
  <2>2. W[p][i] \in Token /\ i \in 1 .. QueueCap /\ i =< Len(W[p])
    BY <1>1, <2>1
  <2> QED BY <2>2 DEF Held
<1>3. f \in [1 .. Len(W[p]) -> Held(W, Uids)]
  BY <1>2
<1>4. \A i, j \in 1 .. Len(W[p]) : f[i] = f[j] => i = j
  OBVIOUS
<1>5. Cardinality(1 .. Len(W[p])) =< Cardinality(Held(W, Uids))
  <2> HIDE DEF f
  <2> QED BY <1>3, <1>4, HeldFinite, NoMoreThan
<1>6. Cardinality(1 .. Len(W[p])) = Len(W[p])
  <2>1. Cardinality(1 .. n) = IF 1 > n THEN 0 ELSE n - 1 + 1
    BY FS_Interval
  <2>2. (IF 1 > n THEN 0 ELSE n - 1 + 1) = n
    OBVIOUS
  <2> QED BY <1>1, <2>1, <2>2
<1> QED BY <1>5, <1>6 DEF Load

(* and each service that has something to do has a login of its own.       *)
LEMMA OccupiedCounts ==
  ASSUME NEW W \in [Places -> Seq(Token)], \A m \in Token : m.uid \in Uids,
         \A h \in Pool : Occupied(W, h)
  PROVE  Https =< Load(W, Uids)
<1> DEFINE At(h) == CHOOSE p \in Places : p[2] = h /\ W[p] # <<>>
           f     == [h \in Pool |-> <<At(h), 1>>]
<1>1. ASSUME NEW h \in Pool
      PROVE  At(h) \in Places /\ At(h)[2] = h /\ W[At(h)] # <<>>
  BY DEF Occupied
<1>2. ASSUME NEW h \in Pool PROVE <<At(h), 1>> \in Held(W, Uids)
  <2>1. PICK p \in Places : p = At(h) /\ W[p] # <<>>
    BY <1>1
  <2>2. W[p] \in Seq(Token)
    OBVIOUS
  <2>3. W[p][1] \in Token /\ 1 =< Len(W[p]) /\ 1 \in 1 .. QueueCap
    BY <2>1, <2>2
  <2>4. <<p, 1>> \in Held(W, Uids)
    BY <2>3 DEF Held
  <2> QED BY <2>1, <2>4
<1>3. f \in [Pool -> Held(W, Uids)]
  BY <1>2
<1>4. ASSUME NEW h \in Pool, NEW k \in Pool, f[h] = f[k] PROVE h = k
  <2>1. <<At(h), 1>> = <<At(k), 1>>
    BY <1>4
  <2>2. At(h) = At(k)
    BY <2>1
  <2> QED BY <1>1, <2>2
<1>5. Cardinality(Pool) =< Cardinality(Held(W, Uids))
  <2> HIDE DEF f
  <2> QED BY <1>3, <1>4, HeldFinite, NoMoreThan
<1>6. Cardinality(Pool) = Https
  <2>1. Cardinality(1 .. Https) = IF 1 > Https THEN 0 ELSE Https - 1 + 1
    BY FS_Interval
  <2>2. (IF 1 > Https THEN 0 ELSE Https - 1 + 1) = Https
    OBVIOUS
  <2> QED BY <2>1, <2>2 DEF Pool
<1> QED BY <1>5, <1>6 DEF Load

LEMMA PoolStarts == Init => PoolInv
<1> SUFFICES ASSUME Init PROVE PoolInv
  OBVIOUS
<1>1. PICK L : L = Logins
  OBVIOUS
<1>2. ASSUME NEW p \in Places PROVE L[p] = <<>>
  BY <1>1, EmptyAtFirst
<1>3. Owed = 0
  <2>1. Held(L, Uids) = {}
    BY <1>2 DEF Held
  <2> QED BY <1>1, <2>1, FS_EmptySet DEF Owed, Load
<1> QED BY <1>3 DEF Init, PoolInv

(* Taking a login out leaves room for it in every queue it may go to.      *)
LEMMA RoomForOne ==
  ASSUME NEW W \in [Places -> Seq(Token)], \A p \in Places : Len(W[p]) =< QueueCap,
         \A m \in Token : m.uid \in Uids, NEW p \in Places, W[p] # <<>>,
         Load(W, Uids) =< MaxOwed
  PROVE  /\ Load(Popped(W, p), Uids) = Load(W, Uids) - 1
         /\ Narrow => \A q \in Places : q # p => CanAppend(W[q])
<1>1. PICK V : V = Popped(W, p)
  OBVIOUS
<1>2. V \in [Places -> Seq(Token)] /\ \A q \in Places : q # p => V[q] = W[q]
  BY <1>1, PoppedAt
<1>3. Head(W[p]).uid \in Uids
  <2>1. W[p] \in Seq(Token)
    OBVIOUS
  <2>2. Head(W[p]) \in Token
    BY <2>1
  <2> QED BY <2>2
<1>4. Load(V, Uids) = Load(W, Uids) - 1
  BY <1>1, <1>3, LoadPop
<1>5. ASSUME Narrow, NEW q \in Places, q # p
      PROVE  CanAppend(W[q])
  <2>1. Len(W[q]) =< Load(V, Uids)
    BY <1>2, <1>5, QueueCounts
  <2>2. W[q] \in Seq(Token)
    OBVIOUS
  <2>3. Len(W[q]) \in Nat /\ Load(W, Uids) \in Nat
    BY <2>2, HeldFinite
  <2>4. Len(W[q]) < QueueCap
    BY <1>4, <1>5, <2>1, <2>3 DEF Narrow
  <2> QED BY <2>4 DEF CanAppend
<1> QED BY <1>1, <1>4, <1>5

LEMMA PoolStep ==
  ASSUME IInv, WaitingOnly, PoolInv, [Next]_vars
  PROVE  PoolInv'
<1>1. PICK L, N : L = Logins /\ N = Logins'
  OBVIOUS
<1>2. L \in [Places -> Seq(Token)] /\ (\A p \in Places : Len(L[p]) =< QueueCap)
  BY <1>1, LoginsType DEF IInv
<1>3. \A m \in Token : m.uid \in Uids
  BY LoginsType DEF IInv
<1>4. /\ Load(L, Uids) =< MaxOwed /\ Load(L, Uids) \in Nat
      /\ Narrow => lost = {} /\ \A h \in Pool : free[h] \/ Occupied(L, h)
  BY <1>1, HeldFinite DEF PoolInv, Owed
<1>5. SUFFICES /\ Load(N, Uids) =< MaxOwed
               /\ Narrow => lost' = {} /\ \A h \in Pool : free'[h] \/ Occupied(N, h)
  <2>1. Owed' = Load(N, Uids)
    BY <1>1 DEF Owed
  <2>2. \A h : Occupied(Logins, h)' <=> Occupied(N, h)
    BY <1>1 DEF Occupied
  <2> QED BY <2>1, <2>2 DEF PoolInv, Narrow
<1>6. \A h \in Pool : ToHttp[2] # h /\ FromHttp[2] # h
  BY Apart DEF Pool, Nobody
<1>7. CASE UNCHANGED vars
  <2>1. UNCHANGED <<queues, http, free, lost>>
    BY <1>7 DEF vars
  <2>2. N = L
    BY <1>1, <2>1, SameLogins DEF IInv
  <2> QED BY <1>4, <2>1, <2>2
<1>8. CASE Stays
  BY <1>1, <1>4, <1>8 DEF Stays
<1>9. CASE Sent
  <2>1. PICK m \in Token : N = Put(L, ToHttp, m)
    BY <1>1, <1>9 DEF Sent
  <2>2. Load(L, Uids) < MaxOwed /\ lost' = lost \cup Overflow(L[ToHttp]) /\ free' = free
    BY <1>1, <1>9 DEF Sent, Owed
  <2>3. Load(N, Uids) = IF CanAppend(L[ToHttp]) /\ m.uid \in Uids THEN Load(L, Uids) + 1 ELSE Load(L, Uids)
    BY <1>2, <2>1, LoadPut, PlacesAre
  <2>4. Load(N, Uids) =< MaxOwed
    BY <1>4, <2>2, <2>3
  <2>5. ASSUME Narrow PROVE lost' = {}
    <3>1. Len(L[ToHttp]) =< Load(L, Uids)
      BY <1>2, <1>3, QueueCounts, PlacesAre
    <3>2. Len(L[ToHttp]) \in Nat
      <4>1. L[ToHttp] \in Seq(Token)
        BY <1>2, PlacesAre
      <4> QED BY <4>1
    <3>3. CanAppend(L[ToHttp])
      BY <1>4, <2>2, <2>5, <3>1, <3>2 DEF Narrow, CanAppend
    <3> QED BY <1>4, <2>2, <2>5, <3>3 DEF Overflow
  <2>6. ASSUME NEW h \in Pool, Occupied(L, h) PROVE Occupied(N, h)
    <3>1. PICK p \in Places : p[2] = h /\ L[p] # <<>>
      BY <2>6 DEF Occupied
    <3>2. N[p] = L[p]
      <4>1. ToHttp \in Places /\ p # ToHttp
        BY <1>6, <3>1, PlacesAre
      <4> QED BY <1>2, <2>1, <4>1, PutAt
    <3> QED BY <3>1, <3>2 DEF Occupied
  <2> QED BY <1>4, <2>2, <2>4, <2>5, <2>6
<1>10. CASE Returned
  <2>1. L[FromHttp] # <<>> /\ N = Popped(L, FromHttp) /\ lost' = lost /\ free' = free
    BY <1>1, <1>10 DEF Returned
  <2>2. Load(N, Uids) = Load(L, Uids) - 1
    BY <1>2, <1>3, <1>4, <2>1, RoomForOne, PlacesAre
  <2>3. ASSUME NEW h \in Pool, Occupied(L, h) PROVE Occupied(N, h)
    <3>1. PICK p \in Places : p[2] = h /\ L[p] # <<>>
      BY <2>3 DEF Occupied
    <3>2. N[p] = L[p]
      <4>1. FromHttp \in Places /\ p # FromHttp
        BY <1>6, <3>1, PlacesAre
      <4> QED BY <1>2, <2>1, <4>1, PoppedAt
    <3> QED BY <3>1, <3>2 DEF Occupied
  <2> QED BY <1>4, <2>1, <2>2, <2>3
<1>11. CASE Moved
  <2>1. PICK p \in Places, q \in Places, m \in Token :
          /\ p # q /\ L[p] # <<>>
          /\ N = Put(Popped(L, p), q, m)
          /\ lost' = lost \cup Overflow(L[q])
          /\ \A h \in Pool : ~free'[h] => q[2] = h \/ (~free[h] /\ p[2] # h)
    BY <1>1, <1>11 DEF Moved
  <2>2. PICK V : V = Popped(L, p)
    OBVIOUS
  <2>3. V \in [Places -> Seq(Token)] /\ \A r \in Places : r # p => V[r] = L[r]
    BY <1>2, <2>1, <2>2, PoppedAt
  <2>4. Load(V, Uids) = Load(L, Uids) - 1 /\ (Narrow => CanAppend(L[q]))
    BY <1>2, <1>3, <1>4, <2>1, <2>2, RoomForOne
  <2>5. Load(N, Uids) = IF CanAppend(V[q]) /\ m.uid \in Uids THEN Load(V, Uids) + 1 ELSE Load(V, Uids)
    BY <2>1, <2>2, <2>3, LoadPut
  <2>6. Load(N, Uids) =< MaxOwed
    BY <1>4, <2>4, <2>5
  <2>7. N[q] = Appended(V[q], m) /\ \A r \in Places : r # q => N[r] = V[r]
    BY <2>1, <2>2, <2>3, PutAt
  <2>8. ASSUME Narrow, NEW h \in Pool, ~free'[h]
        PROVE  Occupied(N, h)
    <3>1. CASE q[2] = h
      <4>1. V[q] = L[q] /\ CanAppend(L[q]) /\ V[q] \in Seq(Token)
        BY <2>1, <2>3, <2>4, <2>8
      <4>2. N[q] = Append(V[q], m)
        BY <2>7, <4>1 DEF Appended
      <4>3. N[q] # <<>>
        BY <4>1, <4>2
      <4> QED BY <3>1, <4>3 DEF Occupied
    <3>2. CASE q[2] # h
      <4>1. ~free[h] /\ p[2] # h
        BY <2>1, <2>8, <3>2
      <4>2. PICK r \in Places : r[2] = h /\ L[r] # <<>>
        BY <1>4, <2>8, <4>1 DEF Occupied
      <4>3. N[r] = L[r]
        BY <2>3, <2>7, <3>2, <4>1, <4>2
      <4> QED BY <4>2, <4>3 DEF Occupied
    <3> QED BY <3>1, <3>2
  <2>9. Narrow => lost' = {}
    BY <1>4, <2>1, <2>4 DEF Overflow
  <2> QED BY <2>6, <2>8, <2>9
<1>12. CASE Refused
  <2>1. L[ToHttp] # <<>> /\ N = Popped(L, ToHttp) /\ \A h \in Pool : ~free[h]
    BY <1>1, <1>12 DEF Refused
  <2>2. Load(N, Uids) = Load(L, Uids) - 1
    BY <1>2, <1>3, <1>4, <2>1, RoomForOne, PlacesAre
  <2>3. N \in [Places -> Seq(Token)] /\ \A r \in Places : r # ToHttp => N[r] = L[r]
    BY <1>2, <2>1, PoppedAt, PlacesAre
  <2>4. ASSUME Narrow PROVE FALSE
    <3>1. ASSUME NEW h \in Pool PROVE Occupied(N, h)
      <4>1. PICK p \in Places : p[2] = h /\ L[p] # <<>>
        BY <1>4, <2>1, <2>4 DEF Occupied
      <4>2. N[p] = L[p]
        BY <1>6, <2>3, <4>1
      <4> QED BY <4>1, <4>2 DEF Occupied
    <3>2. Https =< Load(N, Uids)
      BY <1>3, <2>3, <3>1, OccupiedCounts
    <3> QED BY <1>4, <2>2, <2>4, <3>2 DEF Narrow
  <2> QED BY <1>4, <2>2, <2>4
<1> QED BY <1>7, <1>8, <1>9, <1>10, <1>11, <1>12, NextMoves DEF LoginMoves

(* With no more logins under way than HttpServices, and no more than a     *)
(* channel holds, none is dropped: not for want of room, and not because   *)
(* every service is taken for busy, for then each has a login of its own   *)
(* and the one in the manager's hands would be one too many.               *)
THEOREM NoneLostKept == Spec => []NoneLostWithinPool
<1>1. Init => IInv /\ WaitingOnly /\ PoolInv
  BY InitInv, WaitingStarts, PoolStarts
<1>2. IInv /\ WaitingOnly /\ PoolInv /\ [Next]_vars => (IInv /\ WaitingOnly /\ PoolInv)'
  BY StepInv, WaitingStep, PoolStep
<1>3. PoolInv => NoneLostWithinPool
  BY DEF PoolInv, NoneLostWithinPool, Narrow
<1> QED BY <1>1, <1>2, <1>3, PTL DEF Spec
=============================================================================
