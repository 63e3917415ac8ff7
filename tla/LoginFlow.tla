----------------------------- MODULE LoginFlow ------------------------------
(***************************************************************************)
(* A login on its way through the services of the demo server and back.    *)
(*                                                                         *)
(* NetService decodes the packet of a connection and appends a request,    *)
(* with the connection's uid, to the output queue of channel 200.          *)
(* HttpManagerService takes it out and hands it to the first HttpService   *)
(* it thinks free, through that service's own channel.  The HttpService    *)
(* asks a web server, which may take a minute, and appends a reply to its  *)
(* input queue; HttpManagerService takes it to the input queue of channel  *)
(* 200, where NetService finds it and looks the uid up among the users.    *)
(*                                                                         *)
(* A service runs one Tick at a time (ServiceManager) and a queue is a     *)
(* FIFO of whole messages (MsgQueue); here each pop and what is done with  *)
(* the message is one step, and the services' steps interleave.  Every     *)
(* receiver passes the same bufSize to all the pops of a Tick: pop sets it *)
(* to the length it copied and refuses a message that is longer.           *)
(*                                                                         *)
(* X_How is X with a plausible mistake in it, to try the properties on.    *)
(***************************************************************************)
EXTENDS Integers, Sequences, FiniteSets

CONSTANTS
  MaxConn,   (* MAX_CLIENT_CONNECTION, the connections in the pool         *)
  MaxUid,    (* bound on the uids given out                                *)
  Https,     (* number of HttpServices                                     *)
  QueueCap,  (* messages a queue of a channel has room for                 *)
  BufSize,   (* the buffer of a Tick, 2048 bytes                           *)
  ReqLens,   (* lengths of requests                                        *)
  RetLens,   (* lengths of replies                                         *)
  MaxOwed    (* bound on the logins under way at a time                    *)

ASSUME LoginAssumption ==
  /\ MaxConn \in Nat \ {0} /\ MaxUid \in Nat \ {0} /\ Https \in Nat \ {0}
  /\ QueueCap \in Nat \ {0} /\ BufSize \in Nat /\ MaxOwed \in Nat
  /\ ReqLens \subseteq Nat \ {0} /\ RetLens \subseteq 1 .. BufSize

Conns  == 1 .. MaxConn
Uids   == 1 .. MaxUid
Pool   == 1 .. Https
Nobody == 0

(* The first of a set of positions, if it has any.                         *)
First(S) == {x \in S : \A y \in S : x =< y}

Nothing     == <<"nothing", Nobody>>
Asked(u)    == <<"asked", u>>
Answered(u) == <<"answered", u>>

Msg    == [uid : Uids, len : ReqLens \cup RetLens]

VARIABLES
  status,   (* m_nStatus of each connection                                *)
  uidOf,    (* m_nUID of each connection                                   *)
  online,   (* m_kOnlineUser: the connection of a uid, or Nobody           *)
  nextUid,  (* m_uIDGenerator                                              *)
  toHttp,   (* channel 200, output queue: requests                         *)
  fromHttp, (* channel 200, input queue: replies                           *)
  out,      (* the output queue of each HttpService's channel              *)
  in,       (* its input queue                                             *)
  free,     (* its m_bFree                                                 *)
  net,      (* NetService's Tick: its part and its bufSize                 *)
  mgr,      (* HttpManagerService's Tick: part, bufSize and pool position  *)
  http,     (* each HttpService's Tick: part, bufSize and request          *)
  seen,     (* history: the login just sent, or just answered              *)
  lost      (* history: why logins were lost                               *)

conns  == <<status, uidOf, online, nextUid>>
queues == <<toHttp, fromHttp, out, in>>
vars   == <<conns, queues, free, net, mgr, http, seen, lost>>

Idle == [at |-> "idle", buf |-> 0]

Init ==
  /\ status = [c \in Conns |-> "UNUSED"]
  /\ uidOf = [c \in Conns |-> Nobody]
  /\ online = [u \in Uids |-> Nobody]
  /\ nextUid = 1
  /\ toHttp = <<>> /\ fromHttp = <<>>
  /\ out = [h \in Pool |-> <<>>] /\ in = [h \in Pool |-> <<>>]
  /\ free = [h \in Pool |-> TRUE]
  /\ net = Idle
  /\ mgr = [at |-> "idle", buf |-> 0, i |-> 1]
  /\ http = [h \in Pool |-> [at |-> "idle", buf |-> 0, req |-> Nobody]]
  /\ seen = Nothing
  /\ lost = {}

-----------------------------------------------------------------------------
(* MessageChannel: append fails when the queue is full, pop when it is     *)
(* empty or the oldest message is longer than the buffer.                  *)

CanAppend(q) == Len(q) < QueueCap

(* Faulty: the room in the queue is not looked at.                         *)
Appended_Unchecked(q, m) == Append(q, m)

Appended(q, m) == IF CanAppend(q) THEN Append(q, m) ELSE q

Overflow(q) == IF CanAppend(q) THEN {} ELSE {"full"}

CanPop(q, buf) == q # <<>> /\ Head(q).len =< buf

(* Where a login may be: in a queue, or with an HttpService.               *)
Places == ({"toHttp", "fromHttp"} \X {Nobody}) \cup ({"out", "in", "http"} \X Pool)

(* The logins at each place, oldest first.                                 *)
Logins ==
  [p \in Places |->
     CASE p[1] = "toHttp"   -> toHttp
       [] p[1] = "fromHttp" -> fromHttp
       [] p[1] = "out"      -> out[p[2]]
       [] p[1] = "in"       -> in[p[2]]
       [] OTHER -> IF http[p[2]].req = Nobody THEN <<>> ELSE <<[uid |-> http[p[2]].req]>>]

(* How many of the logins at those places are of uids in U.                *)
Held(logins, U) ==
  {x \in Places \X (1 .. QueueCap) :
     x[2] =< Len(logins[x[1]]) /\ logins[x[1]][x[2]].uid \in U}
Load(logins, U) == Cardinality(Held(logins, U))

(* The logins of u under way, and all of them.                             *)
InFlight(u) == Load(Logins, {u})
Owed        == Load(Logins, Uids)

-----------------------------------------------------------------------------
(* NetService: TickNetwork, then TickHttpMsg.                              *)

(* ConnectionPool::get_idle_connect.                                       *)
IdleConns == {c \in Conns : status[c] = "UNUSED"}

(* OnNewConnec; a client that finds no idle connection is turned away.     *)
OnNewConnec ==
  /\ net.at = "idle"
  /\ nextUid =< MaxUid
  /\ \E c \in First(IdleConns) :
       /\ status' = [status EXCEPT ![c] = "CONNECTED"]
       /\ uidOf' = [uidOf EXCEPT ![c] = nextUid]
       /\ online' = [online EXCEPT ![nextUid] = c]
  /\ nextUid' = nextUid + 1
  /\ UNCHANGED <<queues, free, net, mgr, http, lost>>
  /\ seen' = Nothing

(* Faulty: the connection goes back to the pool, the user stays.           *)
Dropped_StaysOnline(c) ==
  /\ status' = [status EXCEPT ![c] = "UNUSED"]
  /\ UNCHANGED <<uidOf, online, nextUid>>

(* OnDisConnect takes the connection out of the users and gives it back.   *)
Dropped(c) ==
  /\ online' = [online EXCEPT ![uidOf[c]] = Nobody]
  /\ status' = [status EXCEPT ![c] = "UNUSED"]
  /\ UNCHANGED <<uidOf, nextUid>>

OnDisConnect(c) ==
  /\ net.at = "idle"
  /\ status[c] # "UNUSED"
  /\ Dropped(c)
  /\ UNCHANGED <<queues, free, net, mgr, http, lost>>
  /\ seen' = Nothing

(* HandlePacketUserLogin: a second login on a connection is handled like   *)
(* the first; SendMsgToHttp ignores a failed append.                       *)
HandlePacketUserLogin(c, len) ==
  /\ net.at = "idle"
  /\ status[c] # "UNUSED"
  /\ Owed < MaxOwed
  /\ status' = [status EXCEPT ![c] = "VERIFYING"]
  /\ toHttp' = Appended(toHttp, [uid |-> uidOf[c], len |-> len])
  /\ lost' = lost \cup Overflow(toHttp)
  /\ UNCHANGED <<uidOf, online, nextUid, fromHttp, out, in, free, net, mgr, http>>
  /\ seen' = Asked(uidOf[c])

TickHttpMsg ==
  /\ net.at = "idle"
  /\ net' = [at |-> "replies", buf |-> BufSize]
  /\ UNCHANGED <<conns, queues, free, mgr, http, lost>>
  /\ seen' = Nothing

(* HandleMsgUserLoginRet: sending the answer may fail, and disconnect.     *)
HandleMsgUserLoginRet ==
  LET u == Head(fromHttp).uid IN
  /\ net.at = "replies"
  /\ CanPop(fromHttp, net.buf)
  /\ fromHttp' = Tail(fromHttp)
  /\ net' = [net EXCEPT !.buf = Head(fromHttp).len]
  /\ seen' = Answered(u)
  /\ \/ UNCHANGED conns
     \/ online[u] # Nobody /\ Dropped(online[u])
  /\ UNCHANGED <<toHttp, out, in, free, mgr, http, lost>>

NetTickEnds ==
  /\ net.at = "replies"
  /\ ~CanPop(fromHttp, net.buf)
  /\ net' = Idle
  /\ UNCHANGED <<conns, queues, free, mgr, http, lost>>
  /\ seen' = Nothing

NetService ==
  \/ OnNewConnec \/ TickHttpMsg \/ HandleMsgUserLoginRet \/ NetTickEnds
  \/ \E c \in Conns : OnDisConnect(c) \/ \E len \in ReqLens : HandlePacketUserLogin(c, len)

-----------------------------------------------------------------------------
(* HttpManagerService::Tick: requests first, then each service's replies.  *)

(* Faulty: it ends at the first service that has no reply.                 *)
NextHttp_StopsAtFirst(m) == [at |-> "idle", buf |-> 0, i |-> 1]

(* The Tick goes on with the next HttpService, and ends after the last.    *)
NextHttp(m) ==
  IF m.i < Https THEN [m EXCEPT !.i = @ + 1] ELSE [at |-> "idle", buf |-> 0, i |-> 1]

ManagerTick ==
  /\ mgr.at = "idle"
  /\ mgr' = [at |-> "requests", buf |-> BufSize, i |-> 1]
  /\ UNCHANGED <<conns, queues, free, net, http, lost>>
  /\ seen' = Nothing

(* The first HttpService that IsFree gets the request, and is marked busy  *)
(* whether or not its queue had room; if none is, the request is dropped.  *)
FreeHttps == {h \in Pool : free[h]}

DispatchRequest ==
  LET m == Head(toHttp) IN
  /\ mgr.at = "requests"
  /\ CanPop(toHttp, mgr.buf)
  /\ toHttp' = Tail(toHttp)
  /\ mgr' = [mgr EXCEPT !.buf = m.len]
  /\ \/ \E h \in First(FreeHttps) :
          /\ out' = [out EXCEPT ![h] = Appended(@, m)]
          /\ free' = [free EXCEPT ![h] = FALSE]
          /\ lost' = lost \cup Overflow(out[h])
     \/ FreeHttps = {} /\ lost' = lost \cup {"busy"} /\ UNCHANGED <<out, free>>
  /\ UNCHANGED <<conns, fromHttp, in, net, http>>
  /\ seen' = Nothing

RequestsEnd ==
  /\ mgr.at = "requests"
  /\ ~CanPop(toHttp, mgr.buf)
  /\ mgr' = [mgr EXCEPT !.at = "replies"]
  /\ UNCHANGED <<conns, queues, free, net, http, lost>>
  /\ seen' = Nothing

(* Faulty: a service that got a request is never free again.               *)
ForwardReply_StaysBusy ==
  LET h == mgr.i IN
  /\ mgr.at = "replies"
  /\ IF CanPop(in[h], mgr.buf)
     THEN /\ in' = [in EXCEPT ![h] = Tail(@)]
          /\ mgr' = [mgr EXCEPT !.buf = Head(in[h]).len]
          /\ fromHttp' = Appended(fromHttp, Head(in[h]))
          /\ lost' = lost \cup Overflow(fromHttp)
     ELSE /\ mgr' = NextHttp(mgr)
          /\ UNCHANGED <<in, fromHttp, lost>>
  /\ UNCHANGED <<conns, toHttp, out, free, net, http>>
  /\ seen' = Nothing

(* HttpService::RecvMessasgeInput marks the service free, and then pops.   *)
ForwardReply ==
  LET h == mgr.i IN
  /\ mgr.at = "replies"
  /\ free' = [free EXCEPT ![h] = TRUE]
  /\ IF CanPop(in[h], mgr.buf)
     THEN /\ in' = [in EXCEPT ![h] = Tail(@)]
          /\ mgr' = [mgr EXCEPT !.buf = Head(in[h]).len]
          /\ fromHttp' = Appended(fromHttp, Head(in[h]))
          /\ lost' = lost \cup Overflow(fromHttp)
     ELSE /\ mgr' = NextHttp(mgr)
          /\ UNCHANGED <<in, fromHttp, lost>>
  /\ UNCHANGED <<conns, toHttp, out, net, http>>
  /\ seen' = Nothing

Manager == ManagerTick \/ DispatchRequest \/ RequestsEnd \/ ForwardReply

-----------------------------------------------------------------------------
(* HttpService::Tick: one request after the other.                         *)

HttpTick(h) ==
  /\ http[h].at = "idle"
  /\ http' = [http EXCEPT ![h] = [at |-> "pop", buf |-> BufSize, req |-> Nobody]]
  /\ UNCHANGED <<conns, queues, free, net, mgr, lost>>
  /\ seen' = Nothing

HandleMsgUserLogin(h) ==
  /\ http[h].at = "pop"
  /\ CanPop(out[h], http[h].buf)
  /\ out' = [out EXCEPT ![h] = Tail(@)]
  /\ http' = [http EXCEPT ![h] = [at |-> "verify", buf |-> Head(out[h]).len,
                                  req |-> Head(out[h]).uid]]
  /\ UNCHANGED <<conns, toHttp, fromHttp, in, free, net, mgr, lost>>
  /\ seen' = Nothing

HttpTickEnds(h) ==
  /\ http[h].at = "pop"
  /\ ~CanPop(out[h], http[h].buf)
  /\ http' = [http EXCEPT ![h] = [at |-> "idle", buf |-> 0, req |-> Nobody]]
  /\ UNCHANGED <<conns, queues, free, net, mgr, lost>>
  /\ seen' = Nothing

(* Faulty: a failed transfer is tried again, and its reply is sent as well. *)
Verified_TriesAgain(h, len) ==
  /\ http[h].at = "verify"
  /\ in' = [in EXCEPT ![h] = Appended(@, [uid |-> http[h].req, len |-> len])]
  /\ lost' = lost \cup Overflow(in[h])
  /\ UNCHANGED <<conns, toHttp, fromHttp, out, free, net, mgr, http>>
  /\ seen' = Nothing

(* Verify: every outcome of the transfer and of parsing makes a reply.     *)
Verified(h, len) ==
  /\ http[h].at = "verify"
  /\ in' = [in EXCEPT ![h] = Appended(@, [uid |-> http[h].req, len |-> len])]
  /\ lost' = lost \cup Overflow(in[h])
  /\ http' = [http EXCEPT ![h] = [at |-> "pop", buf |-> @.buf, req |-> Nobody]]
  /\ UNCHANGED <<conns, toHttp, fromHttp, out, free, net, mgr>>
  /\ seen' = Nothing

HttpService(h) ==
  \/ HttpTick(h) \/ HandleMsgUserLogin(h) \/ HttpTickEnds(h)
  \/ \E len \in RetLens : Verified(h, len)

-----------------------------------------------------------------------------
Next == NetService \/ Manager \/ \E h \in Pool : HttpService(h)

Spec == Init /\ [][Next]_vars

(* Every service is ticked again and again, and a Tick runs to its end.    *)
FairSpec ==
  /\ Spec
  /\ WF_vars(TickHttpMsg \/ HandleMsgUserLoginRet \/ NetTickEnds)
  /\ WF_vars(Manager)
  /\ \A h \in Pool : WF_vars(HttpService(h))

-----------------------------------------------------------------------------
(* Properties.                                                             *)

Queue == {q \in Seq(Msg) : Len(q) =< QueueCap}

(* The tables, the queues and the three Ticks stay in their types; a queue *)
(* never holds more than it has room for.                                  *)
TypeOK ==
  /\ status \in [Conns -> {"UNUSED", "CONNECTED", "VERIFYING"}]
  /\ uidOf \in [Conns -> Uids \cup {Nobody}]
  /\ online \in [Uids -> Conns \cup {Nobody}]
  /\ nextUid \in 1 .. MaxUid + 1
  /\ toHttp \in Queue /\ fromHttp \in Queue
  /\ out \in [Pool -> Queue] /\ in \in [Pool -> Queue]
  /\ free \in [Pool -> BOOLEAN]
  /\ net \in [at : {"idle", "replies"}, buf : Nat]
  /\ mgr \in [at : {"idle", "requests", "replies"}, buf : Nat, i : Pool]
  /\ http \in [Pool -> [at : {"idle", "pop", "verify"}, buf : Nat, req : Uids \cup {Nobody}]]
  /\ seen \in {Nothing} \cup {Asked(u) : u \in Uids} \cup {Answered(u) : u \in Uids}
  /\ lost \subseteq {"full", "busy"}

(* The users and the connections in use are each other's inverse, although *)
(* connections are reused while replies for their earlier uids are still   *)
(* under way: a reply that finds its uid goes to the client that asked,    *)
(* and OnDisConnect's assertion always finds its user.                     *)
OnlineIsConnected ==
  /\ \A u \in Uids : online[u] # Nobody => /\ status[online[u]] # "UNUSED"
                                           /\ uidOf[online[u]] = u
  /\ \A c \in Conns : status[c] # "UNUSED" => online[uidOf[c]] = c

(* Through all queues and services a login stays one login: it is answered *)
(* at most once, with the uid it was sent with, or lost where the code     *)
(* drops it.                                                               *)
LoginServer == INSTANCE LoginService WITH owed <- [u \in Uids |-> InFlight(u)]
ImplementsLogin == LoginServer!Spec

(* As long as no more logins are under way than there are HttpServices,    *)
(* and no more than a channel has room for, none is dropped, however the   *)
(* Ticks interleave and however often a busy service is taken for a free   *)
(* one.                                                                    *)
NoneLostWithinPool ==
  MaxOwed =< Https /\ MaxOwed =< QueueCap => lost = {}

(* "Mind the multithreading in IsFree here" (HttpManagerService.cpp:91): a *)
(* service that says it is free has no request waiting or in progress.     *)
FreeMeansIdle ==
  \A h \in Pool : free[h] => out[h] = <<>> /\ http[h].req = Nobody

(* A login that nobody overtakes is handled by NetService in the end: as   *)
(* soon as no newer ones are sent it does not stay behind in a queue,      *)
(* blocked by another message or by the length of the last message popped, *)
(* which bufSize keeps for the rest of a Tick.                             *)
ReturnsUnlessOvertaken ==
  \A u \in Uids :
    InFlight(u) > 0 ~> seen = Answered(u) \/ \E v \in Uids : seen = Asked(v)

(* "Receive the messages of the HttpServices and forward them"             *)
(* (HttpManagerService.cpp:102): every reply, and with it every login.     *)
EveryLoginReturns ==
  \A u \in Uids : InFlight(u) > 0 ~> seen = Answered(u)

=============================================================================
