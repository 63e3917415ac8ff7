---------------------------- MODULE ServerSocket ----------------------------
(***************************************************************************)
(* NetService's side of the network: the listening ServerSocket, the pool  *)
(* of connections it hands out, and the client list that recv watches.     *)
(*                                                                         *)
(* A Tick opens the socket if it is not open; otherwise it accepts up to   *)
(* MaxAccept peers, selects over the client list and polls the entries one *)
(* by one.  Then it handles replies, and a send that fails drops a         *)
(* connection.  Peers arrive, send and leave at any moment.  A connection  *)
(* that is dropped goes back to the pool at once and keeps its entries in  *)
(* the list until a later recv erases the entries that are not valid; if   *)
(* it has been handed out again by then they stay.                         *)
(*                                                                         *)
(* valid() asks for a descriptor and for tcp_status_connected; set_fd and  *)
(* close change both together, so the descriptor stands for both here.     *)
(* FD_ISSET of an entry dropped earlier in the same poll is undefined, but *)
(* whatever it answers recv_ex returns at once, as close has cleared the   *)
(* connection's callback.                                                  *)
(*                                                                         *)
(* The process has a limit of descriptors, which others than NetService    *)
(* open and close as well, and an fd_set has room for SetSize of them.     *)
(* FD_SET of a larger one writes behind the set: the model stops there     *)
(* ("overrun").                                                            *)
(*                                                                         *)
(* X_How is X with a plausible mistake in it, to try the properties on.    *)
(***************************************************************************)
EXTENDS Integers, Sequences, FiniteSets, FiniteSetsExt

CONSTANTS
  MaxConn,    (* MAX_CLIENT_CONNECTION, the connections in the pool        *)
  Fds,        (* descriptors the process may have                          *)
  MaxOthers,  (* bound on those that others than NetService have           *)
  SetSize,    (* FD_SETSIZE: a set has room for the descriptors below it   *)
  MaxAccept,  (* the argument of accept_ex, 10                             *)
  MaxPeers,   (* bound on the peers that ever arrive                       *)
  FailsAt,    (* where open may fail: in socket, or later                  *)
  MaxFails    (* bound on its failures                                     *)

ASSUME SocketAssumption ==
  /\ MaxConn \in Nat \ {0} /\ Fds \in Nat /\ MaxOthers \in Nat /\ SetSize \in Nat
  /\ MaxAccept \in Nat \ {0} /\ MaxPeers \in Nat /\ MaxFails \in Nat
  /\ FailsAt \subseteq {"socket", "later"}

Conns       == 1 .. MaxConn
Descriptors == 1 .. Fds
Invalid     == 0

VARIABLES
  listenFd,   (* m_socket_fd of the listening socket                       *)
  onConnect,  (* m_funOnConnect is set                                     *)
  fails,      (* how often open has failed                                 *)
  backlog,    (* peers not yet accepted: whether each address is welcome   *)
  arrived,    (* peers that have ever arrived                              *)
  open,       (* descriptors that are open for NetService                  *)
  others,     (* and those that are open for the rest of the process       *)
  input,      (* what select sees on each: none, data or the end           *)
  fd,         (* m_socket_fd of each connection                            *)
  status,     (* its m_nStatus                                             *)
  list,       (* m_ClientContainer                                         *)
  net         (* NetService's Tick: part, accepted, entry, kReadFDSet      *)

server == <<listenFd, onConnect, fails>>
peers  == <<backlog, arrived>>
conns  == <<open, input, fd, status>>
vars   == <<server, peers, conns, others, list, net>>

Idle == [at |-> "idle", n |-> 0, i |-> 1, ready |-> {}]

(* After NetService::Init.                                                 *)
Init ==
  /\ listenFd = Invalid /\ onConnect = TRUE /\ fails = 0
  /\ backlog = <<>> /\ arrived = 0
  /\ open = {} /\ others = {} /\ input = [f \in Descriptors |-> "none"]
  /\ fd = [c \in Conns |-> Invalid] /\ status = [c \in Conns |-> "UNUSED"]
  /\ list = <<>>
  /\ net = Idle

Listening == listenFd # Invalid
Overrun   == net.at = "overrun"

(* The first of a set of numbers, if it has any.                           *)
First(S) == {x \in S : \A y \in S : x =< y}

Free  == Descriptors \ (open \cup others)
NewFd == First(Free)

-----------------------------------------------------------------------------
(* The peers, and the rest of the process.                                 *)

Arrive(welcome) ==
  /\ Listening
  /\ arrived < MaxPeers
  /\ arrived' = arrived + 1
  /\ backlog' = Append(backlog, welcome)
  /\ UNCHANGED <<server, conns, others, list, net>>

(* Bytes arrive, or the end of the stream, after which nothing does.       *)
PeerActs(f, what) ==
  /\ f \in open \ {listenFd}
  /\ input[f] # "end" /\ input[f] # what
  /\ input' = [input EXCEPT ![f] = what]
  /\ UNCHANGED <<server, peers, open, others, fd, status, list, net>>

(* Log files, other services' sockets and the like.                        *)
OtherOpens ==
  /\ Cardinality(others) < MaxOthers
  /\ \E f \in NewFd : others' = others \cup {f}
  /\ UNCHANGED <<server, peers, conns, list, net>>

OtherCloses(f) ==
  /\ f \in others
  /\ others' = others \ {f}
  /\ UNCHANGED <<server, peers, conns, list, net>>

-----------------------------------------------------------------------------
(* TickNetwork.                                                            *)

Goto(part) == net' = [Idle EXCEPT !.at = part]

Open ==
  /\ net.at = "idle" /\ ~Listening
  /\ \E f \in NewFd : listenFd' = f /\ open' = open \cup {f}
  /\ Goto("messages")
  /\ UNCHANGED <<onConnect, fails, peers, input, fd, status, others, list>>

(* A failure later than in socket() calls close, which gives the           *)
(* descriptor back and clears the callback as well.  Without a free        *)
(* descriptor socket() fails anyway.                                       *)
OpenFails(where) ==
  /\ net.at = "idle" /\ ~Listening
  /\ where = "later" => Free # {}
  /\ fails' = IF Free = {} THEN fails ELSE fails + 1
  /\ fails' =< MaxFails
  /\ onConnect' = (onConnect /\ where # "later")
  /\ Goto("messages")
  /\ UNCHANGED <<listenFd, peers, conns, others, list>>

StartAccept ==
  /\ net.at = "idle" /\ Listening
  /\ Goto("accept")
  /\ UNCHANGED <<server, peers, conns, others, list>>

Unused == {c \in Conns : status[c] = "UNUSED"}

(* accept is called again, and has somebody to give a peer to.             *)
Accepting == net.n < MaxAccept /\ onConnect

(* Faulty: nobody is accepted who would only be turned away.               *)
MayAccept_WithRoom ==
  Accepting /\ listenFd < SetSize /\ backlog # <<>> /\ Unused # {}

(* It puts the socket into a set and asks select for a peer.               *)
MayAccept == Accepting /\ listenFd < SetSize /\ backlog # <<>>

AcceptOverruns ==
  /\ net.at = "accept" /\ Accepting /\ listenFd >= SetSize
  /\ Goto("overrun")
  /\ UNCHANGED <<server, peers, conns, others, list>>

(* OnNewConnec closes the connection it has found before it hands it out.  *)
Accept ==
  /\ net.at = "accept" /\ MayAccept /\ Head(backlog)
  /\ \E c \in First(Unused), f \in NewFd :
       /\ open' = (open \ {fd[c]}) \cup {f}
       /\ fd' = [fd EXCEPT ![c] = f]
       /\ status' = [status EXCEPT ![c] = "CONNECTED"]
       /\ list' = Append(list, c)
  /\ backlog' = Tail(backlog)
  /\ net' = [net EXCEPT !.n = @ + 1]
  /\ UNCHANGED <<server, arrived, input, others>>

(* Faulty: the descriptor of a peer without a connection is kept.          *)
TurnAway_LeavesOpen ==
  /\ net.at = "accept" /\ MayAccept /\ Free # {}
  /\ ~Head(backlog) \/ Unused = {}
  /\ open' = open \cup NewFd
  /\ backlog' = Tail(backlog)
  /\ Goto("recv")
  /\ UNCHANGED <<server, arrived, input, fd, status, others, list>>

(* IPCheck or the pool refuses: accept closes the new descriptor again and *)
(* accept_ex ends.                                                         *)
TurnAway ==
  /\ net.at = "accept" /\ MayAccept /\ Free # {}
  /\ ~Head(backlog) \/ Unused = {}
  /\ backlog' = Tail(backlog)
  /\ Goto("recv")
  /\ UNCHANGED <<server, arrived, conns, others, list>>

(* The kernel's accept fails, without a free descriptor or because the     *)
(* peer has gone, or set_non_block does, and what was opened is closed.    *)
(* Only a peer for whom there is no descriptor goes on waiting.            *)
AcceptFails ==
  /\ net.at = "accept" /\ MayAccept
  /\ backlog' = IF Free = {} THEN backlog ELSE Tail(backlog)
  /\ Goto("recv")
  /\ UNCHANGED <<server, arrived, conns, others, list>>

AcceptEnds ==
  /\ net.at = "accept" /\ ~MayAccept
  /\ Accepting => listenFd < SetSize
  /\ Goto("recv")
  /\ UNCHANGED <<server, peers, conns, others, list>>

-----------------------------------------------------------------------------
(* recv: erase, select and poll.                                           *)

Valid(c) == fd[c] # Invalid

(* Faulty: the highest descriptor itself.                                  *)
Selected_BelowMax(S) == {f \in S : input[f] # "none" /\ f < Max(S)}

(* select is given one more than the highest descriptor.                   *)
Selected(S) == {f \in S : input[f] # "none" /\ f < Max(S) + 1}

(* recv erases the entries that are not valid: the others stay, each at    *)
(* the place that counts those before it.                                  *)
Watched  == {i \in DOMAIN list : Valid(list[i])}
Place(i) == Cardinality({j \in Watched : j =< i})
Kept     == [k \in 1 .. Cardinality(Watched) |-> list[CHOOSE i \in Watched : Place(i) = k]]

WatchedFds == {fd[list[i]] : i \in Watched}

Select ==
  LET ready == Selected(WatchedFds) IN
  /\ net.at = "recv"
  /\ \A f \in WatchedFds : f < SetSize
  /\ list' = Kept
  /\ net' = [Idle EXCEPT !.at = IF ready = {} THEN "messages" ELSE "poll", !.ready = ready]
  /\ UNCHANGED <<server, peers, conns, others>>

(* FD_SET of a descriptor that a set has no room for.                      *)
SelectOverruns ==
  /\ net.at = "recv"
  /\ \E f \in WatchedFds : f >= SetSize
  /\ Goto("overrun")
  /\ UNCHANGED <<server, peers, conns, others, list>>

(* OnDisConnect and close.                                                 *)
Dropped(c) ==
  /\ open' = open \ {fd[c]}
  /\ input' = [input EXCEPT ![fd[c]] = "none"]
  /\ fd' = [fd EXCEPT ![c] = Invalid]
  /\ status' = [status EXCEPT ![c] = "UNUSED"]

(* recv_ex reads until nothing is left; it drops the connection at the end *)
(* of the stream, or when the packet handler refuses the data.             *)
Received(c) ==
  \/ input[fd[c]] # "none" /\ Dropped(c)
  \/ input[fd[c]] = "data" /\ input' = [input EXCEPT ![fd[c]] = "none"]
                           /\ UNCHANGED <<open, fd, status>>
  \/ input[fd[c]] = "none" /\ UNCHANGED conns

(* Faulty: past the end of the list.                                       *)
PollsOn_PastEnd == net.i =< Len(list)

PollsOn == net.i < Len(list)

Poll ==
  LET c == list[net.i] IN
  /\ net.at = "poll"
  /\ IF fd[c] \in net.ready THEN Received(c) ELSE UNCHANGED conns
  /\ IF PollsOn THEN net' = [net EXCEPT !.i = @ + 1] ELSE Goto("messages")
  /\ UNCHANGED <<server, peers, others, list>>

-----------------------------------------------------------------------------
(* TickHttpMsg: answering a client may fail, and drop it.                  *)

SendFails(c) ==
  /\ net.at = "messages" /\ status[c] # "UNUSED"
  /\ Dropped(c)
  /\ UNCHANGED <<server, peers, others, list, net>>

TickEnds ==
  /\ net.at = "messages"
  /\ net' = Idle
  /\ UNCHANGED <<server, peers, conns, others, list>>

TickNetwork ==
  \/ Open \/ \E where \in FailsAt : OpenFails(where)
  \/ StartAccept \/ Accept \/ TurnAway \/ AcceptFails \/ AcceptOverruns \/ AcceptEnds
  \/ Select \/ SelectOverruns \/ Poll
TickHttpMsg == TickEnds \/ \E c \in Conns : SendFails(c)

-----------------------------------------------------------------------------
Outside ==
  \/ \E welcome \in BOOLEAN : Arrive(welcome)
  \/ \E f \in Descriptors, what \in {"data", "end"} : PeerActs(f, what)
  \/ OtherOpens \/ \E f \in Descriptors : OtherCloses(f)

Next == TickNetwork \/ TickHttpMsg \/ Outside

Spec == Init /\ [][Next]_vars

(* NetService is ticked again and again and a Tick runs to its end.        *)
FairSpec == Spec /\ WF_vars(TickNetwork \/ TickHttpMsg)

-----------------------------------------------------------------------------
(* Properties.                                                             *)

(* The server, its connections, the list and the Tick stay in their types; *)
(* accept_ex never takes more peers than it is told to, and a poll never   *)
(* runs past the list.                                                     *)
TypeOK ==
  /\ listenFd \in Descriptors \cup {Invalid} /\ onConnect \in BOOLEAN /\ fails \in 0 .. MaxFails
  /\ backlog \in Seq(BOOLEAN) /\ arrived \in 0 .. MaxPeers
  /\ open \subseteq Descriptors /\ others \subseteq Descriptors
  /\ input \in [Descriptors -> {"none", "data", "end"}]
  /\ fd \in [Conns -> Descriptors \cup {Invalid}]
  /\ status \in [Conns -> {"UNUSED", "CONNECTED"}]
  /\ list \in Seq(Conns)
  /\ net \in [at : {"idle", "accept", "recv", "poll", "messages", "overrun"}, n : 0 .. MaxAccept,
              i : Nat, ready : SUBSET Descriptors]
  /\ net.at = "poll" => net.i \in DOMAIN list

(* Whatever fails, is turned away, dropped in the middle of a poll or      *)
(* reused, NetService has a descriptor open exactly for its socket and for *)
(* each connection in use: none leaks, none is shared with anything else   *)
(* in the process, and no connection in use lost its own to the close of   *)
(* another.                                                                *)
DescriptorsOwned ==
  /\ \A f \in open : f = listenFd \/ \E c \in Conns : fd[c] = f /\ status[c] # "UNUSED"
  /\ open \cap others = {}
  /\ Listening => listenFd \in open
  /\ \A c \in Conns : status[c] # "UNUSED" => fd[c] \in open \ {listenFd}
  /\ \A c, d \in Conns : Valid(c) /\ fd[c] = fd[d] => c = d
  /\ \A c \in Conns : Valid(c) => status[c] # "UNUSED"

(* An entry is erased or kept for what its connection is when recv looks,  *)
(* so that a connection in use always has one, reused or not.              *)
EveryoneWatched == \A c \in Conns : Valid(c) => \E i \in DOMAIN list : list[i] = c

(* Hence select reports whoever has sent something or left, the highest    *)
(* descriptor included, and nobody else.                                   *)
SelectSeesAll ==
  [][net.at = "recv" /\ net'.at \in {"poll", "messages"}
       => net'.ready = {f \in open \ {listenFd} : input[f] # "none"}]_vars

(* What a peer sends, and its leaving, is noticed: a connection in use is  *)
(* always watched, however often its entry was erased, kept or repeated,   *)
(* unless its descriptor is one no set has room for.                       *)
EveryInputReceived ==
  \A f \in Descriptors : input[f] # "none" ~> input[f] = "none" \/ Overrun

(* The peers that wait are answered: accepted, turned away for their       *)
(* address or for want of a connection, or lost by a failing accept.  They *)
(* wait on only if the descriptors run out, or if an open that failed once *)
(* has cleared the callback.                                               *)
EveryPeerAnswered ==
  backlog # <<>> ~> backlog = <<>> \/ Free = {} \/ ~onConnect \/ Overrun

(* "Sets the callback for connections" (serversocket.h:31), which          *)
(* NetService does once, in Init: a socket that listens ("open success",   *)
(* NetService.cpp:86) has somebody to hand its peers to.                   *)
ListeningHandsOut == Listening => onConnect

(* No descriptor is put into a set that has no room for it.                *)
SetsHoldAll == ~Overrun

=============================================================================
