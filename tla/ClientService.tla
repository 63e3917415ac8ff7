--------------------------- MODULE ClientService ---------------------------
(***************************************************************************)
(* The ClientServices of a process, each with a ClientSocket that it opens *)
(* and connects, reads, logs in on every five seconds, and now and then    *)
(* closes; and the process's table of descriptors, which they share with   *)
(* every other part of it.                                                 *)
(*                                                                         *)
(* A Tick is a step per system call.  With more than one worker the Ticks  *)
(* of different services interleave, and so do their system calls.  An     *)
(* object of the kernel is known by its descriptor; link is what the       *)
(* kernel and the server at the other end hold of a connection.  Bytes are *)
(* counted, and those in a client's buffers are marked by the connection   *)
(* they belong to.                                                         *)
(*                                                                         *)
(* A client whose descriptor was closed behind its back goes on as the     *)
(* code does: select, recv and send fail.  What it does to an object that  *)
(* is not its own is followed no further than a failure, too.              *)
(*                                                                         *)
(* PeekPacket is out of step with the server's replies: it takes the       *)
(* header to be as long as a PacketHead is in memory, and the size in it,  *)
(* which counts the header (packet.cpp:58), to be the body's.  So a reply  *)
(* waits in the buffer for the next ones, sizes are soon read out of the   *)
(* midst of packets, and all that is said here of how much is taken off    *)
(* the buffer is that it is nothing or that header at least.               *)
(*                                                                         *)
(* X_How is X with a plausible mistake in it, to try the properties on.    *)
(***************************************************************************)
EXTENDS Integers, Sequences, FiniteSets

CONSTANTS
  Clients,    (* the ClientServices                                        *)
  Fds,        (* descriptors of the process                                *)
  MaxOthers,  (* how many of them the rest of the process holds at most    *)
  Threads,    (* workers of the pool, ThreadCount                          *)
  LoginLen,   (* the length of a P_Login packet                            *)
  ReplyLen,   (* the length of a P_LoginRet packet                         *)
  SkipLen,    (* sizeof(PacketHead), which has a table of virtuals         *)
  RecvSize,   (* max_c2s_pkg_size                                          *)
  SendSize,   (* m_nSendBufSize                                            *)
  Room        (* bytes the kernels keep of a connection, each way          *)

Others  == "others"
Nobody  == "nobody"
Invalid == 0

ASSUME ClientAssumption ==
  /\ IsFiniteSet(Clients) /\ Clients \cap {Others, Nobody} = {}
  /\ Threads \in Nat \ {0} /\ MaxOthers \in Nat
  /\ Fds \in Nat /\ Fds >= Cardinality(Clients) + MaxOthers
  /\ LoginLen \in Nat \ {0} /\ ReplyLen \in Nat \ {0}
  /\ SkipLen \in Nat \ {0} /\ RecvSize \in Nat \ {0}
  /\ SendSize \in Nat /\ SendSize >= LoginLen
  /\ Room \in Nat \ {0}

Descriptors == 1 .. Fds

VARIABLES
  owner,   (* who opened the object behind a descriptor                    *)
  link,    (* its connection: state, bytes on their way out and in         *)
  others,  (* descriptors the rest of the process holds                    *)
  fd,      (* m_socket_fd                                                  *)
  status,  (* m_socket_status                                              *)
  bound,   (* m_funOnRecvMessage is set                                    *)
  buf,     (* what is left in m_recv_buffer                                *)
  rest,    (* what is left in m_send_buffer                                *)
  due,     (* five seconds have passed since m_nLastTickTime               *)
  pc,      (* the place in Tick                                            *)
  asked    (* history: a login was accepted since the last connect         *)

kernel == <<owner, link>>
socket == <<fd, status, bound, buf, rest>>
vars   == <<kernel, others, socket, due, pc, asked>>

NoLink  == [state |-> "none", out |-> 0, in |-> 0]
Repeat(what, n) == [i \in 1 .. n |-> what]
Dropped(s, n)   == SubSeq(s, n + 1, Len(s))

Init ==
  /\ owner = [d \in Descriptors |-> Nobody]
  /\ link = [d \in Descriptors |-> NoLink]
  /\ others = {}
  /\ fd = [c \in Clients |-> Invalid]
  /\ status = [c \in Clients |-> "closed"]
  /\ bound = [c \in Clients |-> FALSE]
  /\ buf = [c \in Clients |-> <<>>] /\ rest = [c \in Clients |-> <<>>]
  /\ due = [c \in Clients |-> FALSE]
  /\ pc = [c \in Clients |-> "idle"]
  /\ asked = [c \in Clients |-> FALSE]

Valid(c) == fd[c] # Invalid /\ status[c] = "connected"
Busy     == {c \in Clients : pc[c] # "idle"}
Goto(c, place) == pc' = [pc EXCEPT ![c] = place]

-----------------------------------------------------------------------------
(* The table of descriptors.                                               *)

Free  == {d \in Descriptors : owner[d] = Nobody}
NewFd == {d \in Free : \A e \in Free : d =< e}

Opens(who, d) == owner' = [owner EXCEPT ![d] = who] /\ UNCHANGED link

(* close(d); nothing happens if it is not open.                            *)
Closes(d) ==
  /\ owner' = [owner EXCEPT ![d] = Nobody]
  /\ link' = [link EXCEPT ![d] = NoLink]

(* A worker that runs no client opens or closes something of its own.      *)
OtherOpens ==
  /\ Cardinality(Busy) < Threads
  /\ Cardinality(others) < MaxOthers
  /\ \E d \in NewFd : Opens(Others, d) /\ others' = others \cup {d}
  /\ UNCHANGED <<socket, due, pc, asked>>

OtherCloses(d) ==
  /\ Cardinality(Busy) < Threads
  /\ d \in others
  /\ Closes(d)
  /\ others' = others \ {d}
  /\ UNCHANGED <<socket, due, pc, asked>>

-----------------------------------------------------------------------------
(* The socket is closed.                                                   *)

(* Faulty: the length of what is in the receive buffer is kept.            *)
Cleared_KeepsLength(c) ==
  /\ status' = [status EXCEPT ![c] = "closed"]
  /\ bound' = [bound EXCEPT ![c] = FALSE]
  /\ rest' = [rest EXCEPT ![c] = <<>>]
  /\ UNCHANGED buf

(* What close does beside its system call.                                 *)
Cleared(c) ==
  /\ status' = [status EXCEPT ![c] = "closed"]
  /\ bound' = [bound EXCEPT ![c] = FALSE]
  /\ buf' = [buf EXCEPT ![c] = <<>>]
  /\ rest' = [rest EXCEPT ![c] = <<>>]

(* close, and disconnect: ClientService::OnDisConnect does nothing.        *)
Shut(c) ==
  /\ Closes(fd[c])
  /\ fd' = [fd EXCEPT ![c] = Invalid]
  /\ Cleared(c)

-----------------------------------------------------------------------------
(* Tick without a connection.                                              *)

TickBegins(c) ==
  /\ pc[c] = "idle" /\ Cardinality(Busy) < Threads
  /\ Goto(c, IF Valid(c) THEN "recv" ELSE IF fd[c] = Invalid THEN "open" ELSE "connect")
  /\ UNCHANGED <<kernel, others, socket, due, asked>>

Open(c) ==
  /\ pc[c] = "open"
  /\ \E d \in NewFd : Opens(c, d) /\ fd' = [fd EXCEPT ![c] = d]
  /\ status' = [status EXCEPT ![c] = "opened"]
  /\ Goto(c, "connect")
  /\ UNCHANGED <<others, bound, buf, rest, due, asked>>

OpenFails(c) ==
  /\ pc[c] = "open"
  /\ Goto(c, "idle")
  /\ UNCHANGED <<kernel, others, socket, due, asked>>

(* Faulty: only the first connection gets its callbacks.                   *)
Connected_NoCallback(c) ==
  /\ status' = [status EXCEPT ![c] = "connected"]
  /\ buf' = [buf EXCEPT ![c] = Repeat("earlier", Len(@))]
  /\ rest' = [rest EXCEPT ![c] = Repeat("earlier", Len(@))]
  /\ UNCHANGED bound

(* set_buf_size gives the buffers new memory and leaves their lengths.     *)
Connected(c) ==
  /\ status' = [status EXCEPT ![c] = "connected"]
  /\ buf' = [buf EXCEPT ![c] = Repeat("earlier", Len(@))]
  /\ rest' = [rest EXCEPT ![c] = Repeat("earlier", Len(@))]
  /\ bound' = [bound EXCEPT ![c] = TRUE]

Connect(c) ==
  /\ pc[c] = "connect"
  /\ owner[fd[c]] = c /\ link[fd[c]].state = "none"
  /\ link' = [link EXCEPT ![fd[c]].state = "up"]
  /\ Connected(c)
  /\ asked' = [asked EXCEPT ![c] = FALSE]
  /\ Goto(c, "idle")
  /\ UNCHANGED <<owner, others, fd, due>>

(* A connect that fails at once leaves the descriptor to the caller; one   *)
(* that times out or is refused later closes it first (socketapi.cpp:209). *)
ConnectFails(c, later) ==
  /\ pc[c] = "connect"
  /\ IF later THEN Closes(fd[c]) ELSE UNCHANGED kernel
  /\ Goto(c, "close")
  /\ UNCHANGED <<others, socket, due, asked>>

(* The caller closes it in either case.                                    *)
Close(c) ==
  /\ pc[c] = "close"
  /\ Shut(c)
  /\ Goto(c, "idle")
  /\ UNCHANGED <<others, due, asked>>

-----------------------------------------------------------------------------
(* Tick with a connection: recv and HeartBeat.                             *)

Link(c) == link[fd[c]]

(* Nothing to read, select fails, or nobody to read it.                    *)
RecvNothing(c) ==
  /\ pc[c] = "recv"
  /\ bound[c] => Link(c).state # "over"
  /\ Goto(c, "beat")
  /\ UNCHANGED <<kernel, others, socket, due, asked>>

(* What the callback may take off a buffer with len bytes.                 *)
Taken(len) == {0} \cup SkipLen .. len

(* n bytes are there to read, all there are or as many as the buffer has   *)
(* room for; it does not stay full.                                        *)
RecvData(c, n) ==
  LET got == buf[c] \o Repeat(IF owner[fd[c]] = c THEN "this" ELSE "another", n) IN
  /\ pc[c] = "recv" /\ bound[c]
  /\ n =< Link(c).in /\ Len(got) =< RecvSize
  /\ \/ Link(c).state = "up"
     \/ Link(c).state = "over" /\ Len(got) = RecvSize
  /\ link' = [link EXCEPT ![fd[c]].in = @ - n]
  /\ \E taken \in Taken(Len(got)) :
       /\ Len(got) - taken < RecvSize
       /\ buf' = [buf EXCEPT ![c] = Dropped(got, taken)]
  /\ Goto(c, "beat")
  /\ UNCHANGED <<owner, others, fd, status, bound, rest, due, asked>>

(* Faulty: the descriptor is forgotten and not closed.                     *)
RecvLost_LeavesOpen(c) ==
  /\ pc[c] = "recv" /\ bound[c]
  /\ fd' = [fd EXCEPT ![c] = Invalid]
  /\ Cleared(c)
  /\ Goto(c, "beat")
  /\ UNCHANGED <<kernel, others, due, asked>>

(* The end of the stream, with whatever came before it, or an error; or    *)
(* the buffer is full and the callback takes nothing off it.               *)
RecvLost(c) ==
  /\ pc[c] = "recv" /\ bound[c]
  /\ Shut(c)
  /\ Goto(c, "beat")
  /\ UNCHANGED <<others, due, asked>>

(* Faulty: what is left and the login are kept without a look at the room. *)
Sent_RoomUnchecked(c) ==
  LET room  == Room - Link(c).out
      all   == rest[c] \o Repeat("this", LoginLen)
      taken == IF Len(all) =< room THEN Len(all) ELSE room IN
  /\ link' = [link EXCEPT ![fd[c]].out = @ + taken]
  /\ rest' = [rest EXCEPT ![c] = Dropped(all, taken)]
  /\ asked' = [asked EXCEPT ![c] = TRUE]
  /\ UNCHANGED <<owner, fd, status, bound, buf>>

(* The login goes behind what is left, as far as the kernel takes it; if   *)
(* not even what is left is taken, it must fit into the buffer with that.  *)
Sent(c) ==
  LET login == Repeat("this", LoginLen)
      room  == Room - Link(c).out
      left  == Len(rest[c]) - room
      all   == IF left > 0 /\ left + LoginLen > SendSize THEN rest[c] ELSE rest[c] \o login
      taken == IF Len(all) =< room THEN Len(all) ELSE room IN
  /\ link' = [link EXCEPT ![fd[c]].out = @ + taken]
  /\ rest' = [rest EXCEPT ![c] = Dropped(all, taken)]
  /\ asked' = [asked EXCEPT ![c] = @ \/ all # rest[c]]
  /\ UNCHANGED <<owner, fd, status, bound, buf>>

(* Faulty: m_nLastTickTime is stored before it is compared                 *)
HeartBeat_StoresFirst(c) ==
  /\ pc[c] = "beat"
  /\ due' = [due EXCEPT ![c] = FALSE]
  /\ Goto(c, "end")
  /\ UNCHANGED <<kernel, others, socket, asked>>

HeartBeat(c) ==
  /\ pc[c] = "beat"
  /\ due' = [due EXCEPT ![c] = FALSE]
  /\ \/ due[c] /\ Valid(c) /\ Link(c).state # "none" /\ Sent(c)
     \/ due[c] /\ Valid(c) /\ Link(c).state # "up" /\ Shut(c) /\ UNCHANGED asked
     \/ ~(due[c] /\ Valid(c)) /\ UNCHANGED <<kernel, socket, asked>>
  /\ Goto(c, "end")
  /\ UNCHANGED others

RandCloses(c) ==
  /\ pc[c] = "end" /\ fd[c] # Invalid
  /\ Shut(c)
  /\ Goto(c, "idle")
  /\ UNCHANGED <<others, due, asked>>

TickEnds(c) ==
  /\ pc[c] = "end"
  /\ Goto(c, "idle")
  /\ UNCHANGED <<kernel, others, socket, due, asked>>

(* A Tick that has begun.                                                  *)
Tick(c) ==
  \/ Open(c) \/ OpenFails(c)
  \/ Connect(c) \/ \E later \in BOOLEAN : ConnectFails(c, later)
  \/ Close(c)
  \/ RecvNothing(c) \/ RecvLost(c) \/ \E n \in 1 .. Room : RecvData(c, n)
  \/ HeartBeat(c)
  \/ RandCloses(c) \/ TickEnds(c)

-----------------------------------------------------------------------------
(* Time, and the server at the other end.                                  *)

Elapse(c) ==
  /\ ~due[c]
  /\ due' = [due EXCEPT ![c] = TRUE]
  /\ UNCHANGED <<kernel, others, socket, pc, asked>>

(* It reads a login and answers it, or does not.                           *)
ServerReads(d, answer) ==
  /\ link[d].state = "up" /\ link[d].out >= LoginLen
  /\ link[d].in + answer =< Room
  /\ link' = [link EXCEPT ![d].out = @ - LoginLen, ![d].in = @ + answer]
  /\ UNCHANGED <<owner, others, socket, due, pc, asked>>

ServerCloses(d) ==
  /\ link[d].state = "up"
  /\ link' = [link EXCEPT ![d].state = "over"]
  /\ UNCHANGED <<owner, others, socket, due, pc, asked>>

-----------------------------------------------------------------------------
Next ==
  \/ \E c \in Clients : TickBegins(c) \/ Tick(c) \/ Elapse(c)
  \/ \E d \in Descriptors :
       \/ \E answer \in {0, ReplyLen} : ServerReads(d, answer)
       \/ ServerCloses(d) \/ OtherCloses(d)
  \/ OtherOpens

Spec == Init /\ [][Next]_vars

(* Somebody opens a descriptor that connect has closed and that its caller *)
(* is about to close again.                                                *)
Disturbs ==
  \E c \in Clients :
    pc[c] = "close" /\ owner[fd[c]] = Nobody /\ owner'[fd[c]] # Nobody

UndisturbedSpec == Init /\ [][Next /\ ~Disturbs]_vars

(* Services are ticked again and again and a Tick runs to its end; time    *)
(* passes; and a socket can be had now and then.  Nothing is assumed of    *)
(* the network or of the server.                                           *)
Fairness ==
  \A c \in Clients :
    /\ SF_vars(TickBegins(c)) /\ WF_vars(Tick(c)) /\ WF_vars(Elapse(c))
    /\ SF_vars(Open(c))

FairUndisturbedSpec == UndisturbedSpec /\ Fairness

-----------------------------------------------------------------------------
(* Properties.                                                             *)

Owners == Clients \cup {Others, Nobody}
Marks  == {"this", "earlier", "another"}
Links  == [state : {"none", "up", "over"}, out : 0 .. Room, in : 0 .. Room]

(* The table, the sockets and the Ticks stay in their types: no more is    *)
(* under way than the kernel keeps, no more left than the send buffer      *)
(* holds, and always room to read more, however little of the replies the  *)
(* callback can use.                                                       *)
TypeOK ==
  /\ owner \in [Descriptors -> Owners]
  /\ link \in [Descriptors -> Links]
  /\ others \subseteq Descriptors
  /\ fd \in [Clients -> Descriptors \cup {Invalid}]
  /\ status \in [Clients -> {"closed", "opened", "connected"}]
  /\ bound \in [Clients -> BOOLEAN]
  /\ buf \in [Clients -> Seq(Marks)] /\ rest \in [Clients -> Seq(Marks)]
  /\ \A c \in Clients : Len(buf[c]) < RecvSize /\ Len(rest[c]) =< SendSize
  /\ due \in [Clients -> BOOLEAN] /\ asked \in [Clients -> BOOLEAN]
  /\ pc \in [Clients -> {"idle", "open", "connect", "close", "recv", "beat", "end"}]

(* Whatever fails in open, connect, recv and send, each open descriptor of *)
(* the process is held by exactly one of its parts, the one that opened    *)
(* it: none leaks, and none is closed by somebody else.                    *)
DescriptorsOwned ==
  /\ \A c \in Clients : fd[c] # Invalid /\ pc[c] # "close" => owner[fd[c]] = c
  /\ \A d \in Descriptors : owner[d] \in Clients => fd[owner[d]] = d
  /\ \A d \in Descriptors : owner[d] = Others <=> d \in others

(* valid(): "whether the connection is complete: [...] of an ordinary one  *)
(* the three-way handshake must have succeeded" (clientsocket.h:46).       *)
ValidIsConnected ==
  \A c \in Clients : Valid(c) => owner[fd[c]] = c /\ Link(c).state # "none"

(* A connection begins with empty buffers, however the one before it came  *)
(* to its end: no part of a reply or a login is carried over, and no       *)
(* client reads what was sent to another.                                  *)
BytesOfThisConnection ==
  \A c \in Clients : Valid(c) =>
    /\ \A i \in DOMAIN buf[c] : buf[c][i] = "this"
    /\ \A i \in DOMAIN rest[c] : rest[c][i] = "this"

(* On each connection that lasts the client logs in, although the five     *)
(* seconds run on from connection to connection and a login that is due    *)
(* in the Tick that loses the connection is not made up for.               *)
EveryConnectionLogsIn == \A c \in Clients : Valid(c) ~> asked[c] \/ ~Valid(c)

(* A client without a connection, or with one that the server has closed,  *)
(* always comes to try again, on a socket of its own: it notices the end,  *)
(* and no failure leaves it with a descriptor it cannot use.               *)
TriesAgain ==
  \A c \in Clients :
    ~Valid(c) \/ Link(c).state = "over"
      ~> pc[c] = "connect" /\ owner[fd[c]] = c /\ Link(c).state = "none"

=============================================================================
