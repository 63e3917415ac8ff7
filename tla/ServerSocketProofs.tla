------------------------- MODULE ServerSocketProofs -------------------------
(***************************************************************************)
(* Proofs about ServerSocket for any number of connections, descriptors    *)
(* and peers, and any size of an fd_set: the types; that a descriptor is   *)
(* open for the socket and for each connection in use, and for nothing     *)
(* else; that recv watches all of them; and when no set is overrun.        *)
(*                                                                         *)
(* What recv keeps of the client list is known by counting: of the entries *)
(* that are valid, the one with k of them up to it is the k-th to stay,    *)
(* and as no two entries have the same count and there are as many of them *)
(* as counts, each place is filled and each entry stays.  That is what the *)
(* types of the list rest on, and that a connection in use is never        *)
(* erased. The same count says that a set of descriptors has a largest,    *)
(* one more than which is what select is given.                            *)
(***************************************************************************)
EXTENDS ServerSocket, FiniteSetTheorems, TLAPS

(* What the parameters are.                                                *)
LEMMA Sizes ==
  /\ MaxConn \in Nat /\ Fds \in Nat /\ MaxAccept \in Nat /\ MaxAccept >= 1
  /\ MaxPeers \in Nat /\ MaxFails \in Nat /\ SetSize \in Nat
BY SocketAssumption

(* Numbers up to n form a finite set.                                      *)
LEMMA UpToFinite ==
  ASSUME NEW n \in Nat, NEW W \in SUBSET (1 .. n)
  PROVE  IsFiniteSet(W) /\ Cardinality(W) \in Nat
<1>1. IsFiniteSet(1 .. n)
  BY FS_Interval
<1>2. IsFiniteSet(W)
  BY <1>1, FS_Subset
<1> QED BY <1>2, FS_CardinalityType

(* No descriptor is the invalid one.                                       *)
LEMMA InvalidIsNone == Invalid \notin Descriptors
BY Sizes DEF Invalid, Descriptors

(* The first of a set is in it.                                            *)
LEMMA FirstIn ==
  ASSUME NEW S, NEW x \in First(S)
  PROVE  x \in S
BY Zenon DEF First

-----------------------------------------------------------------------------
(* The entries recv keeps.                                                 *)

(* The places of a finite set W of numbers, counted from the smallest on,  *)
(* are 1 to its size: no two numbers have the same, as one more is counted *)
(* at the larger, and there are as many of them as there are places.       *)
PlaceIn(W, i) == Cardinality({j \in W : j =< i})

LEMMA PlacesFill ==
  ASSUME NEW n \in Nat, NEW W \in SUBSET (1 .. n)
  PROVE  /\ Cardinality(W) \in Nat
         /\ \A i \in W : PlaceIn(W, i) \in 1 .. Cardinality(W)
         /\ \A i, l \in W : PlaceIn(W, i) = PlaceIn(W, l) => i = l
         /\ \A k \in 1 .. Cardinality(W) : \E i \in W : PlaceIn(W, i) = k
<1> DEFINE P == [i \in W |-> PlaceIn(W, i)]
           N == Cardinality(W)
           Up(i) == {j \in W : j =< i}
<1>1. IsFiniteSet(W) /\ N \in Nat
  BY UpToFinite
<1>2. ASSUME NEW i \in W
      PROVE  /\ IsFiniteSet(Up(i)) /\ Cardinality(Up(i)) \in 1 .. N
             /\ i \in Up(i) /\ Up(i) \subseteq W
  <2>1. i \in Up(i) /\ Up(i) \in SUBSET W
    OBVIOUS
  <2> HIDE DEF Up
  <2>2. /\ IsFiniteSet(Up(i)) /\ Cardinality(Up(i)) =< N
    BY <1>1, <2>1, FS_Subset
  <2>3. Cardinality(Up(i)) \in Nat /\ Cardinality(Up(i)) # 0
    BY <2>1, <2>2, FS_CardinalityType, FS_EmptySet
  <2> HIDE DEF N
  <2> QED BY <1>1, <2>1, <2>2, <2>3
<1>3. /\ P \in [W -> 1 .. N]
      /\ \A i \in W : P[i] = Cardinality(Up(i)) /\ P[i] = PlaceIn(W, i)
  BY <1>2 DEF PlaceIn
<1>4. ASSUME NEW i \in W, NEW l \in W, i < l
      PROVE  P[i] # P[l]
  <2>1. Up(i) \in SUBSET Up(l) /\ l \notin Up(i)
    <3>1. i \in Nat /\ l \in Nat /\ ~(l =< i)
      BY <1>4
    <3>2. ASSUME NEW j \in W, j =< i
          PROVE  j =< l
      <4>1. j \in Nat
        OBVIOUS
      <4> QED BY <1>4, <3>1, <3>2, <4>1
    <3> QED BY <3>1, <3>2, Zenon
  <2>2. l \in Up(l) /\ IsFiniteSet(Up(l))
    BY <1>2
  <2> HIDE DEF Up
  <2>3. Cardinality(Up(i)) # Cardinality(Up(l))
    BY <2>1, <2>2, FS_Subset
  <2> QED BY <1>3, <2>3
<1>5. ASSUME NEW i \in W, NEW l \in W, P[i] = P[l]
      PROVE  i = l
  BY <1>4, <1>5
<1> HIDE DEF Up, N, P
<1>6. P \in Injection(W, 1 .. N)
  BY <1>3, <1>5 DEF Injection, IsInjective
<1>7. IsFiniteSet(1 .. N) /\ Cardinality(1 .. N) = N
  BY <1>1, FS_Interval
<1>8. P \in Surjection(W, 1 .. N)
  BY <1>6, <1>7, FS_Injection DEF N
<1> QED BY <1>1, <1>3, <1>5, <1>8 DEF Surjection, N

(* Hence a set of numbers up to n has a largest: the one with all places   *)
(* up to it.                                                               *)
LEMMA MaxIsLargest ==
  ASSUME NEW n \in Nat, NEW W \in SUBSET (1 .. n), W # {}
  PROVE  Max(W) \in W /\ \A y \in W : Max(W) >= y
<1> DEFINE N == Cardinality(W)
<1>1. IsFiniteSet(W) /\ N \in Nat /\ N >= 1
  <2>1. IsFiniteSet(W) /\ N \in Nat
    BY UpToFinite
  <2>2. N # 0
    BY <2>1, FS_EmptySet
  <2> HIDE DEF N
  <2> QED BY <2>1, <2>2
<1>2. \A k \in 1 .. N : \E i \in W : PlaceIn(W, i) = k
  BY PlacesFill
<1> HIDE DEF N
<1>3. PICK i \in W : PlaceIn(W, i) = N
  BY <1>1, <1>2
<1> DEFINE Up == {j \in W : j =< i}
<1>4. Up \in SUBSET W /\ Cardinality(Up) = N
  BY <1>3 DEF PlaceIn
<1> HIDE DEF Up
<1>5. Up = W
  BY <1>1, <1>4, FS_Subset DEF N
<1>6. \A y \in W : i >= y
  <2> SUFFICES ASSUME NEW y \in W PROVE i >= y
    OBVIOUS
  <2>1. y =< i
    BY <1>5 DEF Up
  <2>2. i \in Nat /\ y \in Nat
    OBVIOUS
  <2> QED BY <2>1, <2>2
<1> QED BY <1>6, Zenon DEF Max

(* What stays is a list of connections, empty only if nothing was worth    *)
(* keeping, and each entry worth keeping is in it.                         *)
LEMMA KeptTyped ==
  ASSUME list \in Seq(Conns)
  PROVE  /\ Kept \in Seq(Conns)
         /\ Watched # {} => 1 \in DOMAIN Kept
         /\ \A i \in Watched : list[i] \in Conns /\ \E k \in DOMAIN Kept : Kept[k] = list[i]
<1> DEFINE N == Cardinality(Watched)
<1>1. Len(list) \in Nat /\ Watched \in SUBSET (1 .. Len(list))
  BY DEF Watched
<1>2. \A i \in Watched : list[i] \in Conns
  BY <1>1
<1>3. /\ N \in Nat /\ \A k \in 1 .. N : \E i \in Watched : PlaceIn(Watched, i) = k
      /\ \A i \in Watched : PlaceIn(Watched, i) \in 1 .. N
      /\ \A i, l \in Watched : PlaceIn(Watched, i) = PlaceIn(Watched, l) => i = l
  BY <1>1, PlacesFill
<1>4. \A i : Place(i) = PlaceIn(Watched, i)
  BY DEF Place, PlaceIn
<1>5. Watched # {} => N >= 1
  <2>1. IsFiniteSet(Watched)
    BY <1>1, UpToFinite
  <2> QED BY <1>3, <2>1, FS_EmptySet
<1> HIDE DEF N
<1>6. ASSUME NEW k \in 1 .. N
      PROVE  list[CHOOSE i \in Watched : Place(i) = k] \in Conns
  <2>1. \E i \in Watched : Place(i) = k
    BY <1>3, <1>4, Zenon
  <2> QED BY <1>2, <2>1, Zenon
<1>7. Kept \in [1 .. N -> Conns]
  BY <1>6 DEF Kept, N
<1>8. ASSUME NEW i \in Watched
      PROVE  Place(i) \in 1 .. N /\ Kept[Place(i)] = list[i]
  <2>1. Place(i) \in 1 .. N
    BY <1>3, <1>4
  <2> DEFINE c == CHOOSE l \in Watched : Place(l) = Place(i)
  <2>2. c \in Watched /\ Place(c) = Place(i)
    <3>1. \E l \in Watched : Place(l) = Place(i)
      OBVIOUS
    <3> QED BY <3>1
  <2>3. Kept[Place(i)] = list[c]
    BY <2>1 DEF Kept, N
  <2> HIDE DEF c
  <2>4. c = i
    BY <1>3, <1>4, <2>2
  <2> QED BY <2>1, <2>3, <2>4
<1>9. Kept \in Seq(Conns) /\ DOMAIN Kept = 1 .. N
  BY <1>3, <1>7
<1> QED BY <1>2, <1>3, <1>5, <1>8, <1>9

-----------------------------------------------------------------------------
(* Types.                                                                  *)

Parts == {"idle", "accept", "recv", "poll", "messages", "overrun"}
Ticks == [at : Parts, n : 0 .. MaxAccept, i : Nat, ready : SUBSET Descriptors]

(* What the kernel has of the connections, and the pool.                   *)
ConnsTyped ==
  /\ open \subseteq Descriptors
  /\ input \in [Descriptors -> {"none", "data", "end"}]
  /\ fd \in [Conns -> Descriptors \cup {Invalid}]
  /\ status \in [Conns -> {"UNUSED", "CONNECTED"}]

(* The Tick, with the list it works on.                                    *)
TickTyped == /\ list \in Seq(Conns)
             /\ net \in Ticks
             /\ net.at = "poll" => net.i \in DOMAIN list

PeersTyped == /\ listenFd \in Descriptors \cup {Invalid}
              /\ onConnect \in BOOLEAN /\ fails \in 0 .. MaxFails
              /\ backlog \in Seq(BOOLEAN) /\ arrived \in 0 .. MaxPeers
              /\ others \subseteq Descriptors

TypeInv == PeersTyped /\ ConnsTyped /\ TickTyped

LEMMA TypeParts == TypeInv => TypeOK
BY DEF TypeInv, TypeOK, PeersTyped, ConnsTyped, TickTyped, Ticks, Parts

(* A part of the Tick begins with nothing accepted or selected.            *)
LEMMA IdleTyped == Idle \in Ticks /\ Idle.at = "idle"
BY Sizes DEF Idle, Ticks, Parts

LEMMA GotoTyped ==
  ASSUME NEW part \in Parts, Goto(part)
  PROVE  net' \in Ticks /\ net'.at = part
<1>1. net' = [at |-> part, n |-> 0, i |-> 1, ready |-> {}]
  BY DEF Goto, Idle
<1> QED BY <1>1, Sizes DEF Ticks

(* Dropping a connection.                                                  *)
LEMMA DroppedTyped ==
  ASSUME ConnsTyped, NEW c \in Conns, Dropped(c)
  PROVE  ConnsTyped'
<1>1. open' \subseteq Descriptors
  BY DEF ConnsTyped, Dropped
<1>2. input' \in [Descriptors -> {"none", "data", "end"}]
  BY DEF ConnsTyped, Dropped
<1>3. fd' \in [Conns -> Descriptors \cup {Invalid}]
  BY DEF ConnsTyped, Dropped
<1>4. status' \in [Conns -> {"UNUSED", "CONNECTED"}]
  BY DEF ConnsTyped, Dropped
<1> QED BY <1>1, <1>2, <1>3, <1>4 DEF ConnsTyped

(* recv_ex: it drops the connection, empties its input, or does nothing.   *)
LEMMA ReceivedTyped ==
  ASSUME ConnsTyped, NEW c \in Conns, Received(c)
  PROVE  ConnsTyped'
<1>1. CASE Dropped(c)
  BY <1>1, DroppedTyped
<1>2. CASE /\ input' = [input EXCEPT ![fd[c]] = "none"]
           /\ UNCHANGED <<open, fd, status>>
  BY <1>2 DEF ConnsTyped
<1>3. CASE UNCHANGED conns
  BY <1>3 DEF ConnsTyped, conns
<1> QED BY <1>1, <1>2, <1>3 DEF Received

(* Accepting a peer.                                                       *)
LEMMA AcceptTyped ==
  ASSUME TypeInv, Accept
  PROVE  TypeInv'
<1> USE DEF TypeInv
<1>1. PICK c \in First(Unused), f \in NewFd :
        /\ open' = (open \ {fd[c]}) \cup {f}
        /\ fd' = [fd EXCEPT ![c] = f]
        /\ status' = [status EXCEPT ![c] = "CONNECTED"]
        /\ list' = Append(list, c)
  BY Zenon DEF Accept
<1>2. c \in Conns
  BY FirstIn DEF Unused
<1>3. f \in Descriptors
  BY FirstIn DEF NewFd, Free
<1>4. ConnsTyped'
  BY <1>1, <1>2, <1>3 DEF ConnsTyped, Accept
<1>5. TickTyped'
  <2>1. list \in Seq(Conns) /\ net \in Ticks /\ net.at = "accept" /\ net.n < MaxAccept
    BY DEF TickTyped, Accept, MayAccept, Accepting
  <2>2. list' \in Seq(Conns)
    BY <1>1, <1>2, <2>1
  <2>3. net.n \in Nat /\ net.n + 1 \in 0 .. MaxAccept
    BY <2>1, Sizes DEF Ticks
  <2>4. net' = [net EXCEPT !.n = @ + 1]
    BY DEF Accept
  <2>5. net' \in Ticks /\ net'.at = "accept"
    BY <2>1, <2>3, <2>4 DEF Ticks
  <2> QED BY <2>2, <2>5 DEF TickTyped
<1>6. PeersTyped'
  <2>1. backlog \in Seq(BOOLEAN) /\ backlog # <<>>
    BY DEF Accept, MayAccept, PeersTyped
  <2>2. Tail(backlog) \in Seq(BOOLEAN)
    BY <2>1
  <2> QED BY <2>2 DEF Accept, PeersTyped, server
<1> QED BY <1>4, <1>5, <1>6

(* Turning one away, and failing to accept one.                            *)
LEMMA TurnAwayTyped ==
  ASSUME TypeInv, TurnAway \/ AcceptFails
  PROVE  TypeInv'
<1> USE DEF TypeInv
<1>1. net' \in Ticks /\ net'.at = "recv"
  <2>1. Goto("recv")
    BY DEF TurnAway, AcceptFails
  <2> QED BY <2>1, GotoTyped DEF Parts
<1>2. UNCHANGED <<server, arrived, conns, others, list>> /\ backlog' \in {backlog, Tail(backlog)}
  BY DEF TurnAway, AcceptFails
<1>3. TickTyped'
  BY <1>1, <1>2 DEF TickTyped
<1>4. PeersTyped'
  <2>1. backlog \in Seq(BOOLEAN) /\ backlog # <<>>
    BY DEF TurnAway, AcceptFails, MayAccept, PeersTyped
  <2>2. backlog' \in Seq(BOOLEAN)
    BY <1>2, <2>1
  <2> QED BY <1>2, <2>2 DEF PeersTyped, server
<1>5. ConnsTyped'
  BY <1>2 DEF ConnsTyped, conns
<1> QED BY <1>3, <1>4, <1>5

(* recv up to select, which leaves a list to poll if anything is ready.    *)
LEMMA SelectTyped ==
  ASSUME TypeInv, Select
  PROVE  TypeInv'
<1> USE DEF TypeInv
<1> DEFINE ready == Selected(WatchedFds)
           part  == IF ready = {} THEN "messages" ELSE "poll"
<1>1. /\ Kept \in Seq(Conns)
      /\ Watched # {} => 1 \in DOMAIN Kept
      /\ \A i \in Watched : list[i] \in Conns /\ Valid(list[i])
  <2>1. list \in Seq(Conns)
    BY DEF TickTyped
  <2> QED BY <2>1, KeptTyped DEF Watched
<1>2. ready \subseteq Descriptors
  <2>1. \A i \in Watched : fd[list[i]] \in Descriptors
    BY <1>1 DEF ConnsTyped, Valid
  <2> QED BY <2>1 DEF Selected, WatchedFds
<1>3. ready # {} => Watched # {}
  BY DEF Selected, WatchedFds
<1>4. list' = Kept /\ net' = [Idle EXCEPT !.at = part, !.ready = ready]
  BY DEF Select
<1> HIDE DEF ready
<1>5. net' = [at |-> part, n |-> 0, i |-> 1, ready |-> ready]
  BY <1>4 DEF Idle
<1>6. net' \in Ticks /\ net'.i = 1 /\ (net'.at = "poll" => ready # {})
  BY <1>2, <1>5, Sizes DEF Ticks, Parts
<1>7. TickTyped'
  BY <1>1, <1>3, <1>4, <1>6, Zenon DEF TickTyped
<1>8. PeersTyped' /\ ConnsTyped'
  BY DEF Select, PeersTyped, ConnsTyped, server, peers, conns
<1> QED BY <1>7, <1>8

(* Polling one entry.                                                      *)
LEMMA PollTyped ==
  ASSUME TypeInv, Poll
  PROVE  TypeInv'
<1> USE DEF TypeInv
<1>1. /\ net.i \in DOMAIN list /\ net.i \in 1 .. Len(list)
      /\ list[net.i] \in Conns /\ list \in Seq(Conns) /\ net \in Ticks
  BY DEF Poll, TickTyped
<1>2. ConnsTyped'
  <2>1. CASE fd[list[net.i]] \in net.ready
    BY <1>1, <2>1, ReceivedTyped DEF Poll
  <2>2. CASE fd[list[net.i]] \notin net.ready
    BY <2>2 DEF Poll, ConnsTyped, conns
  <2> QED BY <2>1, <2>2
<1>3. list' = list
  BY DEF Poll
<1>4. CASE PollsOn
  <2>1. net' = [net EXCEPT !.i = @ + 1]
    BY <1>4 DEF Poll
  <2>2. net.i + 1 \in 1 .. Len(list)
    BY <1>1, <1>4 DEF PollsOn
  <2>3. net' \in Ticks /\ net'.i = net.i + 1
    BY <1>1, <2>1, <2>2 DEF Ticks
  <2> QED BY <1>1, <1>2, <1>3, <2>2, <2>3 DEF TickTyped, PeersTyped, Poll, server, peers
<1>5. CASE ~PollsOn
  <2>1. Goto("messages")
    BY <1>5 DEF Poll
  <2>2. net' \in Ticks /\ net'.at = "messages"
    BY <2>1, GotoTyped DEF Parts
  <2> QED BY <1>1, <1>2, <1>3, <2>2 DEF TickTyped, PeersTyped, Poll, server, peers
<1> QED BY <1>4, <1>5

(* Opening the socket.                                                     *)
LEMMA OpenTyped ==
  ASSUME TypeInv, Open \/ \E where \in FailsAt : OpenFails(where)
  PROVE  TypeInv'
<1> USE DEF TypeInv
<1>1. Goto("messages")
  BY DEF Open, OpenFails
<1>2. net' \in Ticks /\ net'.at = "messages"
  BY <1>1, GotoTyped DEF Parts
<1>3. CASE Open
  <2>1. PICK f \in NewFd : listenFd' = f /\ open' = open \cup {f}
    BY <1>3, Zenon DEF Open
  <2>2. f \in Descriptors
    BY FirstIn DEF NewFd, Free
  <2> QED BY <1>2, <1>3, <2>1, <2>2 DEF Open, PeersTyped, ConnsTyped, TickTyped, peers
<1>4. ASSUME NEW where \in FailsAt, OpenFails(where)
      PROVE  TypeInv'
  <2>1. onConnect' \in BOOLEAN
    BY <1>4, Zenon DEF OpenFails
  <2>2. fails' \in 0 .. MaxFails
    BY <1>4, Sizes DEF OpenFails, PeersTyped
  <2> QED BY <1>2, <1>4, <2>1, <2>2
          DEF OpenFails, PeersTyped, ConnsTyped, TickTyped, peers, conns
<1> QED BY <1>3, <1>4

(* The steps that only go on to the next part.                             *)
LEMMA GoesOnTyped ==
  ASSUME TypeInv,
         StartAccept \/ AcceptEnds \/ AcceptOverruns \/ SelectOverruns \/ TickEnds
  PROVE  TypeInv'
<1>1. UNCHANGED <<server, peers, conns, others, list>>
  BY DEF StartAccept, AcceptEnds, AcceptOverruns, SelectOverruns, TickEnds
<1>2. net' \in Ticks /\ net'.at # "poll"
  <2>1. CASE TickEnds
    BY <2>1, IdleTyped DEF TickEnds
  <2>2. CASE StartAccept
    BY <2>2, GotoTyped DEF StartAccept, Parts
  <2>3. CASE AcceptEnds
    BY <2>3, GotoTyped DEF AcceptEnds, Parts
  <2>4. CASE AcceptOverruns \/ SelectOverruns
    BY <2>4, GotoTyped DEF AcceptOverruns, SelectOverruns, Parts
  <2> QED BY <2>1, <2>2, <2>3, <2>4
<1> QED BY <1>1, <1>2 DEF TypeInv, TickTyped, PeersTyped, ConnsTyped, server, peers, conns

(* A failed send.                                                          *)
LEMMA SendFailsTyped ==
  ASSUME TypeInv, NEW c \in Conns, SendFails(c)
  PROVE  TypeInv'
<1> USE DEF TypeInv
<1>1. ConnsTyped'
  BY DroppedTyped DEF SendFails
<1> QED BY <1>1 DEF SendFails, TickTyped, PeersTyped, server, peers

(* What the peers and the rest of the process do.                          *)
LEMMA OutsideTyped ==
  ASSUME TypeInv, Outside
  PROVE  TypeInv'
<1> USE DEF TypeInv
<1>1. ASSUME NEW welcome \in BOOLEAN, Arrive(welcome)
      PROVE  TypeInv'
  <2>1. backlog' \in Seq(BOOLEAN)
    BY <1>1 DEF Arrive, PeersTyped
  <2>2. arrived' \in 0 .. MaxPeers
    BY <1>1, Sizes DEF Arrive, PeersTyped
  <2> QED BY <1>1, <2>1, <2>2 DEF Arrive, TickTyped, PeersTyped, ConnsTyped, server, conns
<1>2. ASSUME NEW f \in Descriptors, NEW what \in {"data", "end"}, PeerActs(f, what)
      PROVE  TypeInv'
  BY <1>2 DEF PeerActs, TickTyped, PeersTyped, ConnsTyped, server, peers
<1>3. ASSUME OtherOpens \/ \E f \in Descriptors : OtherCloses(f)
      PROVE  TypeInv'
  <2>1. others' \subseteq Descriptors
    BY <1>3, FirstIn DEF OtherOpens, OtherCloses, NewFd, Free, PeersTyped
  <2>2. UNCHANGED <<server, peers, conns, list, net>>
    BY <1>3 DEF OtherOpens, OtherCloses
  <2> QED BY <2>1, <2>2 DEF TickTyped, PeersTyped, ConnsTyped, server, peers, conns
<1> QED BY <1>1, <1>2, <1>3 DEF Outside

(* No step leaves the types.                                               *)
LEMMA TypeStep == TypeInv /\ [Next]_vars => TypeInv'
<1> SUFFICES ASSUME TypeInv, [Next]_vars PROVE TypeInv'
  OBVIOUS
<1>1. CASE TickNetwork
  BY <1>1, AcceptTyped, TurnAwayTyped, SelectTyped, PollTyped, OpenTyped, GoesOnTyped DEF TickNetwork
<1>2. CASE TickHttpMsg
  BY <1>2, GoesOnTyped, SendFailsTyped DEF TickHttpMsg
<1>3. CASE Outside
  BY <1>3, OutsideTyped
<1>4. CASE UNCHANGED vars
  BY <1>4 DEF vars, server, peers, conns, TypeInv, PeersTyped, ConnsTyped, TickTyped
<1> QED BY <1>1, <1>2, <1>3, <1>4 DEF Next

LEMMA TypeInit == Init => TypeInv
<1> SUFFICES ASSUME Init PROVE TypeInv
  OBVIOUS
<1>1. PeersTyped
  <2>1. backlog = <<>> /\ <<>> \in Seq(BOOLEAN)
    BY DEF Init
  <2>2. listenFd = Invalid /\ others = {} /\ onConnect \in BOOLEAN
    BY Zenon DEF Init
  <2>3. fails \in 0 .. MaxFails /\ arrived \in 0 .. MaxPeers
    BY Sizes DEF Init
  <2> QED BY <2>1, <2>2, <2>3 DEF PeersTyped
<1>2. ConnsTyped
  BY DEF Init, ConnsTyped
<1>3. TickTyped
  BY IdleTyped DEF Init, TickTyped
<1> QED BY <1>1, <1>2, <1>3 DEF TypeInv

(* The server, its connections, the client list and NetService's Tick keep *)
(* their types: accept_ex stops in time, and a poll stays inside the list. *)
THEOREM TypeCorrect == Spec => []TypeOK
<1>1. Spec => []TypeInv
  BY TypeInit, TypeStep, PTL DEF Spec
<1> QED BY <1>1, TypeParts, PTL

-----------------------------------------------------------------------------
(* The descriptors.                                                        *)

(* What changes descriptors, connections or the list; all else leaves them *)
(* alone.                                                                  *)
LEMMA WhatChanges ==
  ASSUME [Next]_vars
  PROVE  \/ Open \/ Accept \/ Poll \/ Select \/ \E c \in Conns : SendFails(c)
         \/ OtherOpens \/ \E f \in Descriptors : OtherCloses(f)
         \/ UNCHANGED <<listenFd, open, others, fd, status, list>>
<1> DEFINE Same == UNCHANGED <<listenFd, open, others, fd, status, list>>
<1>1. StartAccept \/ AcceptEnds \/ AcceptFails \/ TurnAway \/ TickEnds => Same
  BY DEF StartAccept, AcceptEnds, AcceptFails, TurnAway, TickEnds, server, conns
<1>2. AcceptOverruns \/ SelectOverruns => Same
  BY DEF AcceptOverruns, SelectOverruns, server, conns
<1>3. (\E where \in FailsAt : OpenFails(where)) => Same
  BY DEF OpenFails, conns
<1>4. (\E welcome \in BOOLEAN : Arrive(welcome)) => Same
  BY DEF Arrive, server, conns
<1>5. (\E f \in Descriptors, what \in {"data", "end"} : PeerActs(f, what)) => Same
  BY DEF PeerActs, server
<1>6. UNCHANGED vars => Same
  BY DEF vars, server, conns
<1> HIDE DEF Same
<1>7. CASE Outside
  BY <1>4, <1>5, <1>7, Zenon DEF Outside, Same
<1>8. CASE TickNetwork \/ TickHttpMsg
  BY <1>1, <1>2, <1>3, <1>8, Zenon DEF TickNetwork, TickHttpMsg, Same
<1> QED BY <1>6, <1>7, <1>8, Zenon DEF Next, Same

(* A connection that is dropped gives its own descriptor up and no other.  *)
LEMMA DroppedOwns ==
  ASSUME ConnsTyped, DescriptorsOwned, NEW c \in Conns, Dropped(c), Valid(c),
         UNCHANGED <<listenFd, others>>
  PROVE  DescriptorsOwned'
<1>1. /\ open' = open \ {fd[c]}
      /\ fd'[c] = Invalid /\ status'[c] = "UNUSED"
      /\ \A d \in Conns : d # c => fd'[d] = fd[d] /\ status'[d] = status[d]
  BY DEF Dropped, ConnsTyped
<1>2. /\ \A d \in Conns : d # c => fd[d] # fd[c]
      /\ fd[c] # listenFd
  BY DEF DescriptorsOwned
<1>3. \A f \in open' : f = listenFd \/ \E d \in Conns : fd'[d] = f /\ status'[d] # "UNUSED"
  <2> SUFFICES ASSUME NEW f \in open', f # listenFd
               PROVE  \E d \in Conns : fd'[d] = f /\ status'[d] # "UNUSED"
    OBVIOUS
  <2>1. PICK d \in Conns : fd[d] = f /\ status[d] # "UNUSED"
    BY <1>1 DEF DescriptorsOwned
  <2>2. d # c
    BY <1>1, <2>1
  <2> QED BY <1>1, <2>1, <2>2
<1>4. \A d \in Conns : status'[d] # "UNUSED" => fd'[d] \in open' \ {listenFd}
  BY <1>1, <1>2 DEF DescriptorsOwned
<1>5. \A d, e \in Conns : fd'[d] # Invalid /\ fd'[d] = fd'[e] => d = e
  BY <1>1 DEF DescriptorsOwned, Valid
<1>6. \A d \in Conns : fd'[d] # Invalid => status'[d] # "UNUSED"
  BY <1>1 DEF DescriptorsOwned, Valid
<1>7. open' \cap others = {} /\ (listenFd # Invalid => listenFd \in open')
  BY <1>1, <1>2 DEF DescriptorsOwned, Listening
<1> QED BY <1>3, <1>4, <1>5, <1>6, <1>7 DEF DescriptorsOwned, Valid, Listening

(* One that is handed out had none, and gets one that nobody else has.     *)
LEMMA AcceptOwns ==
  ASSUME ConnsTyped, DescriptorsOwned, Accept
  PROVE  DescriptorsOwned'
<1>1. PICK c \in First(Unused), f \in NewFd :
        /\ open' = (open \ {fd[c]}) \cup {f}
        /\ fd' = [fd EXCEPT ![c] = f]
        /\ status' = [status EXCEPT ![c] = "CONNECTED"]
  BY Zenon DEF Accept
<1>2. c \in Conns /\ status[c] = "UNUSED"
  BY FirstIn DEF Unused
<1>3. f \in Descriptors /\ f \notin open /\ f \notin others
  BY FirstIn DEF NewFd, Free
<1>4. f # Invalid /\ fd[c] = Invalid
  BY <1>2, <1>3, InvalidIsNone DEF DescriptorsOwned, Valid
<1>5. open' = open \cup {f} /\ listenFd' = listenFd /\ others' = others
  <2>1. open' = open \cup {f}
    BY <1>1, <1>4, InvalidIsNone DEF ConnsTyped
  <2>2. UNCHANGED <<server, others>>
    BY Zenon DEF Accept
  <2> QED BY <2>1, <2>2 DEF server
<1>6. /\ fd'[c] = f /\ status'[c] = "CONNECTED"
      /\ \A d \in Conns : d # c => fd'[d] = fd[d] /\ status'[d] = status[d]
  BY <1>1, <1>2 DEF ConnsTyped
<1>7. /\ \A d \in Conns : fd[d] # f
      /\ f # listenFd /\ (listenFd # Invalid => listenFd \in open)
  BY <1>3, <1>4 DEF DescriptorsOwned, Valid, Listening
<1>8. \A g \in open' : g = listenFd \/ \E d \in Conns : fd'[d] = g /\ status'[d] # "UNUSED"
  <2> SUFFICES ASSUME NEW g \in open', g # listenFd
               PROVE  \E d \in Conns : fd'[d] = g /\ status'[d] # "UNUSED"
    OBVIOUS
  <2>1. CASE g = f
    BY <1>2, <1>6, <2>1
  <2>2. CASE g \in open
    <3>1. PICK d \in Conns : fd[d] = g /\ status[d] # "UNUSED"
      BY <2>2 DEF DescriptorsOwned
    <3> QED BY <1>2, <1>6, <3>1
  <2> QED BY <1>5, <2>1, <2>2
<1>9. \A d \in Conns : status'[d] # "UNUSED" => fd'[d] \in open' \ {listenFd}
  BY <1>5, <1>6, <1>7 DEF DescriptorsOwned
<1>10. \A d, e \in Conns : fd'[d] # Invalid /\ fd'[d] = fd'[e] => d = e
  BY <1>6, <1>7 DEF DescriptorsOwned, Valid
<1>11. \A d \in Conns : fd'[d] # Invalid => status'[d] # "UNUSED"
  BY <1>6 DEF DescriptorsOwned, Valid
<1>12. open' \cap others = {}
  BY <1>3, <1>5 DEF DescriptorsOwned
<1> QED BY <1>5, <1>7, <1>8, <1>9, <1>10, <1>11, <1>12 DEF DescriptorsOwned, Valid, Listening

(* The socket gets a descriptor that nobody has.                           *)
LEMMA OpenOwns ==
  ASSUME TypeInv, DescriptorsOwned, Open
  PROVE  DescriptorsOwned'
<1>1. PICK f \in NewFd : listenFd' = f /\ open' = open \cup {f}
  BY Zenon DEF Open
<1>2. f \in Descriptors /\ f \notin open /\ f \notin others
  BY FirstIn DEF NewFd, Free
<1>3. listenFd = Invalid /\ Invalid \notin open /\ UNCHANGED <<fd, status, others>>
  BY InvalidIsNone DEF Open, Listening, TypeInv, ConnsTyped
<1>4. \A c \in Conns : status[c] # "UNUSED" => fd[c] # f
  BY <1>2 DEF DescriptorsOwned
<1> QED BY <1>1, <1>2, <1>3, <1>4 DEF DescriptorsOwned, Valid, Listening

(* The rest of the process takes what is free, and gives back its own.     *)
LEMMA OthersOwn ==
  ASSUME DescriptorsOwned, OtherOpens \/ \E f \in Descriptors : OtherCloses(f)
  PROVE  DescriptorsOwned'
<1>1. UNCHANGED <<listenFd, open, fd, status>>
  BY DEF OtherOpens, OtherCloses, server, conns
<1>2. open \cap others' = {}
  BY FirstIn DEF OtherOpens, OtherCloses, NewFd, Free, DescriptorsOwned
<1> QED BY <1>1, <1>2 DEF DescriptorsOwned, Valid, Listening

(* recv drops a connection only while its descriptor is one select saw.    *)
LEMMA PollOwns ==
  ASSUME TypeInv, DescriptorsOwned, Poll
  PROVE  DescriptorsOwned'
<1>1. list[net.i] \in Conns /\ net.ready \subseteq Descriptors
  <2>1. net.i \in DOMAIN list /\ list \in Seq(Conns) /\ net \in Ticks
    BY DEF Poll, TypeInv, TickTyped
  <2> QED BY <2>1 DEF Ticks
<1>2. UNCHANGED <<listenFd, others>>
  BY DEF Poll, server
<1>3. CASE UNCHANGED <<open, fd, status>>
  BY <1>2, <1>3 DEF DescriptorsOwned, Valid, Listening
<1>4. CASE fd[list[net.i]] \in net.ready /\ Dropped(list[net.i])
  <2>1. Valid(list[net.i])
    BY <1>1, <1>4, InvalidIsNone DEF Valid
  <2> QED BY <1>1, <1>2, <1>4, <2>1, DroppedOwns DEF TypeInv
<1> QED BY <1>3, <1>4 DEF Poll, Received, conns

(* A failed send drops a connection in use, which has a descriptor.        *)
LEMMA SendFailsOwns ==
  ASSUME ConnsTyped, DescriptorsOwned, NEW c \in Conns, SendFails(c)
  PROVE  DescriptorsOwned'
<1>1. fd[c] \in open /\ fd[c] # Invalid
  BY InvalidIsNone DEF SendFails, DescriptorsOwned, ConnsTyped
<1>2. UNCHANGED <<listenFd, others>>
  BY DEF SendFails, server
<1> QED BY <1>1, <1>2, DroppedOwns DEF SendFails, Valid

(* Every other step leaves connections and descriptors alone.              *)
LEMMA OwnsStep == TypeInv /\ DescriptorsOwned /\ [Next]_vars => DescriptorsOwned'
<1> SUFFICES ASSUME TypeInv, DescriptorsOwned, [Next]_vars PROVE DescriptorsOwned'
  OBVIOUS
<1>1. CASE UNCHANGED <<listenFd, open, others, fd, status>>
  BY <1>1 DEF DescriptorsOwned, Valid, Listening
<1>2. CASE Select
  BY <1>1, <1>2 DEF Select, server, conns
<1>3. CASE Open \/ Accept \/ Poll \/ \E c \in Conns : SendFails(c)
  BY <1>3, OpenOwns, AcceptOwns, PollOwns, SendFailsOwns DEF TypeInv
<1>4. CASE OtherOpens \/ \E f \in Descriptors : OtherCloses(f)
  BY <1>4, OthersOwn
<1> QED BY <1>1, <1>2, <1>3, <1>4, WhatChanges

(* The server has a descriptor open exactly for its socket and for each    *)
(* connection in use, whatever fails, is accepted, turned away, dropped in *)
(* a poll or reused, and whatever the rest of the process opens.           *)
THEOREM DescriptorsOwnedKept == Spec => []DescriptorsOwned
<1>1. Init => DescriptorsOwned
  BY DEF Init, DescriptorsOwned, Valid, Listening
<1>2. Spec => []TypeInv
  BY TypeInit, TypeStep, PTL DEF Spec
<1> QED BY <1>1, <1>2, OwnsStep, PTL DEF Spec

-----------------------------------------------------------------------------
(* The client list.                                                        *)

(* Only Accept gives a connection a descriptor, and only recv shortens the *)
(* list.                                                                   *)
LEMMA WatchedByOthers ==
  ASSUME TypeInv, [Next]_vars, ~Accept, ~Select
  PROVE  list' = list /\ \A c \in Conns : Valid(c)' => Valid(c)
<1>1. fd \in [Conns -> Descriptors \cup {Invalid}]
  BY DEF TypeInv, ConnsTyped
<1>2. CASE UNCHANGED <<fd, list>>
  BY <1>2 DEF Valid
<1>3. ASSUME NEW c \in Conns, Dropped(c), UNCHANGED list
      PROVE  list' = list /\ \A d \in Conns : Valid(d)' => Valid(d)
  BY <1>1, <1>3 DEF Dropped, Valid
<1>4. CASE Poll
  <2>1. net.i \in DOMAIN list /\ list \in Seq(Conns)
    BY <1>4 DEF Poll, TypeInv, TickTyped
  <2>2. list[net.i] \in Conns
    BY <2>1
  <2>3. UNCHANGED list /\ (Dropped(list[net.i]) \/ UNCHANGED fd)
    BY <1>4 DEF Poll, Received, conns
  <2> QED BY <1>2, <1>3, <2>2, <2>3
<1>5. CASE \E c \in Conns : SendFails(c)
  BY <1>3, <1>5 DEF SendFails
<1>6. CASE Open \/ OtherOpens \/ \E f \in Descriptors : OtherCloses(f)
  BY <1>2, <1>6 DEF Open, OtherOpens, OtherCloses, conns
<1> QED BY <1>2, <1>4, <1>5, <1>6, WhatChanges

LEMMA WatchedStep == TypeInv /\ EveryoneWatched /\ [Next]_vars => EveryoneWatched'
<1> SUFFICES ASSUME TypeInv, EveryoneWatched, [Next]_vars,
                    NEW c \in Conns, Valid(c)'
             PROVE  \E i \in DOMAIN list' : list'[i] = c
  BY DEF EveryoneWatched
<1>1. list \in Seq(Conns) /\ fd \in [Conns -> Descriptors \cup {Invalid}]
  BY DEF TypeInv, TickTyped, ConnsTyped
<1>2. ASSUME Valid(c)
      PROVE  \E i \in DOMAIN list : list[i] = c
  BY <1>2 DEF EveryoneWatched
<1>3. CASE Accept
  <2>1. PICK d \in First(Unused), f \in NewFd :
          /\ fd' = [fd EXCEPT ![d] = f]
          /\ list' = Append(list, d)
    BY <1>3, Zenon DEF Accept
  <2>2. /\ Len(list) \in Nat /\ DOMAIN list' = 1 .. Len(list) + 1
        /\ list'[Len(list) + 1] = d /\ \A i \in 1 .. Len(list) : list'[i] = list[i]
        /\ DOMAIN list = 1 .. Len(list)
    BY <1>1, <2>1
  <2>3. CASE c = d
    BY <2>2, <2>3
  <2>4. CASE c # d
    <3>1. Valid(c)
      BY <1>1, <2>1, <2>4 DEF Valid
    <3>2. PICK i \in 1 .. Len(list) : list[i] = c
      BY <1>2, <2>2, <3>1
    <3> QED BY <2>2, <3>2
  <2> QED BY <2>3, <2>4
<1>4. CASE Select
  <2>1. list' = Kept /\ Valid(c)
    BY <1>4 DEF Select, conns, Valid
  <2>2. PICK i \in Watched : list[i] = c
    BY <1>2, <2>1 DEF Watched
  <2>3. \E k \in DOMAIN Kept : Kept[k] = list[i]
    BY <1>1, KeptTyped
  <2> QED BY <2>1, <2>2, <2>3
<1>5. CASE ~Accept /\ ~Select
  BY <1>2, <1>5, WatchedByOthers
<1> QED BY <1>3, <1>4, <1>5

(* A connection in use always has an entry in the client list, whatever    *)
(* recv erases and however often connections are dropped and reused.       *)
THEOREM EveryoneWatchedKept == Spec => []EveryoneWatched
<1>1. Init => EveryoneWatched
  BY DEF Init, EveryoneWatched, Valid
<1>2. Spec => []TypeInv
  BY TypeInit, TypeStep, PTL DEF Spec
<1> QED BY <1>1, <1>2, WatchedStep, PTL DEF Spec

(* So the descriptors recv gives to select are those that are open.        *)
LEMMA WatchedAreOpen ==
  ASSUME TypeInv, DescriptorsOwned, EveryoneWatched
  PROVE  WatchedFds = open \ {listenFd}
<1>1. \A i \in Watched : list[i] \in Conns /\ Valid(list[i])
  BY KeptTyped DEF TypeInv, TickTyped, Watched
<1>2. \A i \in Watched : fd[list[i]] \in open \ {listenFd}
  BY <1>1 DEF DescriptorsOwned
<1>3. ASSUME NEW f \in open \ {listenFd}
      PROVE  \E i \in Watched : fd[list[i]] = f
  <2>1. PICK c \in Conns : fd[c] = f
    BY DEF DescriptorsOwned
  <2>2. Valid(c)
    BY <2>1, InvalidIsNone DEF TypeInv, ConnsTyped, Valid
  <2>3. PICK i \in DOMAIN list : list[i] = c
    BY <2>2 DEF EveryoneWatched
  <2>4. i \in Watched
    BY <2>2, <2>3 DEF Watched
  <2> QED BY <2>1, <2>3, <2>4
<1> QED BY <1>2, <1>3 DEF WatchedFds

(* And select looks at each of them, the highest included.                 *)
LEMMA SelectedAll ==
  ASSUME NEW S \in SUBSET Descriptors
  PROVE  Selected(S) = {f \in S : input[f] # "none"}
<1>1. ASSUME NEW f \in S
      PROVE  f < Max(S) + 1
  <2>1. Fds \in Nat /\ S \in SUBSET (1 .. Fds) /\ S # {}
    BY <1>1, Sizes DEF Descriptors
  <2>2. Max(S) \in S /\ Max(S) >= f
    BY <1>1, <2>1, MaxIsLargest
  <2>3. Max(S) \in Nat /\ f \in Nat
    <3>1. \A x \in S : x \in 1 .. Fds
      BY <2>1
    <3> QED BY <1>1, <2>2, <3>1
  <2> QED BY <2>2, <2>3
<1> QED BY <1>1 DEF Selected

(* A recv finds exactly the connections in use whose peers have sent       *)
(* something or left: none is missed for its entry, its number or another  *)
(* connection's end.                                                       *)
THEOREM SelectSeesAllKept == Spec => SelectSeesAll
<1>1. ASSUME TypeInv, DescriptorsOwned, EveryoneWatched, [Next]_vars,
             net.at = "recv", net'.at \in {"poll", "messages"}
      PROVE  net'.ready = {f \in open \ {listenFd} : input[f] # "none"}
  <2>1. Select
    <3>1. net' # net
      BY <1>1
    <3>2. ~Open /\ ~StartAccept /\ ~Accept /\ ~TurnAway /\ ~AcceptFails /\ ~AcceptOverruns
          /\ ~AcceptEnds /\ ~Poll /\ ~TickEnds
      BY <1>1 DEF Open, StartAccept, Accept, TurnAway, AcceptFails, AcceptOverruns, AcceptEnds,
                  Poll, TickEnds
    <3>3. ~(\E where \in FailsAt : OpenFails(where)) /\ ~(\E c \in Conns : SendFails(c))
      BY <1>1 DEF OpenFails, SendFails
    <3>4. ~SelectOverruns
      BY <1>1 DEF SelectOverruns, Goto, Idle
    <3>5. ~Outside
      BY <3>1, Zenon DEF Outside, Arrive, PeerActs, OtherOpens, OtherCloses
    <3> QED BY <1>1, <3>1, <3>2, <3>3, <3>4, <3>5 DEF Next, TickNetwork, TickHttpMsg, vars
  <2> DEFINE ready == Selected(WatchedFds)
             part  == IF ready = {} THEN "messages" ELSE "poll"
  <2>2. net' = [Idle EXCEPT !.at = part, !.ready = ready]
    BY <2>1 DEF Select
  <2>3. ready = {f \in open \ {listenFd} : input[f] # "none"}
    <3>1. WatchedFds = open \ {listenFd}
      BY <1>1, WatchedAreOpen
    <3>2. open \ {listenFd} \in SUBSET Descriptors
      BY <1>1 DEF TypeInv, ConnsTyped
    <3> QED BY <3>1, <3>2, SelectedAll
  <2> HIDE DEF ready, part
  <2>4. net'.ready = ready
    BY <2>2 DEF Idle
  <2> QED BY <2>3, <2>4
<1>2. Spec => []TypeInv
  BY TypeInit, TypeStep, PTL DEF Spec
<1>3. TypeInv /\ DescriptorsOwned /\ EveryoneWatched /\ [Next]_vars
        => [net.at = "recv" /\ net'.at \in {"poll", "messages"}
              => net'.ready = {f \in open \ {listenFd} : input[f] # "none"}]_vars
  BY <1>1
<1> QED BY <1>2, <1>3, DescriptorsOwnedKept, EveryoneWatchedKept, PTL DEF Spec, SelectSeesAll

-----------------------------------------------------------------------------
(* The sets.                                                               *)

(* A process that may have no more descriptors than an fd_set has room for *)
(* (1024 by default on Linux, FD_SETSIZE) never runs over one, however     *)
(* many connections the pool has: accept fails first.                      *)
THEOREM SetsHoldAllKept == Fds < SetSize => (Spec => []SetsHoldAll)
<1> SUFFICES ASSUME Fds < SetSize PROVE Spec => []SetsHoldAll
  OBVIOUS
<1>1. Init => SetsHoldAll
  BY DEF Init, Idle, SetsHoldAll, Overrun
<1>2. \A f \in Descriptors \cup {Invalid} : ~(f >= SetSize)
  BY Sizes DEF Descriptors, Invalid
<1>3. TypeInv /\ SetsHoldAll /\ [Next]_vars => SetsHoldAll'
  <2> SUFFICES ASSUME TypeInv, SetsHoldAll, [Next]_vars, net' # net PROVE SetsHoldAll'
    BY DEF SetsHoldAll, Overrun
  <2>1. ~AcceptOverruns
    BY <1>2 DEF AcceptOverruns, TypeInv, PeersTyped
  <2>2. ~SelectOverruns
    <3>1. ASSUME NEW f \in WatchedFds
          PROVE  f \in Descriptors \cup {Invalid}
      <4>1. PICK i \in Watched : f = fd[list[i]]
        BY DEF WatchedFds
      <4>2. list \in Seq(Conns) /\ i \in DOMAIN list
        BY DEF TypeInv, TickTyped, Watched
      <4>3. list[i] \in Conns
        BY <4>2
      <4> QED BY <4>1, <4>3 DEF TypeInv, ConnsTyped
    <3> QED BY <1>2, <3>1 DEF SelectOverruns
  <2>3. ~Outside /\ ~UNCHANGED vars
    BY Zenon DEF Outside, Arrive, PeerActs, OtherOpens, OtherCloses, vars
  <2>4. ~(\E c \in Conns : SendFails(c))
    BY DEF SendFails
  <2>5. net'.at # "overrun"
    <3>1. CASE Open \/ TickEnds \/ StartAccept \/ AcceptEnds \/ TurnAway \/ AcceptFails
      <4>1. net' = Idle \/ Goto("messages") \/ Goto("accept") \/ Goto("recv")
        BY <3>1, Zenon DEF Open, TickEnds, StartAccept, AcceptEnds, TurnAway, AcceptFails
      <4> QED BY <4>1 DEF Goto, Idle
    <3>2. CASE \E where \in FailsAt : OpenFails(where)
      BY <3>2 DEF OpenFails, Goto, Idle
    <3>3. CASE Accept
      BY <3>3 DEF Accept, TypeInv, TickTyped, Ticks
    <3>4. CASE Select
      <4>1. \E ready : net' = [Idle EXCEPT !.at = IF ready = {} THEN "messages" ELSE "poll",
                                           !.ready = ready]
        BY <3>4, Zenon DEF Select
      <4> QED BY <4>1 DEF Idle
    <3>5. CASE Poll
      BY <3>5 DEF Poll, Goto, Idle, TypeInv, TickTyped, Ticks
    <3> QED BY <2>1, <2>2, <2>3, <2>4, <3>1, <3>2, <3>3, <3>4, <3>5
            DEF Next, TickNetwork, TickHttpMsg
  <2> QED BY <2>5 DEF SetsHoldAll, Overrun
<1>4. Spec => []TypeInv
  BY TypeInit, TypeStep, PTL DEF Spec
<1> QED BY <1>1, <1>3, <1>4, PTL DEF Spec
=============================================================================
