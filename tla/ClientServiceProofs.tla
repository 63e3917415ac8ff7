------------------------ MODULE ClientServiceProofs ------------------------
(***************************************************************************)
(* Proofs about ClientService, for any number of clients, descriptors and  *)
(* workers: the types; who holds which descriptor, as long as nobody opens *)
(* one that connect has closed and its caller is about to close again;     *)
(* that with one worker nobody does; and that the buffers of a connection  *)
(* hold nothing of an earlier one, nor, where descriptors are kept apart,  *)
(* of anybody else's.                                                      *)
(***************************************************************************)
EXTENDS ClientService, FiniteSetTheorems, SequenceTheorems, TLAPS

USE ClientAssumption

(* What a client's place in Tick says of its socket.                       *)
Placed(c) ==
  /\ status[c] = "connected" => fd[c] # Invalid
  /\ pc[c] = "open" => fd[c] = Invalid
  /\ pc[c] \in {"connect", "close"} => fd[c] # Invalid /\ ~Valid(c)
  /\ pc[c] = "recv" => Valid(c)

Places == \A c \in Clients : Placed(c)

TypeInv == TypeOK /\ Places

-----------------------------------------------------------------------------
(* Sequences.                                                              *)

LEMMA RepeatIsSeq ==
  ASSUME NEW S, NEW what \in S, NEW n \in Nat
  PROVE  /\ Repeat(what, n) \in Seq(S)
         /\ Len(Repeat(what, n)) = n
         /\ \A i \in 1 .. n : Repeat(what, n)[i] = what
BY DEF Repeat

LEMMA DroppedIsSeq ==
  ASSUME NEW S, NEW s \in Seq(S), NEW n \in 0 .. Len(s)
  PROVE  /\ Dropped(s, n) \in Seq(S)
         /\ Len(Dropped(s, n)) = Len(s) - n
         /\ \A i \in 1 .. Len(s) - n : Dropped(s, n)[i] = s[n + i]
<1>1. Len(s) \in Nat
  BY LenProperties
<1> QED BY <1>1, SubSeqProperties DEF Dropped

LEMMA EmptyIsSeq == ASSUME NEW S PROVE <<>> \in Seq(S) /\ Len(<<>>) = 0
OBVIOUS

-----------------------------------------------------------------------------
(* The system calls and the parts of a close keep the types.               *)

LEMMA ShutTyped ==
  ASSUME TypeOK, NEW c \in Clients, Shut(c)
  PROVE  /\ owner' \in [Descriptors -> Owners] /\ link' \in [Descriptors -> Links]
         /\ fd' \in [Clients -> Descriptors \cup {Invalid}]
         /\ status' \in [Clients -> {"closed", "opened", "connected"}]
         /\ bound' \in [Clients -> BOOLEAN]
         /\ buf' \in [Clients -> Seq(Marks)] /\ rest' \in [Clients -> Seq(Marks)]
         /\ \A k \in Clients : Len(buf'[k]) < RecvSize /\ Len(rest'[k]) =< SendSize
         /\ fd'[c] = Invalid /\ status'[c] = "closed"
         /\ \A k \in Clients \ {c} : fd'[k] = fd[k] /\ status'[k] = status[k]
<1>1. NoLink \in Links /\ Nobody \in Owners
  BY DEF NoLink, Links, Owners
<1>2. owner' \in [Descriptors -> Owners] /\ link' \in [Descriptors -> Links]
  BY <1>1 DEF Shut, Closes, TypeOK
<1>3. buf' \in [Clients -> Seq(Marks)] /\ rest' \in [Clients -> Seq(Marks)]
  BY EmptyIsSeq DEF Shut, Cleared, TypeOK
<1>4. \A k \in Clients : Len(buf'[k]) < RecvSize /\ Len(rest'[k]) =< SendSize
  BY EmptyIsSeq DEF Shut, Cleared, TypeOK
<1> QED BY <1>2, <1>3, <1>4 DEF Shut, Cleared, TypeOK

LEMMA OpensTyped ==
  ASSUME TypeOK, NEW who \in Owners, NEW d \in Descriptors, Opens(who, d)
  PROVE  owner' \in [Descriptors -> Owners] /\ link' \in [Descriptors -> Links]
BY DEF Opens, TypeOK

(* What the kernel takes is in its room, what it leaves in the buffer's.   *)
LEMMA SentTyped ==
  ASSUME TypeOK, NEW c \in Clients, fd[c] # Invalid, Sent(c)
  PROVE  /\ link' \in [Descriptors -> Links]
         /\ rest' \in [Clients -> Seq(Marks)] /\ asked' \in [Clients -> BOOLEAN]
         /\ \A k \in Clients : Len(rest'[k]) =< SendSize
<1> DEFINE login == Repeat("this", LoginLen)
           room  == Room - Link(c).out
           left  == Len(rest[c]) - room
           all   == IF left > 0 /\ left + LoginLen > SendSize THEN rest[c] ELSE rest[c] \o login
           taken == IF Len(all) =< room THEN Len(all) ELSE room
<1>1. rest[c] \in Seq(Marks) /\ Len(rest[c]) \in Nat /\ Len(rest[c]) =< SendSize
  BY LenProperties DEF TypeOK
<1>2. login \in Seq(Marks) /\ Len(login) = LoginLen
  <2>1. "this" \in Marks /\ LoginLen \in Nat
    BY DEF Marks
  <2> QED BY <2>1, RepeatIsSeq
<1>3. fd[c] \in Descriptors /\ Link(c) \in Links
  BY DEF TypeOK, Link
<1>4. room \in 0 .. Room
  BY <1>3 DEF Links
<1>5. all \in Seq(Marks)
      /\ Len(all) = IF left > 0 /\ left + LoginLen > SendSize
                    THEN Len(rest[c]) ELSE Len(rest[c]) + LoginLen
  BY <1>1, <1>2, ConcatProperties
<1> HIDE DEF login, all
<1>6. taken \in 0 .. Len(all) /\ taken \in 0 .. room
  BY <1>1, <1>4, <1>5
<1>7. Len(all) - taken =< SendSize
  BY <1>1, <1>4, <1>5, <1>6
<1>8. Dropped(all, taken) \in Seq(Marks) /\ Len(Dropped(all, taken)) =< SendSize
  <2> HIDE DEF taken
  <2>1. Dropped(all, taken) \in Seq(Marks) /\ Len(Dropped(all, taken)) = Len(all) - taken
    BY <1>5, <1>6, DroppedIsSeq
  <2> QED BY <1>7, <2>1
<1>9. link' = [link EXCEPT ![fd[c]].out = @ + taken]
      /\ rest' = [rest EXCEPT ![c] = Dropped(all, taken)]
      /\ asked' = [asked EXCEPT ![c] = @ \/ all # rest[c]]
  BY DEF Sent, all, login
<1>10. link[fd[c]].out + taken \in 0 .. Room
  BY <1>3, <1>4, <1>6, SMTT(30) DEF Links, Link
<1> HIDE DEF taken
<1>11. link' \in [Descriptors -> Links]
  BY <1>3, <1>9, <1>10 DEF TypeOK, Links
<1>12. rest' \in [Clients -> Seq(Marks)] /\ \A k \in Clients : Len(rest'[k]) =< SendSize
  BY <1>8, <1>9 DEF TypeOK
<1>13. asked' \in [Clients -> BOOLEAN]
  BY <1>9 DEF TypeOK
<1> QED BY <1>11, <1>12, <1>13

LEMMA RecvDataTyped ==
  ASSUME TypeOK, NEW c \in Clients, fd[c] # Invalid, NEW n \in 1 .. Room, RecvData(c, n)
  PROVE  /\ link' \in [Descriptors -> Links]
         /\ buf' \in [Clients -> Seq(Marks)]
         /\ \A k \in Clients : Len(buf'[k]) < RecvSize
<1> DEFINE more == Repeat(IF owner[fd[c]] = c THEN "this" ELSE "another", n)
           got  == buf[c] \o more
<1>1. more \in Seq(Marks)
  <2>1. "this" \in Marks /\ "another" \in Marks /\ n \in Nat
    BY DEF Marks
  <2> QED BY <2>1, RepeatIsSeq
<1>2. buf[c] \in Seq(Marks)
  BY DEF TypeOK
<1>3. got \in Seq(Marks) /\ Len(got) \in Nat
  BY <1>1, <1>2, ConcatProperties, LenProperties
<1>4. PICK taken \in Taken(Len(got)) :
        /\ Len(got) - taken < RecvSize
        /\ buf' = [buf EXCEPT ![c] = Dropped(got, taken)]
  BY DEF RecvData
<1>5. link' = [link EXCEPT ![fd[c]].in = @ - n] /\ n =< link[fd[c]].in
  BY DEF RecvData, Link
<1> HIDE DEF more, got
<1>6. taken \in 0 .. Len(got)
  BY <1>3 DEF Taken
<1>7. Dropped(got, taken) \in Seq(Marks) /\ Len(Dropped(got, taken)) < RecvSize
  BY <1>3, <1>4, <1>6, DroppedIsSeq
<1>8. fd[c] \in Descriptors /\ link[fd[c]] \in Links
  BY DEF TypeOK
<1>9. link' \in [Descriptors -> Links]
  <2>1. link[fd[c]].in - n \in 0 .. Room
    BY <1>5, <1>8 DEF Links
  <2> QED BY <1>5, <1>8, <2>1 DEF TypeOK, Links
<1> QED BY <1>4, <1>7, <1>9 DEF TypeOK

-----------------------------------------------------------------------------
(* Every step keeps the types and the places.                              *)

LEMMA TypeStep == TypeInv /\ [Next]_vars => TypeInv'
<1> SUFFICES ASSUME TypeOK, Places, [Next]_vars PROVE TypeInv'
  BY DEF TypeInv
<1> USE DEF Places, Placed, Valid
<1>1. ASSUME NEW c \in Clients, TickBegins(c) PROVE TypeInv'
  BY <1>1 DEF TickBegins, Goto, kernel, socket, TypeInv, TypeOK
<1>2. ASSUME NEW c \in Clients, Open(c) PROVE TypeInv'
  <2> PICK d \in NewFd : Opens(c, d) /\ fd' = [fd EXCEPT ![c] = d]
    BY <1>2 DEF Open
  <2>1. d \in Descriptors /\ c \in Owners /\ d # Invalid
    BY DEF NewFd, Free, Owners, Descriptors, Invalid
  <2>2. owner' \in [Descriptors -> Owners] /\ link' \in [Descriptors -> Links]
    BY <2>1, OpensTyped
  <2> QED BY <1>2, <2>1, <2>2 DEF Open, Goto, TypeInv, TypeOK
<1>3. ASSUME NEW c \in Clients, OpenFails(c) PROVE TypeInv'
  BY <1>3 DEF OpenFails, Goto, kernel, socket, TypeInv, TypeOK
<1>4. ASSUME NEW c \in Clients, Connect(c) PROVE TypeInv'
  <2>1. fd[c] \in Descriptors
    BY <1>4 DEF Connect, TypeOK
  <2>2. link' \in [Descriptors -> Links]
    <3>1. link' = [link EXCEPT ![fd[c]] = [@ EXCEPT !.state = "up"]]
      BY <1>4 DEF Connect
    <3>2. link[fd[c]] \in Links
      BY <2>1 DEF TypeOK
    <3>3. [link[fd[c]] EXCEPT !.state = "up"] \in Links
      BY <3>2 DEF Links
    <3> QED BY <2>1, <3>1, <3>3 DEF TypeOK
  <2>3. \A k \in Clients : Len(buf[k]) \in Nat /\ Len(rest[k]) \in Nat
    BY LenProperties DEF TypeOK
  <2>4. "earlier" \in Marks
    BY DEF Marks
  <2>5. /\ Repeat("earlier", Len(buf[c])) \in Seq(Marks)
        /\ Len(Repeat("earlier", Len(buf[c]))) = Len(buf[c])
        /\ Repeat("earlier", Len(rest[c])) \in Seq(Marks)
        /\ Len(Repeat("earlier", Len(rest[c]))) = Len(rest[c])
    BY <2>3, <2>4, RepeatIsSeq
  <2> QED BY <1>4, <2>2, <2>5 DEF Connect, Connected, Goto, TypeInv, TypeOK
<1>5. ASSUME NEW c \in Clients, NEW later \in BOOLEAN, ConnectFails(c, later) PROVE TypeInv'
  <2>1. NoLink \in Links /\ Nobody \in Owners
    BY DEF NoLink, Links, Owners
  <2>2. owner' \in [Descriptors -> Owners] /\ link' \in [Descriptors -> Links]
    <3>1. Closes(fd[c]) \/ UNCHANGED <<owner, link>>
      BY <1>5, Zenon DEF ConnectFails, kernel
    <3>2. CASE Closes(fd[c])
      BY <2>1, <3>2 DEF Closes, TypeOK
    <3>3. CASE UNCHANGED <<owner, link>>
      BY <3>3 DEF TypeOK
    <3> QED BY <3>1, <3>2, <3>3
  <2> QED BY <1>5, <2>2 DEF ConnectFails, Goto, socket, TypeInv, TypeOK
<1>6. ASSUME NEW c \in Clients, Close(c) PROVE TypeInv'
  <2>1. Shut(c)
    BY <1>6 DEF Close
  <2> QED BY <1>6, <2>1, ShutTyped DEF Close, Goto, TypeInv, TypeOK
<1>7. ASSUME NEW c \in Clients, RecvNothing(c) PROVE TypeInv'
  BY <1>7 DEF RecvNothing, Goto, kernel, socket, TypeInv, TypeOK
<1>8. ASSUME NEW c \in Clients, RecvLost(c) PROVE TypeInv'
  <2>1. Shut(c)
    BY <1>8 DEF RecvLost
  <2> QED BY <1>8, <2>1, ShutTyped DEF RecvLost, Goto, TypeInv, TypeOK
<1>9. ASSUME NEW c \in Clients, NEW n \in 1 .. Room, RecvData(c, n) PROVE TypeInv'
  <2>1. fd[c] # Invalid
    BY <1>9 DEF RecvData
  <2>2. /\ link' \in [Descriptors -> Links] /\ buf' \in [Clients -> Seq(Marks)]
        /\ \A k \in Clients : Len(buf'[k]) < RecvSize
    BY <1>9, <2>1, RecvDataTyped
  <2>3. /\ UNCHANGED <<owner, others, fd, status, bound, rest, due, asked>>
        /\ pc' = [pc EXCEPT ![c] = "beat"]
    BY <1>9 DEF RecvData, Goto
  <2> QED BY <2>2, <2>3 DEF TypeInv, TypeOK
<1>10. ASSUME NEW c \in Clients, HeartBeat(c) PROVE TypeInv'
  <2>1. /\ pc' = [pc EXCEPT ![c] = "end"] /\ UNCHANGED others
        /\ due' \in [Clients -> BOOLEAN]
    BY <1>10 DEF HeartBeat, Goto, TypeOK
  <2>2. CASE Valid(c) /\ Sent(c)
    <3>1. fd[c] # Invalid
      BY <2>2
    <3>2. UNCHANGED <<owner, fd, status, bound, buf>>
      BY <2>2 DEF Sent
    <3>3. /\ link' \in [Descriptors -> Links]
          /\ rest' \in [Clients -> Seq(Marks)] /\ asked' \in [Clients -> BOOLEAN]
          /\ \A k \in Clients : Len(rest'[k]) =< SendSize
      BY <2>2, <3>1, SentTyped
    <3> QED BY <2>1, <3>2, <3>3 DEF TypeInv, TypeOK
  <2>3. CASE Shut(c) /\ UNCHANGED asked
    BY <2>1, <2>3, ShutTyped DEF TypeInv, TypeOK
  <2>4. CASE UNCHANGED <<kernel, socket, asked>>
    BY <2>1, <2>4 DEF kernel, socket, TypeInv, TypeOK
  <2> QED BY <1>10, <2>2, <2>3, <2>4 DEF HeartBeat
<1>11. ASSUME NEW c \in Clients, RandCloses(c) PROVE TypeInv'
  <2>1. Shut(c)
    BY <1>11 DEF RandCloses
  <2> QED BY <1>11, <2>1, ShutTyped DEF RandCloses, Goto, TypeInv, TypeOK
<1>12. ASSUME NEW c \in Clients, TickEnds(c) PROVE TypeInv'
  BY <1>12 DEF TickEnds, Goto, kernel, socket, TypeInv, TypeOK
<1>13. ASSUME NEW c \in Clients, Elapse(c) PROVE TypeInv'
  BY <1>13 DEF Elapse, kernel, socket, TypeInv, TypeOK
<1>14. ASSUME NEW d \in Descriptors, NEW answer \in {0, ReplyLen}, ServerReads(d, answer)
       PROVE TypeInv'
  <2>1. link[d] \in Links /\ link[d].out - LoginLen \in 0 .. Room /\ link[d].in + answer \in 0 .. Room
    BY <1>14 DEF ServerReads, TypeOK, Links
  <2>2. link' \in [Descriptors -> Links]
    BY <1>14, <2>1 DEF ServerReads, TypeOK, Links
  <2> QED BY <1>14, <2>2 DEF ServerReads, socket, TypeInv, TypeOK
<1>15. ASSUME NEW d \in Descriptors, ServerCloses(d) PROVE TypeInv'
  <2>1. link' \in [Descriptors -> Links]
    BY <1>15 DEF ServerCloses, TypeOK, Links
  <2> QED BY <1>15, <2>1 DEF ServerCloses, socket, TypeInv, TypeOK
<1>16. ASSUME NEW d \in Descriptors, OtherCloses(d) PROVE TypeInv'
  BY <1>16 DEF OtherCloses, Closes, NoLink, Links, Owners, socket, TypeInv, TypeOK
<1>17. ASSUME OtherOpens PROVE TypeInv'
  <2> PICK d \in NewFd : Opens(Others, d) /\ others' = others \cup {d}
    BY <1>17 DEF OtherOpens
  <2>1. d \in Descriptors /\ Others \in Owners
    BY DEF NewFd, Free, Owners
  <2>2. owner' \in [Descriptors -> Owners] /\ link' \in [Descriptors -> Links]
    BY <2>1, OpensTyped
  <2> QED BY <1>17, <2>1, <2>2 DEF OtherOpens, socket, TypeInv, TypeOK
<1>18. CASE UNCHANGED vars
  BY <1>18 DEF vars, kernel, socket, TypeInv, TypeOK
<1> QED
  BY <1>1, <1>2, <1>3, <1>4, <1>5, <1>6, <1>7, <1>8, <1>9, <1>10, <1>11, <1>12, <1>13,
     <1>14, <1>15, <1>16, <1>17, <1>18 DEF Next, Tick

LEMMA TypeInit == Init => TypeInv
BY EmptyIsSeq DEF Init, TypeInv, TypeOK, Places, Placed, Valid, NoLink, Links, Owners

(* The process's table of descriptors, each client's socket and its place  *)
(* in Tick stay in their types, and neither the kernel nor the send buffer *)
(* is given more than it holds.                                            *)
THEOREM TypeCorrect == Spec => []TypeOK
<1>1. TypeInv => TypeOK
  BY DEF TypeInv
<1> QED BY TypeInit, TypeStep, <1>1, PTL DEF Spec

-----------------------------------------------------------------------------
(* Who holds what.  A client between connect and close may hold a          *)
(* descriptor that is closed already, but nobody else does.                *)

Closing == \A c \in Clients : pc[c] = "close" => owner[fd[c]] \in {c, Nobody}

(* Only a connected client's socket has a connection.                      *)
Linked ==
  /\ \A c \in Clients : Valid(c) => Link(c).state # "none"
  /\ \A d \in Descriptors : owner[d] \notin Clients => link[d] = NoLink

OwnInv == TypeInv /\ DescriptorsOwned /\ Closing /\ Linked

(* What a client shuts is its own, or closed already.                      *)
LEMMA ShutOwned ==
  ASSUME OwnInv, NEW c \in Clients, fd[c] # Invalid, Shut(c), UNCHANGED others,
         pc' = [pc EXCEPT ![c] = "idle"] \/ pc' = [pc EXCEPT ![c] = "beat"]
           \/ pc' = [pc EXCEPT ![c] = "end"]
  PROVE  DescriptorsOwned' /\ Closing' /\ Linked'
<1>1. fd[c] \in Descriptors /\ owner[fd[c]] \in {c, Nobody} /\ c \notin {Others, Nobody}
  BY DEF OwnInv, TypeInv, TypeOK, DescriptorsOwned, Closing
<1>2. /\ owner' = [owner EXCEPT ![fd[c]] = Nobody] /\ link' = [link EXCEPT ![fd[c]] = NoLink]
      /\ fd' = [fd EXCEPT ![c] = Invalid] /\ status' = [status EXCEPT ![c] = "closed"]
  BY DEF Shut, Closes, Cleared
<1>3. /\ owner \in [Descriptors -> Owners] /\ link \in [Descriptors -> Links]
      /\ fd \in [Clients -> Descriptors \cup {Invalid}]
      /\ status \in [Clients -> {"closed", "opened", "connected"}]
      /\ pc \in [Clients -> {"idle", "open", "connect", "close", "recv", "beat", "end"}]
  BY DEF OwnInv, TypeInv, TypeOK
<1>4. \A k \in Clients \ {c} : fd[k] = fd[c] => pc[k] = "close" /\ ~Valid(k)
  BY <1>1 DEF OwnInv, TypeInv, Places, Placed, DescriptorsOwned
<1>5. pc' \in [Clients -> {"idle", "open", "connect", "close", "recv", "beat", "end"}]
      /\ pc'[c] # "close" /\ \A k \in Clients \ {c} : pc'[k] = pc[k]
  BY <1>3
<1>6. DescriptorsOwned'
  <2>1. \A k \in Clients : fd'[k] # Invalid /\ pc'[k] # "close" => owner'[fd'[k]] = k
    BY <1>1, <1>2, <1>3, <1>4, <1>5 DEF OwnInv, DescriptorsOwned
  <2>2. \A d \in Descriptors : owner'[d] \in Clients => fd'[owner'[d]] = d
    BY <1>1, <1>2, <1>3 DEF OwnInv, DescriptorsOwned
  <2>3. \A d \in Descriptors : owner'[d] = Others <=> d \in others'
    BY <1>1, <1>2, <1>3 DEF OwnInv, DescriptorsOwned, Others, Nobody
  <2> QED BY <2>1, <2>2, <2>3 DEF DescriptorsOwned
<1>7. Closing'
  BY <1>1, <1>2, <1>3, <1>4, <1>5 DEF OwnInv, TypeInv, Places, Placed, Closing
<1>8. Linked'
  <2>1. \A k \in Clients : Valid(k)' => Link(k)'.state # "none"
    BY <1>1, <1>2, <1>3, <1>4 DEF OwnInv, Linked, Link, Valid
  <2>2. \A d \in Descriptors : owner'[d] \notin Clients => link'[d] = NoLink
    BY <1>1, <1>2, <1>3 DEF OwnInv, Linked
  <2> QED BY <2>1, <2>2 DEF Linked
<1> QED BY <1>6, <1>7, <1>8

(* A step that opens and closes nothing, and breaks no connection.         *)
NothingOpens ==
  /\ UNCHANGED <<owner, others, fd, status>>
  /\ \A k \in Clients : pc'[k] = "close" <=> pc[k] = "close"
  /\ \A d \in Descriptors : \/ link'[d] = link[d]
                            \/ link[d].state # "none" /\ link'[d].state # "none"

LEMMA NothingOpened == OwnInv /\ NothingOpens => DescriptorsOwned' /\ Closing' /\ Linked'
<1> SUFFICES ASSUME OwnInv, NothingOpens PROVE DescriptorsOwned' /\ Closing' /\ Linked'
  OBVIOUS
<1>1. DescriptorsOwned' /\ Closing'
  BY DEF NothingOpens, OwnInv, DescriptorsOwned, Closing
<1>2. \A k \in Clients : Valid(k)' => Link(k)'.state # "none"
  BY DEF NothingOpens, OwnInv, TypeInv, TypeOK, Linked, Link, Valid
<1>3. \A d \in Descriptors : owner'[d] \notin Clients => link'[d] = NoLink
  BY DEF NothingOpens, OwnInv, Linked, NoLink
<1> QED BY <1>1, <1>2, <1>3 DEF Linked

LEMMA OwnStep == OwnInv /\ [Next]_vars /\ ~Disturbs => OwnInv'
<1> SUFFICES ASSUME OwnInv, [Next]_vars, ~Disturbs
             PROVE  DescriptorsOwned' /\ Closing' /\ Linked'
  BY TypeStep DEF OwnInv
<1> DEFINE Owned == DescriptorsOwned' /\ Closing' /\ Linked'
           Pcs   == [Clients -> {"idle", "open", "connect", "close", "recv", "beat", "end"}]
<1>a. TypeOK /\ Places
  BY DEF OwnInv, TypeInv
<1>b. pc \in Pcs
  BY <1>a DEF TypeOK
<1>1. ASSUME NEW c \in Clients, TickBegins(c) \/ OpenFails(c) \/ RecvNothing(c) \/ TickEnds(c)
      PROVE  Owned
  <2>1. UNCHANGED <<owner, link, others, fd, status>>
    BY <1>1 DEF TickBegins, OpenFails, RecvNothing, TickEnds, kernel, socket
  <2>2. \A k \in Clients : pc'[k] = "close" <=> pc[k] = "close"
    BY <1>1, <1>b DEF TickBegins, OpenFails, RecvNothing, TickEnds, Goto
  <2>3. \A d \in Descriptors : link'[d] = link[d]
    BY <2>1
  <2> QED BY <2>1, <2>2, <2>3, NothingOpened DEF NothingOpens
<1>2. ASSUME NEW c \in Clients, Open(c) PROVE Owned
  <2> PICK d \in NewFd : Opens(c, d) /\ fd' = [fd EXCEPT ![c] = d]
    BY <1>2 DEF Open
  <2>1. /\ d \in Descriptors /\ owner[d] = Nobody /\ c \notin {Others, Nobody} /\ d # Invalid
        /\ owner' = [owner EXCEPT ![d] = c] /\ UNCHANGED <<link, others>>
        /\ status' = [status EXCEPT ![c] = "opened"] /\ pc' = [pc EXCEPT ![c] = "connect"]
        /\ pc[c] = "open"
    BY <1>2 DEF NewFd, Free, Opens, Open, Goto, Descriptors, Invalid
  <2>2. /\ owner \in [Descriptors -> Owners] /\ fd \in [Clients -> Descriptors \cup {Invalid}]
        /\ status \in [Clients -> {"closed", "opened", "connected"}]
        /\ fd[c] = Invalid /\ Nobody \notin Clients /\ Others # Nobody
    BY <1>a, <2>1 DEF TypeOK, Places, Placed, Others, Nobody
  <2>3. DescriptorsOwned'
    <3>1. \A k \in Clients : fd'[k] # Invalid /\ pc'[k] # "close" => owner'[fd'[k]] = k
      BY <1>b, <2>1, <2>2 DEF OwnInv, DescriptorsOwned
    <3>2. \A e \in Descriptors : owner'[e] \in Clients => fd'[owner'[e]] = e
      BY <2>1, <2>2 DEF OwnInv, DescriptorsOwned, Invalid, Descriptors
    <3>3. \A e \in Descriptors : owner'[e] = Others <=> e \in others'
      BY <2>1, <2>2 DEF OwnInv, DescriptorsOwned
    <3> QED BY <3>1, <3>2, <3>3 DEF DescriptorsOwned
  <2>4. Closing'
    <3> SUFFICES ASSUME NEW k \in Clients, pc'[k] = "close" PROVE owner'[fd'[k]] \in {k, Nobody}
      BY DEF Closing
    <3>1. k # c /\ pc[k] = "close" /\ fd'[k] = fd[k]
      BY <1>b, <2>1, <2>2
    <3>2. owner[fd[k]] \in {k, Nobody} /\ fd[k] \in Descriptors
      BY <1>a, <2>2, <3>1 DEF OwnInv, Closing, Places, Placed
    <3>3. owner[fd[k]] = Nobody => owner'[fd[k]] = Nobody
      BY <3>1 DEF Disturbs
    <3> QED BY <2>1, <2>2, <3>1, <3>2, <3>3
  <2>5. Linked'
    <3>1. \A k \in Clients : Valid(k)' => Link(k)'.state # "none"
      BY <2>1, <2>2 DEF OwnInv, Linked, Link, Valid
    <3>2. \A e \in Descriptors : owner'[e] \notin Clients => link'[e] = NoLink
      BY <2>1, <2>2 DEF OwnInv, Linked
    <3> QED BY <3>1, <3>2 DEF Linked
  <2> QED BY <2>3, <2>4, <2>5
<1>3. ASSUME NEW c \in Clients, Connect(c) PROVE Owned
  <2>1. /\ link' = [link EXCEPT ![fd[c]] = [@ EXCEPT !.state = "up"]]
        /\ UNCHANGED <<owner, others, fd>> /\ owner[fd[c]] = c
        /\ status' = [status EXCEPT ![c] = "connected"] /\ pc' = [pc EXCEPT ![c] = "idle"]
        /\ pc[c] = "connect"
    BY <1>3 DEF Connect, Connected, Goto
  <2>2. /\ fd[c] \in Descriptors /\ link \in [Descriptors -> Links]
        /\ status \in [Clients -> {"closed", "opened", "connected"}]
        /\ fd \in [Clients -> Descriptors \cup {Invalid}]
    BY <1>a, <2>1 DEF TypeOK, Places, Placed
  <2>3. DescriptorsOwned' /\ Closing'
    BY <1>b, <2>1 DEF OwnInv, DescriptorsOwned, Closing
  <2>4. /\ link' \in [Descriptors -> Links] /\ link'[fd[c]].state = "up"
        /\ \A d \in Descriptors \ {fd[c]} : link'[d] = link[d]
    <3>1. link[fd[c]] \in Links
      BY <2>2
    <3>2. /\ [link[fd[c]] EXCEPT !.state = "up"] \in Links
          /\ [link[fd[c]] EXCEPT !.state = "up"].state = "up"
      BY <3>1 DEF Links
    <3> QED BY <2>1, <2>2, <3>2
  <2>5. Linked'
    <3>1. \A k \in Clients : Valid(k)' => Link(k)'.state # "none"
      BY <2>1, <2>2, <2>4 DEF OwnInv, Linked, Link, Valid
    <3>2. \A e \in Descriptors : owner'[e] \notin Clients => link'[e] = NoLink
      BY <2>1, <2>4 DEF OwnInv, Linked
    <3> QED BY <3>1, <3>2 DEF Linked
  <2> QED BY <2>3, <2>5
<1>4. ASSUME NEW c \in Clients, NEW later \in BOOLEAN, ConnectFails(c, later) PROVE Owned
  <2>1. /\ UNCHANGED <<others, fd, status>> /\ pc' = [pc EXCEPT ![c] = "close"]
        /\ pc[c] = "connect" /\ \/ Closes(fd[c])
                                \/ UNCHANGED <<owner, link>>
    BY <1>4 DEF ConnectFails, Goto, socket, kernel
  <2>2. /\ fd[c] \in Descriptors /\ owner[fd[c]] = c /\ c \notin {Others, Nobody} /\ ~Valid(c)
        /\ owner \in [Descriptors -> Owners] /\ link \in [Descriptors -> Links]
        /\ fd \in [Clients -> Descriptors \cup {Invalid}] /\ Others # Nobody
    BY <1>a, <2>1 DEF TypeOK, Places, Placed, OwnInv, DescriptorsOwned, Others, Nobody
  <2>3. CASE UNCHANGED <<owner, link>>
    <3>1. DescriptorsOwned' /\ Closing'
      BY <1>b, <2>1, <2>2, <2>3 DEF OwnInv, DescriptorsOwned, Closing
    <3>2. Linked'
      BY <2>1, <2>3 DEF OwnInv, Linked, Link, Valid
    <3> QED BY <3>1, <3>2
  <2>4. CASE Closes(fd[c])
    <3>1. /\ owner' = [owner EXCEPT ![fd[c]] = Nobody]
          /\ link' = [link EXCEPT ![fd[c]] = NoLink]
      BY <2>4 DEF Closes
    <3>2. \A k \in Clients \ {c} : fd[k] = fd[c] => pc[k] = "close" /\ ~Valid(k)
      BY <1>a, <2>2 DEF OwnInv, Places, Placed, DescriptorsOwned, Invalid, Descriptors
    <3>3. DescriptorsOwned'
      <4>1. \A k \in Clients : fd'[k] # Invalid /\ pc'[k] # "close" => owner'[fd'[k]] = k
        BY <1>b, <2>1, <2>2, <3>1, <3>2 DEF OwnInv, DescriptorsOwned
      <4>2. \A e \in Descriptors : owner'[e] \in Clients => fd'[owner'[e]] = e
        BY <2>1, <2>2, <3>1 DEF OwnInv, DescriptorsOwned
      <4>3. \A e \in Descriptors : owner'[e] = Others <=> e \in others'
        BY <2>1, <2>2, <3>1 DEF OwnInv, DescriptorsOwned
      <4> QED BY <4>1, <4>2, <4>3 DEF DescriptorsOwned
    <3>4. Closing'
      BY <1>a, <1>b, <2>1, <2>2, <3>1 DEF OwnInv, Closing, Places, Placed
    <3>5. Linked'
      <4>1. \A k \in Clients : Valid(k)' => Link(k)'.state # "none"
        BY <2>1, <2>2, <3>1, <3>2 DEF OwnInv, Linked, Link, Valid
      <4>2. \A e \in Descriptors : owner'[e] \notin Clients => link'[e] = NoLink
        BY <2>1, <2>2, <3>1 DEF OwnInv, Linked
      <4> QED BY <4>1, <4>2 DEF Linked
    <3> QED BY <3>3, <3>4, <3>5
  <2> QED BY <2>1, <2>3, <2>4
<1>5. ASSUME NEW c \in Clients, Close(c) \/ RecvLost(c) \/ RandCloses(c) PROVE Owned
  <2>1. /\ Shut(c) /\ UNCHANGED others
        /\ pc' = [pc EXCEPT ![c] = "idle"] \/ pc' = [pc EXCEPT ![c] = "beat"]
    BY <1>5 DEF Close, RecvLost, RandCloses, Goto
  <2>2. fd[c] # Invalid
    BY <1>5, <1>a DEF Close, RecvLost, RandCloses, Places, Placed, Valid
  <2> QED BY <2>1, <2>2, ShutOwned
<1>6. ASSUME NEW c \in Clients, NEW n \in 1 .. Room, RecvData(c, n) PROVE Owned
  <2>1. /\ UNCHANGED <<owner, others, fd, status>> /\ pc[c] = "recv"
        /\ pc' = [pc EXCEPT ![c] = "beat"]
        /\ link' = [link EXCEPT ![fd[c]].in = @ - n] /\ link[fd[c]].state # "none"
    BY <1>6 DEF RecvData, Goto, Link
  <2>2. \A k \in Clients : pc'[k] = "close" <=> pc[k] = "close"
    BY <1>b, <2>1
  <2>3. \A d \in Descriptors : \/ link'[d] = link[d]
                               \/ link[d].state # "none" /\ link'[d].state # "none"
    BY <1>a, <2>1 DEF TypeOK, Links
  <2> QED BY <2>1, <2>2, <2>3, NothingOpened DEF NothingOpens
<1>7. ASSUME NEW c \in Clients, HeartBeat(c) PROVE Owned
  <2>1. pc[c] = "beat" /\ pc' = [pc EXCEPT ![c] = "end"] /\ UNCHANGED others
    BY <1>7 DEF HeartBeat, Goto
  <2>2. \A k \in Clients : pc'[k] = "close" <=> pc[k] = "close"
    BY <1>b, <2>1
  <2>3. CASE Link(c).state # "none" /\ Sent(c)
    <3>1. PICK taken : link' = [link EXCEPT ![fd[c]].out = @ + taken]
      BY <2>3 DEF Sent
    <3>2. UNCHANGED <<owner, fd, status>> /\ link[fd[c]].state # "none"
      BY <2>3 DEF Sent, Link
    <3>3. \A d \in Descriptors : \/ link'[d] = link[d]
                                 \/ link[d].state # "none" /\ link'[d].state # "none"
      BY <1>a, <3>1, <3>2 DEF TypeOK, Links
    <3> QED BY <2>1, <2>2, <3>2, <3>3, NothingOpened DEF NothingOpens
  <2>4. CASE Valid(c) /\ Shut(c)
    BY <2>1, <2>4, ShutOwned DEF Valid
  <2>5. CASE UNCHANGED <<kernel, socket, asked>>
    <3>1. UNCHANGED <<owner, link, fd, status>> /\ \A d \in Descriptors : link'[d] = link[d]
      BY <2>5 DEF kernel, socket
    <3> QED BY <2>1, <2>2, <3>1, NothingOpened DEF NothingOpens
  <2> QED BY <1>7, <2>3, <2>4, <2>5 DEF HeartBeat
<1>8. ASSUME NEW c \in Clients, Elapse(c) PROVE Owned
  <2>1. UNCHANGED <<owner, link, others, fd, status, pc>> /\ \A d \in Descriptors : link'[d] = link[d]
    BY <1>8 DEF Elapse, kernel, socket
  <2> QED BY <2>1, NothingOpened DEF NothingOpens
<1>9. ASSUME NEW d \in Descriptors, NEW answer \in {0, ReplyLen},
             ServerReads(d, answer) \/ ServerCloses(d)
      PROVE  Owned
  <2>1. UNCHANGED <<owner, others, fd, status, pc>> /\ link[d].state = "up"
    BY <1>9 DEF ServerReads, ServerCloses, socket
  <2>2. link[d] \in Links
    BY <1>a DEF TypeOK
  <2>3. link'[d].state # "none" /\ \A e \in Descriptors \ {d} : link'[e] = link[e]
    <3>1. CASE ServerReads(d, answer)
      <4>1. link' = [link EXCEPT ![d].out = @ - LoginLen, ![d].in = @ + answer]
        BY <3>1 DEF ServerReads
      <4>2. link'[d].state = link[d].state /\ \A e \in Descriptors \ {d} : link'[e] = link[e]
        BY <1>a, <2>2, <4>1 DEF TypeOK, Links
      <4> QED BY <2>1, <4>2
    <3>2. CASE ServerCloses(d)
      <4>1. link' = [link EXCEPT ![d] = [@ EXCEPT !.state = "over"]]
        BY <3>2 DEF ServerCloses
      <4> QED BY <1>a, <2>2, <4>1 DEF TypeOK, Links
    <3> QED BY <1>9, <3>1, <3>2
  <2>4. \A e \in Descriptors : \/ link'[e] = link[e]
                               \/ link[e].state # "none" /\ link'[e].state # "none"
    BY <2>1, <2>3
  <2> QED BY <2>1, <2>4, NothingOpened DEF NothingOpens
<1>10. ASSUME NEW d \in Descriptors, OtherCloses(d) PROVE Owned
  <2>1. /\ owner' = [owner EXCEPT ![d] = Nobody] /\ link' = [link EXCEPT ![d] = NoLink]
        /\ others' = others \ {d} /\ UNCHANGED <<fd, status, pc>> /\ owner[d] = Others
    BY <1>10 DEF OtherCloses, Closes, socket, OwnInv, DescriptorsOwned
  <2>2. /\ owner \in [Descriptors -> Owners] /\ link \in [Descriptors -> Links]
        /\ fd \in [Clients -> Descriptors \cup {Invalid}]
        /\ Others \notin Clients /\ Nobody \notin Clients /\ Others # Nobody
    BY <1>a DEF TypeOK, Others, Nobody
  <2>3. \A k \in Clients : fd[k] # d
    BY <1>a, <2>1, <2>2, Invalid \notin Descriptors
       DEF OwnInv, DescriptorsOwned, Closing, Invalid, Descriptors
  <2>4. DescriptorsOwned' /\ Closing'
    BY <2>1, <2>2, <2>3 DEF OwnInv, DescriptorsOwned, Closing
  <2>5. Linked'
    BY <2>1, <2>2, <2>3 DEF OwnInv, Linked, Link, Valid
  <2> QED BY <2>4, <2>5
<1>11. ASSUME OtherOpens PROVE Owned
  <2> PICK d \in NewFd : Opens(Others, d) /\ others' = others \cup {d}
    BY <1>11 DEF OtherOpens
  <2>1. /\ d \in Descriptors /\ owner[d] = Nobody /\ owner' = [owner EXCEPT ![d] = Others]
        /\ UNCHANGED <<link, fd, status, pc>>
    BY <1>11 DEF NewFd, Free, Opens, OtherOpens, socket
  <2>2. /\ owner \in [Descriptors -> Owners]
        /\ fd \in [Clients -> Descriptors \cup {Invalid}]
        /\ Others \notin Clients /\ Nobody \notin Clients /\ Others # Nobody
    BY <1>a DEF TypeOK, Others, Nobody
  <2>3. \A k \in Clients : fd[k] # d
    <3> SUFFICES ASSUME NEW k \in Clients, fd[k] = d PROVE FALSE
      OBVIOUS
    <3>1. pc[k] = "close"
      BY <2>1, <2>2 DEF OwnInv, DescriptorsOwned, Invalid, Descriptors
    <3> QED BY <2>1, <2>2, <3>1 DEF Disturbs
  <2>4. DescriptorsOwned' /\ Closing'
    BY <2>1, <2>2, <2>3 DEF OwnInv, DescriptorsOwned, Closing, TypeInv, Places, Placed
  <2>5. Linked'
    BY <2>1, <2>2, <2>3 DEF OwnInv, Linked, Link, Valid
  <2> QED BY <2>4, <2>5
<1>12. CASE UNCHANGED vars
  <2>1. UNCHANGED <<owner, link, others, fd, status, pc>> /\ \A d \in Descriptors : link'[d] = link[d]
    BY <1>12 DEF vars, kernel, socket
  <2> QED BY <2>1, NothingOpened DEF NothingOpens
<1> QED
  BY <1>1, <1>2, <1>3, <1>4, <1>5, <1>6, <1>7, <1>8, <1>9, <1>10, <1>11, <1>12 DEF Next, Tick

LEMMA OwnInit == Init => OwnInv
BY TypeInit
   DEF Init, OwnInv, DescriptorsOwned, Closing, Linked, Valid, Others, Nobody

LEMMA OwnedIsConnected == OwnInv => ValidIsConnected
BY DEF OwnInv, TypeInv, Places, Placed, DescriptorsOwned, Linked, ValidIsConnected, Valid

LEMMA UndisturbedStep == OwnInv /\ [Next /\ ~Disturbs]_vars => OwnInv'
<1>1. CASE Next /\ ~Disturbs
  BY <1>1, OwnStep
<1>2. ASSUME OwnInv, UNCHANGED vars PROVE OwnInv'
  <2>1. ~Disturbs
    BY <1>2 DEF Disturbs, vars, kernel
  <2> QED BY <1>2, <2>1, OwnStep
<1> QED BY <1>1, <1>2

(* As long as nobody opens a descriptor between the two closes of a        *)
(* connect that fails late, each open descriptor is held by the part of    *)
(* the process that opened it, whatever else fails: none leaks, none is    *)
(* closed by somebody else, and a valid() socket has a connection.         *)
THEOREM DescriptorsKept == UndisturbedSpec => [](DescriptorsOwned /\ ValidIsConnected)
<1>1. OwnInv => DescriptorsOwned /\ ValidIsConnected
  BY OwnedIsConnected DEF OwnInv
<1> QED BY OwnInit, UndisturbedStep, <1>1, PTL DEF UndisturbedSpec

-----------------------------------------------------------------------------
(* With one worker nobody comes between the two closes.                    *)

OneBusy == \A c, k \in Clients : pc[c] # "idle" /\ pc[k] # "idle" => c = k

LEMMA NoneBusy ==
  ASSUME Threads = 1, Cardinality(Busy) < Threads
  PROVE  \A c \in Clients : pc[c] = "idle"
<1>1. IsFiniteSet(Busy)
  BY FS_Subset DEF Busy
<1>2. Cardinality(Busy) \in Nat
  BY <1>1, FS_CardinalityType
<1>3. Cardinality(Busy) = 0
  BY <1>2
<1>4. Busy = {}
  BY <1>1, <1>3, FS_EmptySet
<1> QED BY <1>4 DEF Busy

(* A step that is not the beginning of a Tick leaves an idle client idle.  *)
LEMMA OneBusyStep ==
  ASSUME Threads = 1, TypeInv, OneBusy, [Next]_vars
  PROVE  OneBusy'
<1>1. pc \in [Clients -> {"idle", "open", "connect", "close", "recv", "beat", "end"}]
  BY DEF TypeInv, TypeOK
<1>2. ASSUME NEW c \in Clients, TickBegins(c) PROVE OneBusy'
  <2>1. Cardinality(Busy) < Threads
    BY <1>2 DEF TickBegins
  <2>2. \A k \in Clients : pc[k] = "idle"
    BY <2>1, NoneBusy
  <2>3. \A k \in Clients \ {c} : pc'[k] = pc[k]
    BY <1>1, <1>2 DEF TickBegins, Goto
  <2> QED BY <2>2, <2>3 DEF OneBusy
<1>3. ASSUME NEW c \in Clients, Tick(c) PROVE OneBusy'
  <2>1. pc[c] # "idle"
    BY <1>3 DEF Tick, Open, OpenFails, Connect, ConnectFails, Close, RecvNothing, RecvLost,
                RecvData, HeartBeat, RandCloses, TickEnds
  <2>2. \A k \in Clients \ {c} : pc'[k] = pc[k]
    BY <1>1, <1>3 DEF Tick, Open, OpenFails, Connect, ConnectFails, Close, RecvNothing,
                      RecvLost, RecvData, HeartBeat, RandCloses, TickEnds, Goto
  <2> QED BY <2>1, <2>2 DEF OneBusy
<1>4. ASSUME UNCHANGED pc PROVE OneBusy'
  BY <1>4 DEF OneBusy
<1>5. ASSUME NEW c \in Clients, Elapse(c) PROVE OneBusy'
  BY <1>4, <1>5 DEF Elapse
<1>6. ASSUME NEW d \in Descriptors, NEW answer \in {0, ReplyLen},
             ServerReads(d, answer) \/ ServerCloses(d) \/ OtherCloses(d)
      PROVE  OneBusy'
  BY <1>4, <1>6 DEF ServerReads, ServerCloses, OtherCloses
<1>7. CASE OtherOpens
  BY <1>4, <1>7 DEF OtherOpens
<1>8. CASE UNCHANGED vars
  BY <1>4, <1>8 DEF vars
<1> QED BY <1>2, <1>3, <1>5, <1>6, <1>7, <1>8 DEF Next

(* Only Open and OtherOpens open anything.                                 *)
LEMMA OneBusyUndisturbed ==
  ASSUME Threads = 1, OwnInv, OneBusy, [Next]_vars
  PROVE  ~Disturbs
<1> SUFFICES ASSUME NEW c \in Clients, pc[c] = "close",
                    owner[fd[c]] = Nobody, owner'[fd[c]] # Nobody
             PROVE  FALSE
  BY DEF Disturbs
<1>1. fd[c] \in Descriptors /\ owner \in [Descriptors -> Owners]
  BY DEF OwnInv, TypeInv, TypeOK, Places, Placed
<1>2. ~(Cardinality(Busy) < Threads)
  BY NoneBusy
<1>3. ASSUME NEW d, Closes(d) PROVE FALSE
  BY <1>1, <1>3 DEF Closes
<1>4. ASSUME UNCHANGED owner PROVE FALSE
  BY <1>4
<1>5. ASSUME NEW k \in Clients, Tick(k) PROVE FALSE
  <2>1. k = c
    BY <1>5 DEF OneBusy, Tick, Open, OpenFails, Connect, ConnectFails, Close, RecvNothing,
                RecvLost, RecvData, HeartBeat, RandCloses, TickEnds
  <2>2. Close(c)
    BY <1>5, <2>1 DEF Tick, Open, OpenFails, Connect, ConnectFails, RecvNothing, RecvLost,
                      RecvData, HeartBeat, RandCloses, TickEnds
  <2> QED BY <1>3, <2>2 DEF Close, Shut
<1>6. ASSUME NEW k \in Clients, TickBegins(k) \/ Elapse(k) PROVE FALSE
  BY <1>4, <1>6 DEF TickBegins, Elapse, kernel
<1>7. ASSUME NEW d \in Descriptors, NEW answer \in {0, ReplyLen},
             ServerReads(d, answer) \/ ServerCloses(d) \/ OtherCloses(d)
      PROVE  FALSE
  BY <1>3, <1>4, <1>7 DEF ServerReads, ServerCloses, OtherCloses
<1>8. CASE OtherOpens
  BY <1>2, <1>8 DEF OtherOpens
<1>9. CASE UNCHANGED vars
  BY <1>4, <1>9 DEF vars, kernel
<1> QED BY <1>5, <1>6, <1>7, <1>8, <1>9 DEF Next

(* With a single worker in the pool the second close comes too soon to     *)
(* meet anything: descriptors and connections are kept as they should be   *)
(* without any assumption about what else happens.                         *)
THEOREM OneWorkerOwns == Spec => [](Threads = 1 => DescriptorsOwned /\ ValidIsConnected)
<1> DEFINE Inv == Threads = 1 => OwnInv /\ OneBusy
<1>1. Init => Inv
  <2>1. Init => OneBusy
    BY DEF Init, OneBusy
  <2> QED BY <2>1, OwnInit
<1>2. Inv /\ [Next]_vars => Inv'
  <2> SUFFICES ASSUME Threads = 1, OwnInv, OneBusy, [Next]_vars PROVE OwnInv' /\ OneBusy'
    OBVIOUS
  <2>1. OneBusy'
    BY OneBusyStep DEF OwnInv
  <2>2. ~Disturbs
    BY OneBusyUndisturbed
  <2> QED BY <2>1, <2>2, OwnStep
<1>3. Inv => (Threads = 1 => DescriptorsOwned /\ ValidIsConnected)
  BY OwnedIsConnected DEF OwnInv
<1> QED BY <1>1, <1>2, <1>3, PTL DEF Spec

-----------------------------------------------------------------------------
(* A socket without a connection has nothing in its buffers, and the bytes *)
(* in those of a connection have marks among M.                            *)

AllIn(s, M) == \A i \in DOMAIN s : s[i] \in M

OwnBytes(c, M) ==
  /\ ~Valid(c) => buf[c] = <<>> /\ rest[c] = <<>>
  /\ AllIn(buf[c], M) /\ AllIn(rest[c], M)

Bytes(M) == \A c \in Clients : OwnBytes(c, M)

(* What the connections' descriptors may be: each its client's, if other   *)
(* connections' bytes are to be ruled out.                                 *)
Reading(M) == "another" \in M \/ \A c \in Clients : Valid(c) => owner[fd[c]] = c

(* What another client's step leaves alone.                                *)
SameBytes(k) ==
  fd'[k] = fd[k] /\ status'[k] = status[k] /\ buf'[k] = buf[k] /\ rest'[k] = rest[k]

LEMMA SameBytesKept ==
  ASSUME NEW M, NEW k \in Clients, OwnBytes(k, M), SameBytes(k)
  PROVE  OwnBytes(k, M)'
BY DEF OwnBytes, SameBytes, Valid, AllIn

LEMMA AllInConcat ==
  ASSUME NEW M \in SUBSET Marks, NEW s \in Seq(Marks), AllIn(s, M),
         NEW what \in M, NEW n \in Nat
  PROVE  s \o Repeat(what, n) \in Seq(Marks) /\ AllIn(s \o Repeat(what, n), M)
<1> DEFINE more == Repeat(what, n)
<1>1. more \in Seq(Marks) /\ Len(more) = n /\ \A i \in 1 .. n : more[i] = what
  <2>1. what \in Marks
    OBVIOUS
  <2> QED BY <2>1, RepeatIsSeq
<1> HIDE DEF more
<1>2. /\ s \o more \in Seq(Marks) /\ Len(s \o more) = Len(s) + Len(more)
      /\ Len(s) \in Nat
      /\ \A i \in 1 .. Len(s) + Len(more) :
           (s \o more)[i] = IF i =< Len(s) THEN s[i] ELSE more[i - Len(s)]
  BY <1>1, ConcatProperties, LenProperties
<1>3. DOMAIN (s \o more) = 1 .. Len(s) + Len(more) /\ DOMAIN s = 1 .. Len(s)
  BY <1>2, LenProperties
<1>4. AllIn(s \o more, M)
  BY <1>1, <1>2, <1>3 DEF AllIn
<1> QED BY <1>2, <1>4 DEF more

LEMMA AllInDropped ==
  ASSUME NEW M \in SUBSET Marks, NEW s \in Seq(Marks), AllIn(s, M), NEW n \in 0 .. Len(s)
  PROVE  AllIn(Dropped(s, n), M)
<1>1. /\ Dropped(s, n) \in Seq(Marks) /\ Len(Dropped(s, n)) = Len(s) - n
      /\ \A i \in 1 .. Len(s) - n : Dropped(s, n)[i] = s[n + i]
  BY DroppedIsSeq
<1>2. Len(s) \in Nat /\ DOMAIN s = 1 .. Len(s) /\ DOMAIN Dropped(s, n) = 1 .. Len(s) - n
  BY <1>1, LenProperties
<1>3. ASSUME NEW i \in 1 .. Len(s) - n PROVE Dropped(s, n)[i] \in M
  <2>1. n + i \in DOMAIN s
    BY <1>2
  <2>2. s[n + i] \in M
    BY <2>1 DEF AllIn
  <2> QED BY <1>1, <2>2
<1> QED BY <1>2, <1>3 DEF AllIn

LEMMA BytesStep ==
  ASSUME NEW M \in SUBSET Marks, "this" \in M,
         TypeInv, Reading(M), Bytes(M), [Next]_vars
  PROVE  Bytes(M)'
<1>a. TypeOK /\ Places /\ Bytes(M)
  BY DEF TypeInv
<1>b. /\ fd \in [Clients -> Descriptors \cup {Invalid}]
      /\ status \in [Clients -> {"closed", "opened", "connected"}]
      /\ buf \in [Clients -> Seq(Marks)] /\ rest \in [Clients -> Seq(Marks)]
  BY <1>a DEF TypeOK
<1>1. ASSUME UNCHANGED <<fd, status, buf, rest>> PROVE Bytes(M)'
  BY <1>1, <1>a, SameBytesKept DEF Bytes, SameBytes
<1>2. ASSUME NEW c \in Clients, Shut(c) PROVE Bytes(M)'
  <2>1. /\ fd' = [fd EXCEPT ![c] = Invalid] /\ status' = [status EXCEPT ![c] = "closed"]
        /\ buf' = [buf EXCEPT ![c] = <<>>] /\ rest' = [rest EXCEPT ![c] = <<>>]
    BY <1>2 DEF Shut, Cleared
  <2>2. OwnBytes(c, M)'
    BY <1>b, <2>1 DEF OwnBytes, AllIn
  <2>3. \A k \in Clients \ {c} : SameBytes(k)
    BY <2>1 DEF SameBytes
  <2> QED BY <1>a, <2>2, <2>3, SameBytesKept DEF Bytes
<1>3. ASSUME NEW c \in Clients, Open(c) PROVE Bytes(M)'
  <2>1. PICK d : fd' = [fd EXCEPT ![c] = d]
    BY <1>3 DEF Open
  <2>2. status' = [status EXCEPT ![c] = "opened"] /\ UNCHANGED <<buf, rest>> /\ pc[c] = "open"
    BY <1>3 DEF Open
  <2>3. ~Valid(c)
    BY <1>a, <2>2 DEF Places, Placed, Valid
  <2>4. OwnBytes(c, M)'
    BY <1>a, <2>2, <2>3 DEF Bytes, OwnBytes, AllIn
  <2>5. \A k \in Clients \ {c} : SameBytes(k)
    BY <2>1, <2>2 DEF SameBytes
  <2> QED BY <1>a, <2>4, <2>5, SameBytesKept DEF Bytes
<1>4. ASSUME NEW c \in Clients, Connect(c) PROVE Bytes(M)'
  <2>1. /\ pc[c] = "connect" /\ UNCHANGED fd /\ status' = [status EXCEPT ![c] = "connected"]
        /\ buf' = [buf EXCEPT ![c] = Repeat("earlier", Len(buf[c]))]
        /\ rest' = [rest EXCEPT ![c] = Repeat("earlier", Len(rest[c]))]
    BY <1>4 DEF Connect, Connected
  <2>2. buf[c] = <<>> /\ rest[c] = <<>>
    BY <1>a, <2>1 DEF Places, Placed, Bytes, OwnBytes
  <2>3. Repeat("earlier", Len(<<>>)) = <<>>
    BY DEF Repeat
  <2>4. buf'[c] = <<>> /\ rest'[c] = <<>>
    BY <1>b, <2>1, <2>2, <2>3
  <2>5. OwnBytes(c, M)'
    BY <2>4 DEF OwnBytes, AllIn
  <2>6. \A k \in Clients \ {c} : SameBytes(k)
    BY <2>1 DEF SameBytes
  <2> QED BY <1>a, <2>5, <2>6, SameBytesKept DEF Bytes
<1>5. ASSUME NEW c \in Clients, NEW n \in 1 .. Room, RecvData(c, n) PROVE Bytes(M)'
  <2> DEFINE mark == IF owner[fd[c]] = c THEN "this" ELSE "another"
             got  == buf[c] \o Repeat(mark, n)
  <2>1. pc[c] = "recv" /\ UNCHANGED <<fd, status, rest>>
    BY <1>5 DEF RecvData
  <2>2. Valid(c) /\ mark \in M
    BY <1>a, <2>1 DEF Places, Placed, Reading, Valid
  <2>3. PICK taken \in Taken(Len(got)) : buf' = [buf EXCEPT ![c] = Dropped(got, taken)]
    BY <1>5 DEF RecvData
  <2>4. buf[c] \in Seq(Marks) /\ AllIn(buf[c], M)
    BY <1>a, <1>b DEF Bytes, OwnBytes
  <2> HIDE DEF mark
  <2>5. got \in Seq(Marks) /\ AllIn(got, M)
    <3>1. n \in Nat
      OBVIOUS
    <3> QED BY <2>2, <2>4, <3>1, AllInConcat
  <2> HIDE DEF got
  <2>6. taken \in 0 .. Len(got)
    BY <2>5, LenProperties DEF Taken
  <2>7. AllIn(Dropped(got, taken), M)
    BY <2>5, <2>6, AllInDropped
  <2>8. OwnBytes(c, M)'
    <3>1. Valid(c)' /\ buf'[c] = Dropped(got, taken) /\ rest'[c] = rest[c]
      BY <1>b, <2>1, <2>2, <2>3 DEF Valid
    <3>2. AllIn(rest[c], M)
      BY <1>a DEF Bytes, OwnBytes
    <3> QED BY <2>7, <3>1, <3>2 DEF OwnBytes
  <2>9. \A k \in Clients \ {c} : SameBytes(k)
    BY <2>1, <2>3 DEF SameBytes
  <2> QED BY <1>a, <2>8, <2>9, SameBytesKept DEF Bytes
<1>6. ASSUME NEW c \in Clients, Valid(c), Sent(c) PROVE Bytes(M)'
  <2> DEFINE login == rest[c] \o Repeat("this", LoginLen)
             room  == Room - Link(c).out
  <2>1. PICK all \in {rest[c], login} :
          rest' = [rest EXCEPT ![c] = Dropped(all, IF Len(all) =< room THEN Len(all) ELSE room)]
    BY <1>6 DEF Sent
  <2>2. UNCHANGED <<fd, status, buf>>
    BY <1>6 DEF Sent
  <2>3. rest[c] \in Seq(Marks) /\ AllIn(rest[c], M)
    BY <1>a, <1>b DEF Bytes, OwnBytes
  <2>4. login \in Seq(Marks) /\ AllIn(login, M)
    <3>1. LoginLen \in Nat
      OBVIOUS
    <3> QED BY <2>3, <3>1, AllInConcat
  <2> HIDE DEF login
  <2>5. all \in Seq(Marks) /\ AllIn(all, M)
    BY <2>3, <2>4
  <2>6. Len(all) \in Nat /\ room \in 0 .. Room
    <3>1. link[fd[c]] \in Links
      BY <1>a, <1>6 DEF TypeOK, Valid
    <3> QED BY <2>5, <3>1, LenProperties DEF Links, Link
  <2> DEFINE taken == IF Len(all) =< room THEN Len(all) ELSE room
  <2>7. taken \in 0 .. Len(all)
    BY <2>6
  <2> HIDE DEF taken
  <2>8. AllIn(Dropped(all, taken), M)
    BY <2>5, <2>7, AllInDropped
  <2>9. rest' = [rest EXCEPT ![c] = Dropped(all, taken)]
    BY <2>1 DEF taken
  <2>10. OwnBytes(c, M)'
    <3>1. Valid(c)' /\ rest'[c] = Dropped(all, taken) /\ buf'[c] = buf[c]
      BY <1>b, <1>6, <2>2, <2>9 DEF Valid
    <3>2. AllIn(buf[c], M)
      BY <1>a DEF Bytes, OwnBytes
    <3> QED BY <2>8, <3>1, <3>2 DEF OwnBytes
  <2>11. \A k \in Clients \ {c} : SameBytes(k)
    BY <2>2, <2>9 DEF SameBytes
  <2> QED BY <1>a, <2>10, <2>11, SameBytesKept DEF Bytes
<1>7. ASSUME NEW c \in Clients, TickBegins(c) \/ OpenFails(c) \/ RecvNothing(c)
                                  \/ TickEnds(c) \/ Elapse(c)
      PROVE  Bytes(M)'
  BY <1>1, <1>7 DEF TickBegins, OpenFails, RecvNothing, TickEnds, Elapse, socket
<1>8. ASSUME NEW c \in Clients, NEW later \in BOOLEAN, ConnectFails(c, later) PROVE Bytes(M)'
  BY <1>1, <1>8 DEF ConnectFails, socket
<1>9. ASSUME NEW c \in Clients, Close(c) \/ RecvLost(c) \/ RandCloses(c) PROVE Bytes(M)'
  BY <1>2, <1>9 DEF Close, RecvLost, RandCloses
<1>10. ASSUME NEW c \in Clients, HeartBeat(c) PROVE Bytes(M)'
  <2>1. UNCHANGED <<kernel, socket, asked>> => Bytes(M)'
    BY <1>1 DEF socket
  <2> QED BY <1>2, <1>6, <1>10, <2>1 DEF HeartBeat
<1>11. ASSUME NEW d \in Descriptors, NEW answer \in {0, ReplyLen},
              ServerReads(d, answer) \/ ServerCloses(d) \/ OtherCloses(d)
       PROVE  Bytes(M)'
  BY <1>1, <1>11 DEF ServerReads, ServerCloses, OtherCloses, socket
<1>12. CASE OtherOpens
  BY <1>1, <1>12 DEF OtherOpens, socket
<1>13. CASE UNCHANGED vars
  BY <1>1, <1>13 DEF vars, socket
<1> QED BY <1>3, <1>4, <1>5, <1>7, <1>8, <1>9, <1>10, <1>11, <1>12, <1>13 DEF Next, Tick

LEMMA BytesInit == ASSUME NEW M PROVE Init => Bytes(M)
BY DEF Init, Bytes, OwnBytes, AllIn

LEMMA OwnReads == OwnInv => Reading({"this"})
BY DEF OwnInv, TypeInv, Places, Placed, DescriptorsOwned, Reading, Valid

LEMMA ThisIsOfThisConnection == Bytes({"this"}) => BytesOfThisConnection
BY DEF Bytes, OwnBytes, AllIn, BytesOfThisConnection

(* No byte of an earlier connection is in the buffers of a later one,      *)
(* whoever opens and closes what in between.                               *)
NothingCarriedOver ==
  \A c \in Clients :
    /\ \A i \in DOMAIN buf[c] : buf[c][i] # "earlier"
    /\ \A i \in DOMAIN rest[c] : rest[c][i] # "earlier"

(* However a connection came to its end, the next one begins with empty    *)
(* buffers although connect does not reset their lengths, in every         *)
(* behaviour of any number of workers, the second close of a late failure  *)
(* included.                                                               *)
THEOREM NothingCarriedOverKept == Spec => []NothingCarriedOver
<1> DEFINE M == {"this", "another"}
<1>1. M \in SUBSET Marks /\ "this" \in M /\ Reading(M)
  BY DEF Marks, Reading
<1>2. Bytes(M) => NothingCarriedOver
  BY DEF Bytes, OwnBytes, AllIn, NothingCarriedOver
<1> HIDE DEF M
<1>3. Init => TypeInv /\ Bytes(M)
  BY TypeInit, BytesInit
<1>4. TypeInv /\ Bytes(M) /\ [Next]_vars => (TypeInv /\ Bytes(M))'
  BY <1>1, TypeStep, BytesStep
<1> QED BY <1>2, <1>3, <1>4, PTL DEF Spec

(* And as long as nobody opens a descriptor between the two closes of a    *)
(* late failure, no client reads what was sent to another.                 *)
THEOREM BytesKept == UndisturbedSpec => []BytesOfThisConnection
<1> DEFINE M == {"this"}
<1>1. M \in SUBSET Marks /\ "this" \in M
  BY DEF Marks
<1>2. (Bytes(M) => BytesOfThisConnection) /\ (OwnInv => Reading(M) /\ TypeInv)
  BY ThisIsOfThisConnection, OwnReads DEF OwnInv
<1> HIDE DEF M
<1>3. Init => OwnInv /\ Bytes(M)
  BY OwnInit, BytesInit
<1>4. OwnInv /\ Bytes(M) /\ [Next /\ ~Disturbs]_vars => (OwnInv /\ Bytes(M))'
  BY <1>1, <1>2, UndisturbedStep, BytesStep
<1> QED BY <1>2, <1>3, <1>4, PTL DEF UndisturbedSpec

(* With one worker it needs no such condition.                             *)
THEOREM OneWorkerBytes == Spec => [](Threads = 1 => BytesOfThisConnection)
<1> DEFINE M   == {"this"}
           Inv == Threads = 1 => OwnInv /\ OneBusy /\ Bytes(M)
<1>1. M \in SUBSET Marks /\ "this" \in M
  BY DEF Marks
<1>2. (Bytes(M) => BytesOfThisConnection) /\ (OwnInv => Reading(M) /\ TypeInv)
  BY ThisIsOfThisConnection, OwnReads DEF OwnInv
<1> HIDE DEF M
<1>3. Init => Inv
  <2>1. Init => OneBusy
    BY DEF Init, OneBusy
  <2> QED BY <2>1, OwnInit, BytesInit
<1>4. Inv /\ [Next]_vars => Inv'
  <2> SUFFICES ASSUME Threads = 1, OwnInv, OneBusy, Bytes(M), [Next]_vars
               PROVE  OwnInv' /\ OneBusy' /\ Bytes(M)'
    OBVIOUS
  <2>1. OneBusy' /\ ~Disturbs
    BY <1>2, OneBusyStep, OneBusyUndisturbed
  <2>2. Bytes(M)'
    BY <1>1, <1>2, BytesStep
  <2> QED BY <2>1, <2>2, OwnStep
<1>5. Inv => (Threads = 1 => BytesOfThisConnection)
  BY <1>2
<1> QED BY <1>3, <1>4, <1>5, PTL DEF Spec
=============================================================================
