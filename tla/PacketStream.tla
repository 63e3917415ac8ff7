---------------------------- MODULE PacketStream ----------------------------
(***************************************************************************)
(* From a stream of bytes back to packets: a client sends packets, each a  *)
(* header of HeadLen bytes with the packet's size in it and a body; the    *)
(* receiving half of ClientSocket collects what has arrived in its buffer, *)
(* and NetService takes whole packets off its front.  recv_ex is recv_data *)
(* followed by OnRecvMessage, which calls PeekPacket until that finds no   *)
(* packet, and drops what was read from the buffer.                        *)
(*                                                                         *)
(* Packets are numbered in the order of sending and a byte is known by its *)
(* packet and its place there.  What the client counts in the size is a    *)
(* parameter: PacketEncoder counts the header, PeekPacket does not, so the *)
(* two fall out of step.  A header read there, at a byte that starts no    *)
(* packet, shows any size at all, and the same one whenever it is read.    *)
(***************************************************************************)
EXTENDS Integers, Sequences

CONSTANTS
  BufSize,     (* max_c2s_pkg_size, the size of m_recv_buffer              *)
  HeadLen,     (* PacketHead::GetSize: two bytes of size, two of id        *)
  Base,        (* values of a byte: 256                                    *)
  Bodies,      (* lengths of the bodies the client sends                   *)
  SizeExtra,   (* what the client counts in the size besides the body      *)
  MaxPackets   (* bound: packets sent over one connection                  *)

ASSUME StreamAssumption ==
  /\ HeadLen \in Nat \ {0}
  /\ BufSize \in Nat /\ BufSize > HeadLen
  /\ Base \in Nat /\ Base % 2 = 0 /\ Base > 0
  /\ Bodies \subseteq 1 .. Base * Base - 1
  /\ SizeExtra \in Nat
  /\ MaxPackets \in Nat

VARIABLES
  up,        (* the server's socket is connected                           *)
  closed,    (* the client has closed its end                              *)
  sent,      (* the body lengths of the packets sent                       *)
  wire,      (* bytes sent and not received                                *)
  buffer,    (* m_recv_buffer up to m_recv_buffer_len                      *)
  pc,        (* "idle", or "peek" inside OnRecvMessage                     *)
  isFull,    (* recv_data returned conn_error_code_recv_not_enough_buffer  *)
  read,      (* nReadTotal                                                 *)
  shown,     (* the size PeekPacket found in the header it reads next      *)
  stream,    (* history: all bytes sent                                    *)
  taken,     (* history: all bytes PeekPacket took off, in order           *)
  cause      (* history: why the server gave the connection up             *)

vars == <<up, closed, sent, wire, buffer, pc, isFull, read, shown, stream,
          taken, cause>>

Unseen == -1   (* of shown: PeekPacket has not come to that header         *)

Packet(n, len) == [k \in 1 .. HeadLen + len |-> <<n, k>>]

(* A byte below Base / 2 is itself; one above is negative as a char, and   *)
(* the or with it sets all the bits of the size's upper byte.              *)
DecodedSize(size) ==
  IF size % Base < Base \div 2
  THEN size
  ELSE Base * (Base - 1) + (size % Base)

(* What PacketHead::Decode may make of the size in the header at the front *)
(* of s, as the client wrote it there in Base * Base values.               *)
SizesAt(s) ==
  IF s[1][2] = 1
  THEN {DecodedSize((sent[s[1][1]] + SizeExtra) % (Base * Base))}
  ELSE 0 .. Base * Base - 1

(* Faulty: what is in the buffer is not counted                            *)
Space_OfEmpty == BufSize

Space == BufSize - Len(buffer)

Unread == SubSeq(buffer, read + 1, Len(buffer))

(* The size in the header PeekPacket reads next: bytes do not change.      *)
NextSizes == IF shown = Unseen THEN SizesAt(Unread) ELSE {shown}

-----------------------------------------------------------------------------
(* The client.                                                             *)

ClientSends(len) ==
  /\ ~closed /\ up
  /\ Len(sent) < MaxPackets
  /\ sent' = Append(sent, len)
  /\ wire' = wire \o Packet(Len(sent) + 1, len)
  /\ stream' = stream \o Packet(Len(sent) + 1, len)
  /\ UNCHANGED <<up, closed, buffer, pc, isFull, read, shown, taken, cause>>

ClientCloses ==
  /\ ~closed
  /\ closed' = TRUE
  /\ UNCHANGED <<up, sent, wire, buffer, pc, isFull, read, shown, stream,
                 taken, cause>>

-----------------------------------------------------------------------------
(* recv_ex.                                                                *)

Disconnect(why) ==
  /\ up' = FALSE
  /\ cause' = why
  /\ buffer' = <<>>
  /\ pc' = "idle"
  /\ isFull' = FALSE
  /\ read' = 0
  /\ UNCHANGED <<closed, sent, wire, stream, taken>>

(* Faulty: it takes a buffer for full too early                            *)
RecvData_StopsEarly ==
  /\ up /\ pc = "idle"
  /\ \E k \in 1 .. Len(wire) :
       /\ k =< Space
       /\ buffer' = buffer \o SubSeq(wire, 1, k)
       /\ wire' = SubSeq(wire, k + 1, Len(wire))
       /\ isFull' = (k >= Space - 1)
  /\ pc' = "peek"
  /\ read' = 0
  /\ UNCHANGED <<up, closed, sent, shown, stream, taken, cause>>

(* Faulty: the last byte of the buffer is not used                         *)
RecvData_SparesLast ==
  /\ up /\ pc = "idle"
  /\ \E k \in 1 .. Len(wire) :
       /\ k < Space
       /\ buffer' = buffer \o SubSeq(wire, 1, k)
       /\ wire' = SubSeq(wire, k + 1, Len(wire))
       /\ isFull' = FALSE
  /\ pc' = "peek"
  /\ read' = 0
  /\ UNCHANGED <<up, closed, sent, shown, stream, taken, cause>>

(* recv_data takes what has arrived, until it would block or the buffer is *)
(* full.  What has arrived is any front part of what is on the wire.       *)
RecvData ==
  /\ up /\ pc = "idle"
  /\ \E k \in 1 .. Len(wire) :
       /\ k =< Space
       /\ buffer' = buffer \o SubSeq(wire, 1, k)
       /\ wire' = SubSeq(wire, k + 1, Len(wire))
       /\ isFull' = (k = Space)
  /\ pc' = "peek"
  /\ read' = 0
  /\ UNCHANGED <<up, closed, sent, shown, stream, taken, cause>>

(* It comes to the end of the stream: the connection is closed, with what  *)
(* was received in this call or before and not handled.                    *)
RecvEnd ==
  /\ up /\ pc = "idle"
  /\ closed /\ Len(wire) < Space
  /\ Disconnect("peer closed")
  /\ UNCHANGED shown

RecvFails ==
  /\ up /\ pc = "idle"
  /\ Disconnect("error")
  /\ UNCHANGED shown

(* PeekPacket on what OnRecvMessage has not read yet, with the size that   *)
(* is in the header.  Whatever becomes of the packet, its bytes are read.  *)
Whole(size) == HeadLen + size =< Len(Unread)

PeekPacket ==
  /\ pc = "peek"
  /\ Len(Unread) >= HeadLen
  /\ \E size \in NextSizes :
       /\ Whole(size)
       /\ taken' = taken \o SubSeq(Unread, 1, HeadLen + size)
       /\ read' = read + HeadLen + size
  /\ shown' = Unseen
  /\ UNCHANGED <<up, closed, sent, wire, buffer, pc, isFull, stream, cause>>

(* Faulty: OnRecvMessage does not look behind the first packet             *)
NoPacket_BehindFirst ==
  /\ pc = "peek"
  /\ \/ (read > 0 \/ Len(Unread) < HeadLen) /\ UNCHANGED shown
     \/ /\ Len(Unread) >= HeadLen
        /\ shown' \in NextSizes /\ ~Whole(shown')

(* PeekPacket returns 0: there is no whole packet.                         *)
NoPacket ==
  /\ pc = "peek"
  /\ \/ Len(Unread) < HeadLen /\ UNCHANGED shown
     \/ /\ Len(Unread) >= HeadLen
        /\ shown' \in NextSizes /\ ~Whole(shown')

(* Faulty: the beginning of a packet is dropped with what was read         *)
Kept_Nothing == <<>>

(* What the memmove keeps in the buffer.                                   *)
Kept == Unread

RecvExEnds ==
  /\ NoPacket
  /\ ~(read = 0 /\ isFull)
  /\ buffer' = Kept
  /\ pc' = "idle"
  /\ isFull' = FALSE
  /\ read' = 0
  /\ UNCHANGED <<up, closed, sent, wire, stream, taken, cause>>

(* A full buffer in which no packet ends will never hold one.              *)
RecvExGivesUp ==
  /\ NoPacket
  /\ read = 0 /\ isFull
  /\ Disconnect("no packet fits")

Init ==
  /\ up = TRUE
  /\ closed = FALSE
  /\ sent = <<>> /\ wire = <<>> /\ buffer = <<>>
  /\ stream = <<>> /\ taken = <<>>
  /\ shown = Unseen
  /\ pc = "idle"
  /\ isFull = FALSE
  /\ read = 0
  /\ cause = "none"

Receive == \/ RecvData
           \/ RecvEnd
           \/ PeekPacket
           \/ RecvExEnds
           \/ RecvExGivesUp

Next == \/ \E len \in Bodies : ClientSends(len)
        \/ ClientCloses
        \/ Receive
        \/ RecvFails

(* NetService calls recv in every Tick, and select reports a socket as     *)
(* readable as long as there is data to receive.                           *)
Spec == Init /\ [][Next]_vars /\ WF_vars(Receive)

-----------------------------------------------------------------------------
TypeOK ==
  /\ up \in BOOLEAN /\ closed \in BOOLEAN /\ isFull \in BOOLEAN
  /\ sent \in Seq(Bodies) /\ Len(sent) =< MaxPackets
  /\ Len(buffer) =< BufSize
  /\ pc \in {"idle", "peek"}
  /\ read \in 0 .. Len(buffer)
  /\ shown \in Nat \union {Unseen}
  /\ cause \in {"none", "peer closed", "error", "no packet fits"}

(* The bytes the client sent are handed to PeekPacket in their order, each *)
(* once and none left out, however the kernel cut them into calls of recv, *)
(* wherever the buffer filled, and whatever sizes PeekPacket read: what    *)
(* was taken off, what is kept and what is still coming make up all that   *)
(* was sent.                                                               *)
StreamKept == up => taken \o Unread \o wire = stream

(* What recv_ex leaves behind it, and what isFull means inside it.         *)
RecvInv ==
  /\ pc = "idle" => read = 0 /\ ~isFull
  /\ ~up => pc = "idle" /\ buffer = <<>>
  /\ isFull => Len(buffer) = BufSize
  /\ cause # "none" => ~up

(* When recv_ex returns, PeekPacket has looked at the header that is in    *)
(* front of the buffer, and it calls for more than is there: the next call *)
(* comes only with more data, and a packet that could be taken would wait  *)
(* for an unrelated one.                                                   *)
NothingLeftBehind ==
  pc = "idle" /\ up /\ Len(buffer) >= HeadLen
    => shown # Unseen /\ Len(buffer) < HeadLen + shown

(* recv_ex gives a connection up for want of room only when the header it  *)
(* stopped at calls for more than the buffer holds, never because of how   *)
(* packets meet the buffer's end.                                          *)
NeverCutOff == cause = "no packet fits" => HeadLen + shown > BufSize

(* All that is sent is received unless the connection goes down: a buffer  *)
(* never stays so full that nothing more can be read.                      *)
EveryPacketReceived ==
  \A n \in 1 .. MaxPackets :
    Len(sent) >= n ~> (wire = <<>> \/ wire[1][1] > n \/ ~up)

(* "Receive network packets and call the message handler": when recv_ex    *)
(* returns, the handler was called for every packet that has arrived, and  *)
(* none lies whole in the buffer.  False of PacketEncoder's packets, whose *)
(* header announces HeadLen bytes more than the packet has.                *)
ArrivedIsHandled ==
  pc = "idle" =>
    \A i \in 1 .. Len(buffer) :
      buffer[i][2] = 1 => Len(buffer) - i + 1 < HeadLen + sent[buffer[i][1]]
=============================================================================
