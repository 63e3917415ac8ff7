----------------------------- MODULE SendBuffer -----------------------------
(***************************************************************************)
(* The sending half of ClientSocket: a buffer whose bytes head .. tail - 1 *)
(* are accepted but not yet taken by the kernel, and four ways to use it.  *)
(* send_data hands the kernel what is left and then its own message, and   *)
(* keeps what the kernel does not take; send_cache only stores a message   *)
(* and send_cache_data hands on what is stored.  The server calls          *)
(* send_data alone.                                                        *)
(*                                                                         *)
(* Of the kernel only its free space is kept: a call of send takes what    *)
(* fits, and the loops around it end when everything is taken or nothing   *)
(* fits, so one loop is one step.  A byte is known by the message it       *)
(* belongs to and its place there.  One thread at a time uses a socket.    *)
(* Once a copy has run over the end of the buffer the program's state is   *)
(* undefined and the model stops.                                          *)
(***************************************************************************)
EXTENDS Integers, Sequences

CONSTANTS
  SendSize,    (* m_nSendBufSize                                           *)
  MaxLen,      (* the longest message a caller passes                      *)
  Vals,        (* contents of the messages                                 *)
  KernelRoom   (* the kernel's buffer of a connection                      *)

ASSUME SendAssumption ==
  /\ SendSize \in Nat \ {0}
  /\ MaxLen \in Nat \ {0}
  /\ KernelRoom \in Nat \ {0}

VARIABLES
  connected,   (* tcp_status_connected and a valid descriptor              *)
  head,        (* m_send_head                                              *)
  tail,        (* m_send_tail                                              *)
  sendBuffer,  (* m_send_buffer, and the memory behind it                  *)
  room,        (* free bytes in the kernel's buffer                        *)
  out,         (* history: what the kernel took during the last call       *)
  ret          (* what the last call returned                              *)

sendVars == <<connected, head, tail, sendBuffer, room, out, ret>>

Messages == [val : Vals, len : 1 .. MaxLen]
Cells    == 0 .. SendSize + MaxLen - 1
Junk     == <<>>
Byte     == (Messages \X (1 .. MaxLen)) \union {Junk}

Bytes(m) == [k \in 1 .. m.len |-> <<m, k>>]

(* The buffer with the bytes of s stored from cell i on.                   *)
Stored(b, i, s) ==
  [c \in Cells |-> IF c - i \in 0 .. Len(s) - 1 THEN s[c - i + 1] ELSE b[c]]

(* What of the buffer the kernel has not taken.                            *)
Unsent  == tail - head
Pending == [k \in 1 .. Unsent |-> sendBuffer[head + k - 1]]

(* How many of n bytes the kernel takes until it would block.              *)
Taken(n) == IF n =< room THEN n ELSE room

FirstOf(s, n) == SubSeq(s, 1, n)
From(s, n)    == SubSeq(s, n + 1, Len(s))

-----------------------------------------------------------------------------
(* set_buf_size after close: an empty buffer, its memory uninitialised.    *)
Cleared ==
  /\ head' = 0
  /\ tail' = 0
  /\ sendBuffer' = [c \in Cells |-> Junk]

(* disconnect: close frees the buffer with what is in it.                  *)
Disconnected == connected' = FALSE /\ Cleared

(* Store m behind what remains when the kernel has taken up to h.          *)
Appended(m, h) ==
  /\ SendSize - tail >= m.len
  /\ head' = h
  /\ tail' = tail + m.len
  /\ sendBuffer' = Stored(sendBuffer, tail, Bytes(m))
  /\ ret' = "success"

(* Faulty: the tail is not moved back with the data                        *)
Compacted_KeepsTail(m, h) ==
  /\ SendSize - tail < m.len
  /\ SendSize - tail + h >= m.len
  /\ head' = 0
  /\ tail' = tail + m.len
  /\ sendBuffer' = Stored(sendBuffer, tail, Bytes(m))
  /\ ret' = "success"

(* Faulty: the indexes are moved back and the data is not                  *)
Compacted_NotMoved(m, h) ==
  /\ SendSize - tail < m.len
  /\ SendSize - tail + h >= m.len
  /\ head' = 0
  /\ tail' = tail - h + m.len
  /\ sendBuffer' = Stored(sendBuffer, tail - h, Bytes(m))
  /\ ret' = "success"

(* The same with what remains moved to the start of the buffer first.      *)
Compacted(m, h) ==
  LET rest == From(Pending, h - head) IN
  /\ SendSize - tail < m.len
  /\ SendSize - tail + h >= m.len
  /\ head' = 0
  /\ tail' = tail - h + m.len
  /\ sendBuffer' = Stored(sendBuffer, 0, rest \o Bytes(m))
  /\ ret' = "success"

Refused(m, h) ==
  /\ SendSize - tail + h < m.len
  /\ head' = h
  /\ ret' = "not_enough_buffer"
  /\ UNCHANGED <<tail, sendBuffer>>

Queue(m, h) == Appended(m, h) \/ Compacted(m, h) \/ Refused(m, h)

(* send_data while the kernel does not take all of the old data.           *)
SendBehind(m) ==
  LET k == Taken(Unsent) IN
  /\ k < Unsent
  /\ room' = room - k
  /\ out' = FirstOf(Pending, k)
  /\ Queue(m, head + k)

(* send_data once the old data is taken: the message goes to the kernel,   *)
(* and what is not taken of it to the start of the buffer, whatever the    *)
(* size of the buffer.                                                     *)
SendDirect(m) ==
  LET k == Taken(Unsent + m.len) - Unsent IN
  /\ k >= 0
  /\ room' = room - Unsent - k
  /\ out' = Pending \o FirstOf(Bytes(m), k)
  /\ head' = 0
  /\ tail' = m.len - k
  /\ sendBuffer' = Stored(sendBuffer, 0, From(Bytes(m), k))
  /\ ret' = "success"

SendData(m) ==
  /\ connected /\ tail =< SendSize
  /\ SendBehind(m) \/ SendDirect(m)
  /\ UNCHANGED connected

(* send_cache, which does not touch the kernel.                            *)
SendCache(m) ==
  /\ connected /\ tail =< SendSize
  /\ Queue(m, head)
  /\ out' = <<>>
  /\ UNCHANGED <<connected, room>>

(* k bytes of the buffer are gone; an empty buffer starts again at 0.      *)
Drained(k) ==
  /\ head' = IF k = Unsent THEN 0 ELSE head + k
  /\ tail' = IF k = Unsent THEN 0 ELSE tail

SendCacheData ==
  LET k == Taken(Unsent) IN
  /\ connected /\ tail =< SendSize
  /\ Drained(k)
  /\ room' = room - k
  /\ out' = FirstOf(Pending, k)
  /\ ret' = IF k = Unsent THEN "success" ELSE "not_smooth"
  /\ UNCHANGED <<connected, sendBuffer>>

(* A call of send fails after the kernel has taken some of the data.       *)
SendFails(data) ==
  /\ connected /\ tail =< SendSize
  /\ Len(data) > 0
  /\ \E k \in 0 .. Taken(Len(data) - 1) : out' = FirstOf(data, k)
  /\ Disconnected
  /\ ret' = "unknown"
  /\ UNCHANGED room

SendDataFails      == \E m \in Messages : SendFails(Pending \o Bytes(m))
SendCacheDataFails == SendFails(Pending)

(* The receiving half finds the connection closed or broken.               *)
PeerGone ==
  /\ connected
  /\ Disconnected
  /\ out' = <<>>
  /\ UNCHANGED <<room, ret>>

(* OnNewConnec and set_fd: a connection on an unused socket.               *)
Connected ==
  /\ ~connected /\ connected' = TRUE
  /\ Cleared
  /\ room' = KernelRoom
  /\ out' = <<>>
  /\ UNCHANGED ret

(* The kernel gets bytes through to the peer.                              *)
KernelDrains ==
  /\ connected /\ room < KernelRoom
  /\ room' \in room + 1 .. KernelRoom
  /\ UNCHANGED <<connected, head, tail, sendBuffer, out, ret>>

SendInit ==
  /\ connected = FALSE
  /\ head = 0 /\ tail = 0
  /\ sendBuffer = [c \in Cells |-> Junk]
  /\ room = KernelRoom
  /\ out = <<>>
  /\ ret = "success"

(* What the services do with a socket, and what else its interface offers. *)
ServiceNext ==
  \/ \E m \in Messages : SendData(m)
  \/ SendDataFails
  \/ PeerGone
  \/ Connected
  \/ KernelDrains

SendNext ==
  \/ ServiceNext
  \/ \E m \in Messages : SendCache(m)
  \/ SendCacheData
  \/ SendCacheDataFails

SendSpec    == SendInit /\ [][SendNext]_sendVars
ServiceSpec == SendInit /\ [][ServiceNext]_sendVars /\ WF_sendVars(KernelDrains)

-----------------------------------------------------------------------------
SendTypeOK ==
  /\ connected \in BOOLEAN
  /\ tail \in 0 .. SendSize + MaxLen
  /\ head \in 0 .. tail
  /\ sendBuffer \in [Cells -> Byte]
  /\ room \in 0 .. KernelRoom
  /\ ret \in {"success", "not_enough_buffer", "not_smooth", "unknown"}

(* The data stays in the memory set_buf_size allocated.  send_data copies  *)
(* what the kernel did not take without looking at the buffer's size, so   *)
(* this rests on what the kernel leaves of a message and on the sizes that *)
(* send_cache and the first half of send_data check.                       *)
InsideBuffer == tail =< SendSize

(* The kernel gets the accepted messages whole, in order and each once,    *)
(* through every mix of send_data, send_cache and send_cache_data, and a   *)
(* message is refused only when the buffer has no room for it.             *)
AsStream ==
  INSTANCE Stream WITH up       <- connected,
                       pending  <- Pending,
                       Messages <- {Bytes(m) : m \in Messages},
                       Size     <- SendSize

ImplementsStream == AsStream!Spec

(* What send_data has accepted does not stay in the buffer for ever while  *)
(* the kernel has nothing left to send (clientsocket.h says of it that the *)
(* message is sent at once): false, as what is left in the buffer waits    *)
(* for another call of send_data, which may never come.                    *)
AcceptedIsSent == []<>(Unsent = 0 \/ room < KernelRoom)
=============================================================================
