------------------------- MODULE ClientSocketProofs -------------------------
(***************************************************************************)
(* Proofs about the two halves of ClientSocket, SendBuffer and             *)
(* PacketStream.                                                           *)
(*                                                                         *)
(* The sending half, for every size of the buffer, of the kernel's buffer  *)
(* and of the messages: the two indexes and the memory keep their types;   *)
(* the data stays inside the buffer as long as no message is longer than   *)
(* it; and what goes out is an unbroken prefix of what was accepted.  The  *)
(* second needs no more than the first, because an action that moves the   *)
(* tail either checks the room behind it or starts again at the front with *)
(* less than one message.  The third is a simulation: the bytes from head  *)
(* to tail are those accepted and not yet sent, and the actions cut and    *)
(* join them as the stream does.                                           *)
(*                                                                         *)
(* The receiving half, for every size of the buffer and of the header, any *)
(* number of packets and any way of cutting the stream: the types, and,    *)
(* whatever the client puts into the size field, that the stream reaches   *)
(* PeekPacket whole and in order, that nothing waits of which the header   *)
(* calls for no more than is there, and that a connection is given up only *)
(* for a header that calls for more than the buffer holds.  Which sizes    *)
(* come back from the header as those of the body is a theorem of its own: *)
(* of PacketEncoder's none.                                                *)
(***************************************************************************)
EXTENDS SendBuffer, PacketStream, SequenceTheorems, TLAPS

-----------------------------------------------------------------------------
(* The sending half.                                                       *)

USE SendAssumption

(* A message is as long as it says, and its bytes are bytes.               *)
LEMMA BytesTyped ==
  ASSUME NEW m \in Messages
  PROVE  /\ m.len \in 1 .. MaxLen
         /\ Bytes(m) \in Seq(Byte)
         /\ Len(Bytes(m)) = m.len
<1>1. m.len \in 1 .. MaxLen
  BY DEF Messages
<1>2. \A k \in 1 .. m.len : <<m, k>> \in Byte
  BY <1>1 DEF Byte
<1>3. Bytes(m) \in [1 .. m.len -> Byte]
  BY <1>2 DEF Bytes
<1> QED
  BY <1>1, <1>3

(* What the kernel has not taken is a sequence of bytes.                   *)
LEMMA PendingTyped ==
  ASSUME SendTypeOK
  PROVE  /\ Unsent \in 0 .. tail
         /\ Pending \in Seq(Byte)
         /\ Len(Pending) = Unsent
<1>1. Unsent \in 0 .. tail
  BY DEF SendTypeOK, Unsent
<1>2. ASSUME NEW k \in 1 .. Unsent
      PROVE  sendBuffer[head + k - 1] \in Byte
  <2>1. head + k - 1 \in Cells
    BY <1>1, <1>2 DEF SendTypeOK, Unsent, Cells
  <2> QED
    BY <2>1 DEF SendTypeOK
<1>3. Pending \in [1 .. Unsent -> Byte]
  BY <1>2 DEF Pending
<1> QED
  BY <1>1, <1>3

(* Parts and concatenations of sequences of bytes.                         *)
LEMMA PartsTyped ==
  ASSUME NEW s \in Seq(Byte), NEW n \in 0 .. Len(s)
  PROVE  From(s, n) \in Seq(Byte)
BY DEF From

(* Storing bytes leaves memory of bytes.                                   *)
LEMMA StoredTyped ==
  ASSUME NEW b \in [Cells -> Byte], NEW i \in Int, NEW s \in Seq(Byte)
  PROVE  Stored(b, i, s) \in [Cells -> Byte]
<1>1. ASSUME NEW c \in Cells, c - i \in 0 .. Len(s) - 1
      PROVE  s[c - i + 1] \in Byte
  <2>1. c - i + 1 \in 1 .. Len(s)
    BY <1>1 DEF Cells
  <2> QED
    BY <2>1
<1> QED
  BY <1>1 DEF Stored

(* A loop of sends takes no more than there is and than fits.              *)
LEMMA TakenBounded ==
  ASSUME SendTypeOK, NEW n \in Nat
  PROVE  Taken(n) \in 0 .. n /\ Taken(n) =< room
BY DEF SendTypeOK, Taken

(* An emptied buffer has the right type.                                   *)
LEMMA ClearedTyped ==
  ASSUME Cleared
  PROVE  head' = 0 /\ tail' = 0 /\ sendBuffer' \in [Cells -> Byte]
<1>1. Junk \in Byte
  BY DEF Byte
<1> QED
  BY <1>1 DEF Cleared

(* So has a closed connection.                                            *)
LEMMA DisconnectedTyped ==
  ASSUME Disconnected
  PROVE  connected' \in BOOLEAN /\ head' = 0 /\ tail' = 0 /\ sendBuffer' \in [Cells -> Byte]
<1>1. connected' \in BOOLEAN
  BY Zenon DEF Disconnected
<1>2. Cleared
  BY DEF Disconnected
<1> QED
  BY <1>1, <1>2, ClearedTyped

(* Storing a message behind what is left, in the three ways of doing so.   *)
LEMMA QueueTyped ==
  ASSUME SendTypeOK, NEW m \in Messages, NEW h \in head .. tail,
         tail =< SendSize, Queue(m, h)
  PROVE  /\ tail' \in 0 .. SendSize
         /\ head' \in 0 .. tail'
         /\ sendBuffer' \in [Cells -> Byte]
         /\ ret' \in {"success", "not_enough_buffer"}
<1> USE DEF SendTypeOK
<1>1. m.len \in 1 .. MaxLen /\ Bytes(m) \in Seq(Byte)
  BY BytesTyped
<1>2. CASE Appended(m, h)
  <2>1. sendBuffer' \in [Cells -> Byte]
    BY <1>1, <1>2, StoredTyped DEF Appended
  <2> QED
    BY <1>1, <1>2, <2>1 DEF Appended
<1>3. CASE Compacted(m, h)
  <2>1. h - head \in 0 .. Unsent
    BY DEF Unsent
  <2>2. From(Pending, h - head) \in Seq(Byte)
    BY <2>1, PendingTyped, PartsTyped
  <2> DEFINE s == From(Pending, h - head) \o Bytes(m)
  <2>3. s \in Seq(Byte)
    BY <1>1, <2>2
  <2>4. sendBuffer' = Stored(sendBuffer, 0, s)
    BY <1>3 DEF Compacted
  <2> HIDE DEF s
  <2>5. sendBuffer' \in [Cells -> Byte]
    BY <2>3, <2>4, StoredTyped
  <2>6. /\ head' = 0
        /\ tail' = tail - h + m.len
        /\ SendSize - tail + h >= m.len
        /\ ret' = "success"
    BY <1>3 DEF Compacted
  <2> QED
    BY <1>1, <2>5, <2>6 DEF SendTypeOK
<1>4. CASE Refused(m, h)
  BY <1>4 DEF Refused
<1> QED
  BY <1>2, <1>3, <1>4 DEF Queue

-----------------------------------------------------------------------------
(* Each action of the model keeps the type.                                *)
LEMMA SendDataTyped ==
  ASSUME SendTypeOK, NEW m \in Messages, SendData(m)
  PROVE  /\ SendTypeOK'
         /\ tail' =< SendSize \/ tail' =< m.len
<1> USE DEF SendTypeOK
<1>1. Unsent \in 0 .. tail /\ m.len \in 1 .. MaxLen /\ Bytes(m) \in Seq(Byte)
  BY PendingTyped, BytesTyped
<1>2. CASE SendBehind(m)
  <2> DEFINE k == Taken(Unsent)
  <2>1. k \in 0 .. Unsent /\ k =< room
    <3>1. Unsent \in Nat
      BY <1>1
    <3> HIDE DEF SendTypeOK
    <3> QED
      BY <3>1, TakenBounded
  <2>2. head + k \in head .. tail
    BY <1>1, <2>1 DEF Unsent
  <2>3. Queue(m, head + k) /\ room' = room - k /\ tail =< SendSize /\ UNCHANGED connected
    BY <1>2 DEF SendBehind, SendData
  <2>4. room' \in 0 .. KernelRoom
    BY <2>1, <2>3
  <2> HIDE DEF k
  <2>5. /\ tail' \in 0 .. SendSize
        /\ head' \in 0 .. tail'
        /\ sendBuffer' \in [Cells -> Byte]
        /\ ret' \in {"success", "not_enough_buffer"}
    BY <2>2, <2>3, QueueTyped
  <2> QED
    BY <2>3, <2>4, <2>5
<1>3. CASE SendDirect(m)
  <2> DEFINE t == Taken(Unsent + m.len)
             k == t - Unsent
  <2>1. t \in 0 .. Unsent + m.len /\ t =< room
    <3>1. Unsent + m.len \in Nat
      BY <1>1
    <3> HIDE DEF SendTypeOK
    <3> QED
      BY <3>1, TakenBounded
  <2>2. /\ k >= 0
        /\ room' = room - Unsent - k
        /\ head' = 0
        /\ tail' = m.len - k
        /\ sendBuffer' = Stored(sendBuffer, 0, From(Bytes(m), k))
        /\ ret' = "success"
        /\ UNCHANGED connected
    BY <1>3 DEF SendDirect, SendData
  <2> HIDE DEF t
  <2>3. k \in 0 .. m.len /\ room' \in 0 .. KernelRoom
    BY <1>1, <2>1, <2>2
  <2> HIDE DEF k
  <2>4. From(Bytes(m), k) \in Seq(Byte)
    BY <2>3, BytesTyped, PartsTyped
  <2>5. sendBuffer' \in [Cells -> Byte]
    BY <2>2, <2>4, StoredTyped
  <2> QED
    BY <1>1, <2>2, <2>3, <2>5
<1> QED
  BY <1>2, <1>3 DEF SendData

(* The other calls, the connection's end and beginning, and the kernel.    *)
LEMMA OthersTyped ==
  ASSUME SendTypeOK,
         \/ \E m \in Messages : SendCache(m)
         \/ SendCacheData
         \/ SendDataFails \/ SendCacheDataFails
         \/ PeerGone \/ Connected \/ KernelDrains
  PROVE  SendTypeOK' /\ (tail =< SendSize => tail' =< SendSize)
<1> USE DEF SendTypeOK
<1>1. CASE \E m \in Messages : SendCache(m)
  <2> PICK m \in Messages : SendCache(m)
    BY <1>1
  <2>1. head \in head .. tail
    OBVIOUS
  <2>2. Queue(m, head) /\ tail =< SendSize /\ UNCHANGED <<connected, room>>
    BY DEF SendCache
  <2>3. /\ tail' \in 0 .. SendSize
        /\ head' \in 0 .. tail'
        /\ sendBuffer' \in [Cells -> Byte]
        /\ ret' \in {"success", "not_enough_buffer"}
    BY <2>1, <2>2, QueueTyped
  <2> QED
    BY <2>2, <2>3
<1>2. CASE SendCacheData
  <2> DEFINE k == Taken(Unsent)
  <2>1. Unsent \in 0 .. tail /\ Unsent \in Nat
    BY PendingTyped
  <2>2. k \in 0 .. Unsent /\ k =< room
    <3> HIDE DEF SendTypeOK
    <3> QED
      BY <2>1, TakenBounded
  <2>3. /\ Drained(k)
        /\ room' = room - k
        /\ ret' \in {"success", "not_smooth"}
        /\ UNCHANGED <<connected, sendBuffer>>
    BY <1>2 DEF SendCacheData
  <2> HIDE DEF k
  <2>4. tail' \in {0, tail} /\ head' \in 0 .. tail'
    BY <2>1, <2>2, <2>3 DEF Drained, Unsent
  <2> QED
    BY <2>1, <2>2, <2>3, <2>4
<1>3. CASE SendDataFails \/ SendCacheDataFails
  <2>1. Disconnected /\ ret' = "unknown" /\ UNCHANGED room
    BY <1>3 DEF SendDataFails, SendCacheDataFails, SendFails
  <2> QED
    BY <2>1, DisconnectedTyped
<1>4. CASE PeerGone
  BY <1>4, DisconnectedTyped DEF PeerGone
<1>5. CASE Connected
  BY <1>5, ClearedTyped DEF Connected
<1>6. CASE KernelDrains
  BY <1>6 DEF KernelDrains
<1> QED
  BY <1>1, <1>2, <1>3, <1>4, <1>5, <1>6

-----------------------------------------------------------------------------
(* A socket that is not connected is empty.                                *)
LEMMA SendInitTyped == SendInit => SendTypeOK /\ InsideBuffer
<1>1. Junk \in Byte
  BY DEF Byte
<1>2. SendInit => connected \in BOOLEAN
  BY Zenon DEF SendInit
<1> QED
  BY <1>1, <1>2 DEF SendInit, SendTypeOK, InsideBuffer

(* The buffer's indexes, its memory and the kernel's room keep their types *)
(* whatever is sent: even an overrun is no longer than one message.        *)
THEOREM SendTypeCorrect == SendSpec => []SendTypeOK
<1>1. SendTypeOK /\ [SendNext]_sendVars => SendTypeOK'
  <2> SUFFICES ASSUME SendTypeOK, [SendNext]_sendVars PROVE SendTypeOK'
    OBVIOUS
  <2>1. CASE \E m \in Messages : SendData(m)
    BY <2>1, SendDataTyped
  <2>2. CASE UNCHANGED sendVars
    BY <2>2 DEF sendVars, SendTypeOK
  <2> QED
    BY <2>1, <2>2, OthersTyped DEF SendNext, ServiceNext
<1> QED
  BY SendInitTyped, <1>1, PTL DEF SendSpec

(* send_data, send_cache and send_cache_data stay inside the buffer when   *)
(* no message is longer than it, which clientsocket.h asks for and the     *)
(* default sizes do not give.                                              *)
THEOREM InsideBufferKept ==
  ASSUME MaxLen =< SendSize
  PROVE  SendSpec => []InsideBuffer
<1>1. SendTypeOK /\ InsideBuffer /\ [SendNext]_sendVars => InsideBuffer'
  <2> SUFFICES ASSUME SendTypeOK, InsideBuffer, [SendNext]_sendVars PROVE InsideBuffer'
    OBVIOUS
  <2> USE DEF InsideBuffer
  <2>1. CASE \E m \in Messages : SendData(m)
    <3> PICK m \in Messages : SendData(m)
      BY <2>1
    <3>1. SendTypeOK' /\ (tail' =< SendSize \/ tail' =< m.len) /\ m.len \in 1 .. MaxLen
      BY SendDataTyped, BytesTyped
    <3> QED
      BY <3>1 DEF SendTypeOK
  <2>2. CASE UNCHANGED sendVars
    BY <2>2 DEF sendVars
  <2> QED
    BY <2>1, <2>2, OthersTyped DEF SendNext, ServiceNext
<1> QED
  BY SendInitTyped, SendTypeCorrect, <1>1, PTL DEF SendSpec

-----------------------------------------------------------------------------
(* The buffer as a stream of bytes.                                        *)

(* What is left of a sequence when its first n elements are gone.          *)
LEMMA FromProperties ==
  ASSUME NEW s \in Seq(Byte), NEW n \in 0 .. Len(s)
  PROVE  /\ From(s, n) \in Seq(Byte) /\ Len(From(s, n)) = Len(s) - n
         /\ \A i \in 1 .. Len(s) - n : From(s, n)[i] = s[n + i]
BY DEF From

(* A sequence cut in two joins to itself again.                            *)
LEMMA CutAndJoin ==
  ASSUME NEW s \in Seq(Byte), NEW n \in 0 .. Len(s)
  PROVE  /\ FirstOf(s, n) \in Seq(Byte) /\ From(s, n) \in Seq(Byte)
         /\ Len(FirstOf(s, n)) = n /\ Len(From(s, n)) = Len(s) - n
         /\ FirstOf(s, n) \o From(s, n) = s
         /\ AsStream!IsPrefix(FirstOf(s, n), s)
<1>1. /\ FirstOf(s, n) \in Seq(Byte) /\ Len(FirstOf(s, n)) = n
      /\ \A i \in 1 .. n : FirstOf(s, n)[i] = s[i]
  BY DEF FirstOf
<1>2. /\ From(s, n) \in Seq(Byte) /\ Len(From(s, n)) = Len(s) - n
      /\ \A i \in 1 .. Len(s) - n : From(s, n)[i] = s[n + i]
  BY FromProperties
<1> DEFINE a == FirstOf(s, n)
           b == From(s, n)
<1> HIDE DEF a, b
<1>3. /\ a \o b \in Seq(Byte) /\ Len(a \o b) = Len(s)
      /\ \A i \in 1 .. Len(s) : (a \o b)[i] = IF i =< n THEN a[i] ELSE b[i - n]
  BY <1>1, <1>2, ConcatProperties DEF a, b
<1>4. \A i \in 1 .. Len(s) : (a \o b)[i] = s[i]
  BY <1>1, <1>2, <1>3 DEF a, b
<1>5. a \o b = s
  BY <1>3, <1>4, SeqEqual
<1>6. AsStream!IsPrefix(a, s)
  <2>1. Len(a) =< Len(s) /\ Len(a) = n
    BY <1>1 DEF a
  <2>2. SubSeq(a, 1, Len(a)) = SubSeq(s, 1, Len(a))
    BY <1>1, <2>1 DEF a, FirstOf
  <2> QED BY <2>1, <2>2 DEF AsStream!IsPrefix
<1> QED BY <1>1, <1>2, <1>5, <1>6 DEF a, b

(* The order of joining does not matter, and joining nothing changes       *)
(* nothing.                                                                *)
LEMMA JoinAssociative ==
  ASSUME NEW a \in Seq(Byte), NEW b \in Seq(Byte), NEW c \in Seq(Byte)
  PROVE  /\ (a \o b) \o c = a \o (b \o c)
         /\ <<>> \o a = a /\ a \o <<>> = a
         /\ a \o b \in Seq(Byte) /\ Len(a \o b) = Len(a) + Len(b)
BY ConcatAssociative, ConcatEmptySeq, ConcatProperties

(* A message stored behind the data follows what is left of it.            *)
LEMMA PendingAppended ==
  ASSUME SendTypeOK, NEW m \in Messages, NEW h \in head .. tail, Appended(m, h)
  PROVE  Pending' = From(Pending, h - head) \o Bytes(m)
<1> DEFINE r == From(Pending, h - head)
           b == Bytes(m)
<1>1. /\ m.len \in 1 .. MaxLen /\ b \in Seq(Byte) /\ Len(b) = m.len
  BY BytesTyped
<1>2. /\ Pending \in Seq(Byte) /\ Len(Pending) = Unsent /\ Unsent = tail - head
      /\ head \in Nat /\ tail \in Nat
  BY PendingTyped DEF Unsent, SendTypeOK
<1>3. /\ r \in Seq(Byte) /\ Len(r) = tail - h
      /\ \A i \in 1 .. tail - h : r[i] = Pending[h - head + i]
  <2> DEFINE d == h - head
  <2>1. d \in 0 .. Len(Pending) /\ Len(Pending) - d = tail - h
    BY <1>2
  <2> HIDE DEF d
  <2>2. /\ From(Pending, d) \in Seq(Byte)
        /\ Len(From(Pending, d)) = Len(Pending) - d
        /\ \A i \in 1 .. Len(Pending) - d : From(Pending, d)[i] = Pending[d + i]
    BY <1>2, <2>1, FromProperties
  <2> QED BY <2>1, <2>2 DEF d
<1>4. /\ head' = h /\ tail' = tail + m.len /\ tail' =< SendSize
      /\ \A c \in Cells : sendBuffer'[c] = IF c - tail \in 0 .. m.len - 1 THEN b[c - tail + 1] ELSE sendBuffer[c]
  BY <1>1, <1>2 DEF Appended, Stored
<1> HIDE DEF r, b
<1>5. \A i \in 1 .. tail' - h : h + i - 1 \in Cells
  BY <1>1, <1>2, <1>4 DEF Cells
<1>6. /\ r \o b \in Seq(Byte) /\ Len(r \o b) = tail' - h
      /\ \A i \in 1 .. tail' - h : (r \o b)[i] = IF i =< tail - h THEN r[i] ELSE b[i - (tail - h)]
  <2>1. /\ r \o b \in Seq(Byte) /\ Len(r \o b) = Len(r) + Len(b)
        /\ \A i \in 1 .. Len(r) + Len(b) : (r \o b)[i] = IF i =< Len(r) THEN r[i] ELSE b[i - Len(r)]
    BY <1>1, <1>3, ConcatProperties
  <2>2. Len(r) = tail - h /\ Len(r) + Len(b) = tail' - h
    BY <1>1, <1>2, <1>3, <1>4
  <2> QED BY <2>1, <2>2
<1>7. Pending' = [i \in 1 .. tail' - h |-> sendBuffer'[h + i - 1]]
  BY <1>4 DEF Pending, Unsent
<1>8. \A i \in 1 .. tail' - h : sendBuffer'[h + i - 1] = (r \o b)[i]
  <2> SUFFICES ASSUME NEW i \in 1 .. tail' - h PROVE sendBuffer'[h + i - 1] = (r \o b)[i]
    OBVIOUS
  <2>0. /\ h \in Int /\ tail \in Int /\ head \in Int /\ i \in Int /\ m.len \in Int
        /\ head >= 0 /\ h >= head /\ tail >= h /\ i >= 1 /\ i =< (tail - h) + m.len
    <3>1. h \in Int /\ h >= head /\ tail >= h /\ m.len \in Int /\ head >= 0
      BY <1>1, <1>2
    <3>2. tail' - h = (tail - h) + m.len
      BY <1>2, <1>4, <3>1
    <3>3. i \in 1 .. (tail - h) + m.len
      BY <3>2
    <3> QED BY <1>2, <3>1, <3>3
  <2>1. CASE i =< tail - h
    <3>1. sendBuffer'[h + i - 1] = sendBuffer[h + i - 1]
      BY <1>4, <1>5, <2>0, <2>1
    <3>2. Pending[h - head + i] = sendBuffer[h + i - 1]
      <4>1. h - head + i \in 1 .. Unsent /\ head + (h - head + i) - 1 = h + i - 1
        BY <1>2, <2>0, <2>1
      <4> QED BY <4>1 DEF Pending
    <3> QED BY <1>3, <1>6, <2>0, <2>1, <3>1, <3>2
  <2>2. CASE i > tail - h
    <3> DEFINE c == h + i - 1
    <3>1. /\ c - tail \in 0 .. m.len - 1
          /\ c - tail + 1 = i - (tail - h)
      BY <2>0, <2>2
    <3>2. c \in Cells
      BY <1>5
    <3> HIDE DEF c
    <3>3. sendBuffer'[c] = b[i - (tail - h)]
      BY <1>4, <3>1, <3>2
    <3> QED BY <1>6, <2>0, <2>2, <3>3 DEF c
  <2>3. i =< tail - h \/ i > tail - h
    BY <2>0
  <2> QED BY <2>1, <2>2, <2>3
<1>9. r \o b = [i \in 1 .. tail' - h |-> (r \o b)[i]]
  <2> DEFINE s == r \o b
  <2> HIDE DEF s
  <2>1. s \in Seq(Byte) /\ Len(s) = tail' - h
    BY <1>6 DEF s
  <2>2. s = [i \in 1 .. Len(s) |-> s[i]]
    BY <2>1
  <2> QED BY <2>1, <2>2 DEF s
<1> QED BY <1>7, <1>8, <1>9 DEF r, b

(* What is stored at the start of the buffer is the data.                  *)
LEMMA PendingStored ==
  ASSUME NEW s \in Seq(Byte), Len(s) =< SendSize + MaxLen,
         head' = 0, tail' = Len(s), sendBuffer' = Stored(sendBuffer, 0, s)
  PROVE  Pending' = s
<1>1. Pending' = [i \in 1 .. Len(s) |-> sendBuffer'[i - 1]]
  BY DEF Pending, Unsent
<1>2. \A i \in 1 .. Len(s) : i - 1 \in Cells
  BY DEF Cells
<1>3. \A i \in 1 .. Len(s) : sendBuffer'[i - 1] = s[i]
  BY <1>2 DEF Stored
<1>4. s = [i \in 1 .. Len(s) |-> s[i]]
  OBVIOUS
<1> QED BY <1>1, <1>3, <1>4

(* When only the head moves on, the data before it is gone.                *)
LEMMA PendingCut ==
  ASSUME SendTypeOK, NEW h \in head .. tail, head' = h, UNCHANGED <<tail, sendBuffer>>
  PROVE  Pending' = From(Pending, h - head)
<1>1. /\ Pending \in Seq(Byte) /\ Len(Pending) = tail - head /\ head \in Nat /\ tail \in Nat
  BY PendingTyped DEF Unsent, SendTypeOK
<1>2. /\ From(Pending, h - head) \in Seq(Byte) /\ Len(From(Pending, h - head)) = tail - h
      /\ \A i \in 1 .. tail - h : From(Pending, h - head)[i] = Pending[h - head + i]
  <2>1. h - head \in 0 .. Len(Pending) /\ Len(Pending) - (h - head) = tail - h
    BY <1>1
  <2> QED BY <1>1, <2>1, FromProperties
<1>3. \A i \in 1 .. tail - h : Pending[h - head + i] = sendBuffer[h + i - 1]
  BY <1>1 DEF Pending, Unsent
<1>4. Pending' = [i \in 1 .. tail - h |-> sendBuffer[h + i - 1]]
  BY DEF Pending, Unsent
<1> HIDE DEF Pending
<1>5. From(Pending, h - head) = [i \in 1 .. tail - h |-> From(Pending, h - head)[i]]
  BY <1>2
<1> QED BY <1>2, <1>3, <1>4, <1>5

(* A call that queues its message behind k bytes fewer keeps what is left  *)
(* of the data and the message, or what is left alone when there is no     *)
(* room for both.                                                          *)
LEMMA QueueKeeps ==
  ASSUME SendTypeOK, NEW m \in Messages, NEW k \in 0 .. Unsent, Queue(m, head + k)
  PROVE  \/ ret' = "success" /\ Pending' = From(Pending, k) \o Bytes(m)
         \/ /\ ret' = "not_enough_buffer" /\ Pending' = From(Pending, k)
            /\ Len(Pending') + m.len > SendSize
<1> DEFINE h == head + k
<1>1. /\ Pending \in Seq(Byte) /\ Len(Pending) = Unsent /\ Unsent = tail - head
      /\ head \in Nat /\ tail \in Nat /\ m.len \in 1 .. MaxLen
      /\ Bytes(m) \in Seq(Byte) /\ Len(Bytes(m)) = m.len
  BY PendingTyped, BytesTyped DEF Unsent, SendTypeOK
<1>2. h \in head .. tail /\ h - head = k /\ k \in Int
  BY <1>1
<1>3. From(Pending, k) \in Seq(Byte) /\ Len(From(Pending, k)) = tail - h
  <2>1. k \in 0 .. Len(Pending) /\ Len(Pending) - k = tail - h
    BY <1>1, <1>2
  <2> QED BY <1>1, <2>1, FromProperties
<1> HIDE DEF h
<1>4. CASE Appended(m, h)
  BY <1>2, <1>4, PendingAppended DEF Appended
<1>5. CASE Compacted(m, h)
  <2> DEFINE s == From(Pending, k) \o Bytes(m)
  <2>1. s \in Seq(Byte) /\ Len(s) = tail - h + m.len
    BY <1>1, <1>3, JoinAssociative
  <2>2. /\ head' = 0 /\ tail' = tail - h + m.len /\ sendBuffer' = Stored(sendBuffer, 0, s)
        /\ ret' = "success" /\ SendSize - tail + h >= m.len
    BY <1>2, <1>5 DEF Compacted
  <2> HIDE DEF s
  <2>3. Len(s) =< SendSize + MaxLen
    BY <1>1, <1>2, <2>1, <2>2
  <2>4. Pending' = s
    BY <2>1, <2>2, <2>3, PendingStored
  <2> QED BY <2>2, <2>4 DEF s
<1>6. CASE Refused(m, h)
  <2>1. /\ SendSize - tail + h < m.len /\ head' = h /\ ret' = "not_enough_buffer"
        /\ UNCHANGED <<tail, sendBuffer>>
    BY <1>6 DEF Refused
  <2>2. Pending' = From(Pending, k)
    BY <1>2, <2>1, PendingCut
  <2>3. Len(Pending') + m.len > SendSize
    BY <1>1, <1>2, <1>3, <2>1, <2>2
  <2> QED BY <2>1, <2>2, <2>3
<1> QED BY <1>4, <1>5, <1>6 DEF Queue, h

(* send_data accepts its message or refuses it for want of room.           *)
LEMMA SendDataMaps ==
  ASSUME SendTypeOK, NEW m \in Messages, SendData(m)
  PROVE  AsStream!Accept(Bytes(m)) \/ AsStream!Refuse(Bytes(m))
<1> DEFINE P == Pending
           b == Bytes(m)
<1>1. /\ P \in Seq(Byte) /\ Len(P) = Unsent /\ Unsent \in Nat
      /\ b \in Seq(Byte) /\ Len(b) = m.len /\ m.len \in 1 .. MaxLen
  BY PendingTyped, BytesTyped
<1>2. connected /\ connected'
  BY DEF SendData
<1>3. CASE SendBehind(m)
  <2> DEFINE k == Taken(Unsent)
  <2>1. k \in 0 .. Unsent
    BY <1>1, TakenBounded
  <2>2. out' = FirstOf(P, k) /\ Queue(m, head + k)
    BY <1>3 DEF SendBehind
  <2> HIDE DEF P, b, k
  <2>3. \/ ret' = "success" /\ P' = From(P, k) \o b
        \/ /\ ret' = "not_enough_buffer" /\ P' = From(P, k)
           /\ Len(P') + m.len > SendSize
    BY <2>1, <2>2, QueueKeeps DEF P, b
  <2>4. /\ FirstOf(P, k) \in Seq(Byte) /\ From(P, k) \in Seq(Byte)
        /\ FirstOf(P, k) \o From(P, k) = P
    BY <1>1, <2>1, CutAndJoin
  <2>5. P \o b = FirstOf(P, k) \o (From(P, k) \o b)
    <3>1. (FirstOf(P, k) \o From(P, k)) \o b = FirstOf(P, k) \o (From(P, k) \o b)
      <4> DEFINE x == FirstOf(P, k)
                 y == From(P, k)
      <4>1. x \in Seq(Byte) /\ y \in Seq(Byte) /\ b \in Seq(Byte)
        BY <1>1, <2>4
      <4> HIDE DEF x, y
      <4>2. (x \o y) \o b = x \o (y \o b)
        BY <4>1, JoinAssociative
      <4> QED BY <4>2 DEF x, y
    <3> QED BY <2>4, <3>1, Zenon
  <2>6. \/ ret' = "success" /\ P \o b = out' \o P'
        \/ /\ ret' = "not_enough_buffer" /\ P = out' \o P' /\ Len(P') + Len(b) > SendSize
    BY <1>1, <2>2, <2>3, <2>4, <2>5
  <2> QED BY <1>2, <2>6 DEF AsStream!Accept, AsStream!Refuse, P, b
<1>4. CASE SendDirect(m)
  <2> DEFINE t == Taken(Unsent + m.len)
             k == t - Unsent
  <2>1. t \in 0 .. Unsent + m.len
    <3>1. Unsent + m.len \in Nat
      BY <1>1
    <3> QED BY <3>1, TakenBounded
  <2>2. /\ k >= 0 /\ head' = 0 /\ tail' = m.len - k /\ ret' = "success"
        /\ out' = P \o FirstOf(b, k) /\ sendBuffer' = Stored(sendBuffer, 0, From(b, k))
    BY <1>4 DEF SendDirect
  <2> HIDE DEF t
  <2>3. k \in 0 .. Len(b)
    BY <1>1, <2>1, <2>2
  <2> HIDE DEF P, b, k
  <2>4. /\ FirstOf(b, k) \in Seq(Byte) /\ From(b, k) \in Seq(Byte)
        /\ FirstOf(b, k) \o From(b, k) = b /\ Len(From(b, k)) = Len(b) - k
    BY <1>1, <2>3, CutAndJoin
  <2>5. Len(From(b, k)) =< SendSize + MaxLen /\ tail' = Len(From(b, k))
    BY <1>1, <2>2, <2>3, <2>4
  <2>6. P' = From(b, k)
    BY <2>2, <2>4, <2>5, PendingStored DEF P
  <2>7. P \o b = out' \o P'
    <3>1. (P \o FirstOf(b, k)) \o From(b, k) = P \o (FirstOf(b, k) \o From(b, k))
      <4> DEFINE x == FirstOf(b, k)
                 y == From(b, k)
      <4>1. x \in Seq(Byte) /\ y \in Seq(Byte) /\ P \in Seq(Byte)
        BY <1>1, <2>4
      <4> HIDE DEF x, y
      <4>2. (P \o x) \o y = P \o (x \o y)
        BY <4>1, JoinAssociative
      <4> QED BY <4>2 DEF x, y
    <3> QED BY <2>2, <2>4, <2>6, <3>1, Zenon
  <2> QED BY <1>2, <2>2, <2>7 DEF AsStream!Accept, P, b
<1> QED BY <1>3, <1>4 DEF SendData

(* send_cache does the same without the kernel.                            *)
LEMMA SendCacheMaps ==
  ASSUME SendTypeOK, NEW m \in Messages, SendCache(m)
  PROVE  AsStream!Accept(Bytes(m)) \/ AsStream!Refuse(Bytes(m))
<1>1. /\ Pending \in Seq(Byte) /\ Len(Pending) = Unsent /\ Unsent \in Nat /\ head \in Int
      /\ Bytes(m) \in Seq(Byte) /\ Len(Bytes(m)) = m.len
  BY PendingTyped, BytesTyped DEF SendTypeOK
<1>2. connected /\ connected' /\ out' = <<>> /\ Queue(m, head + 0)
  BY <1>1 DEF SendCache
<1>3. 0 \in 0 .. Unsent /\ 0 \in 0 .. Len(Pending)
  BY <1>1
<1>4. \/ ret' = "success" /\ Pending' = From(Pending, 0) \o Bytes(m)
      \/ /\ ret' = "not_enough_buffer" /\ Pending' = From(Pending, 0)
         /\ Len(Pending') + m.len > SendSize
  BY <1>2, <1>3, QueueKeeps
<1> DEFINE P == Pending
           b == Bytes(m)
<1> HIDE DEF P, b
<1>5. P \in Seq(Byte) /\ b \in Seq(Byte) /\ From(P, 0) = P
  <2>1. P \in Seq(Byte) /\ Len(P) \in Nat
    BY <1>1 DEF P
  <2> QED BY <1>1, <2>1 DEF From, b
<1>6. <<>> \o P = P /\ <<>> \o (P \o b) = P \o b
  BY <1>5, JoinAssociative
<1>7. \/ ret' = "success" /\ P \o b = out' \o P'
      \/ ret' = "not_enough_buffer" /\ P = out' \o P' /\ Len(P') + Len(b) > SendSize
  BY <1>1, <1>2, <1>4, <1>5, <1>6 DEF P, b
<1> QED BY <1>2, <1>7 DEF AsStream!Accept, AsStream!Refuse, P, b

(* send_cache_data hands on what it can and says whether any is left.      *)
LEMMA SendCacheDataMaps ==
  ASSUME SendTypeOK, SendCacheData
  PROVE  AsStream!Flush
<1> DEFINE k == Taken(Unsent)
           P == Pending
<1>1. /\ P \in Seq(Byte) /\ Len(P) = Unsent /\ Unsent \in Nat /\ Unsent = tail - head
      /\ head \in Nat /\ tail \in Nat
  BY PendingTyped DEF Unsent, SendTypeOK
<1>2. k \in 0 .. Unsent
  BY <1>1, TakenBounded
<1>3. /\ connected /\ connected' /\ Drained(k) /\ out' = FirstOf(P, k) /\ UNCHANGED sendBuffer
      /\ ret' = IF k = Unsent THEN "success" ELSE "not_smooth"
  BY DEF SendCacheData
<1> HIDE DEF k
<1>4. P' = From(P, k) /\ (P' = <<>> <=> k = Unsent)
  <2>1. CASE k = Unsent
    <3>1. Unsent' = 0
      BY <1>3, <2>1 DEF Drained, Unsent
    <3>2. P' = <<>>
      BY <3>1 DEF Pending
    <3>3. Len(From(P, k)) = 0 /\ From(P, k) \in Seq(Byte)
      <4> HIDE DEF P
      <4> QED BY <1>1, <1>2, <2>1, FromProperties
    <3> HIDE DEF P
    <3>4. From(P, k) = <<>>
      BY <3>3
    <3> QED BY <2>1, <3>2, <3>4
  <2>2. CASE k # Unsent
    <3> DEFINE h == head + k
    <3>1. head' = h /\ tail' = tail /\ h \in head .. tail /\ h - head = k
      BY <1>1, <1>2, <1>3, <2>2 DEF Drained
    <3> HIDE DEF h
    <3>2. P' = From(P, k)
      <4>1. Pending' = From(Pending, h - head)
        BY <1>3, <3>1, PendingCut
      <4> QED BY <3>1, <4>1
    <3> HIDE DEF P
    <3>3. Len(From(P, k)) = Unsent - k /\ Unsent - k # 0
      <4>1. P \in Seq(Byte) /\ Len(P) = Unsent /\ k \in 0 .. Len(P) /\ Unsent - k # 0
        BY <1>1, <1>2, <2>2
      <4> QED BY <4>1, FromProperties
    <3>4. From(P, k) # <<>>
      BY <3>3
    <3> QED BY <2>2, <3>2, <3>4
  <2> QED BY <2>1, <2>2
<1> HIDE DEF P
<1>5. FirstOf(P, k) \o From(P, k) = P
  BY <1>1, <1>2, CutAndJoin
<1>6. P = out' \o P' /\ ret' = IF P' = <<>> THEN "success" ELSE "not_smooth"
  BY <1>3, <1>4, <1>5
<1> QED BY <1>3, <1>6 DEF AsStream!Flush, P

(* A connection that ends or begins leaves the buffer empty.               *)
LEMMA ClearedPending ==
  ASSUME Cleared
  PROVE  Pending' = <<>>
<1>1. Unsent' = 0
  BY DEF Cleared, Unsent
<1> QED BY <1>1 DEF Pending

(* What the kernel took of the data during a call that failed is a first   *)
(* part of it, and the rest is lost with the connection.                   *)
LEMMA FailureMaps ==
  ASSUME SendTypeOK, NEW data \in Seq(Byte), SendFails(data)
  PROVE  connected /\ ~connected' /\ Pending' = <<>> /\ AsStream!IsPrefix(out', data)
<1>1. connected /\ ~connected' /\ Cleared /\ Len(data) > 0
  BY DEF SendFails, Disconnected
<1>2. PICK k \in 0 .. Taken(Len(data) - 1) : out' = FirstOf(data, k)
  BY DEF SendFails
<1>3. Len(data) - 1 \in Nat
  BY <1>1
<1>4. Taken(Len(data) - 1) \in 0 .. Len(data) - 1
  BY <1>3, TakenBounded
<1>5. k \in 0 .. Len(data)
  BY <1>3, <1>4
<1>6. AsStream!IsPrefix(out', data)
  BY <1>2, <1>5, CutAndJoin
<1> QED BY <1>1, <1>6, ClearedPending

(* The messages of the stream are the bytes of those of the program.       *)
LEMMA StreamNext ==
  ASSUME NEW m \in Messages,
         \/ AsStream!Accept(Bytes(m)) \/ AsStream!Refuse(Bytes(m))
         \/ AsStream!Break(Bytes(m))
  PROVE  AsStream!Next
<1>1. Bytes(m) \in {Bytes(n) : n \in Messages}
  OBVIOUS
<1> QED BY <1>1 DEF AsStream!Next

(* Every step of the socket is one of the stream or a stutter.             *)
LEMMA NextMaps ==
  SendTypeOK /\ [SendNext]_sendVars => [AsStream!Next]_<<connected, Pending, out, ret>>
<1> SUFFICES ASSUME SendTypeOK, [SendNext]_sendVars
             PROVE  AsStream!Next \/ UNCHANGED <<connected, Pending, out, ret>>
  OBVIOUS
<1>0. Pending \in Seq(Byte)
  BY PendingTyped
<1>1. CASE \E m \in Messages : SendData(m)
  BY <1>1, SendDataMaps, StreamNext
<1>2. CASE \E m \in Messages : SendCache(m)
  BY <1>2, SendCacheMaps, StreamNext
<1>3. CASE SendCacheData
  BY <1>3, SendCacheDataMaps DEF AsStream!Next
<1>4. CASE SendDataFails
  <2>1. PICK m \in Messages : SendFails(Pending \o Bytes(m))
    BY <1>4 DEF SendDataFails
  <2>2. Pending \o Bytes(m) \in Seq(Byte)
    BY <1>0, BytesTyped, JoinAssociative
  <2>3. AsStream!Break(Bytes(m))
    BY <2>1, <2>2, FailureMaps DEF AsStream!Break
  <2> QED BY <2>3, StreamNext
<1>5. CASE SendCacheDataFails \/ PeerGone
  <2>1. Pending \o <<>> = Pending
    BY <1>0, JoinAssociative
  <2>2. connected /\ ~connected' /\ Pending' = <<>>
    BY <1>0, <1>5, FailureMaps, ClearedPending DEF SendCacheDataFails, PeerGone, Disconnected
  <2>3. AsStream!IsPrefix(out', Pending)
    <3>1. CASE SendCacheDataFails
      BY <1>0, <3>1, FailureMaps DEF SendCacheDataFails
    <3>2. CASE PeerGone
      <4>1. out' = FirstOf(Pending, 0) /\ 0 \in 0 .. Len(Pending)
        <5>1. out' = <<>>
          BY <3>2 DEF PeerGone
        <5> QED BY <1>0, <5>1 DEF FirstOf
      <4> QED BY <1>0, <4>1, CutAndJoin
    <3> QED BY <1>5, <3>1, <3>2
  <2>4. AsStream!Break(<<>>)
    BY <2>1, <2>2, <2>3 DEF AsStream!Break
  <2> QED BY <2>4 DEF AsStream!Next
<1>6. CASE Connected
  BY <1>6, ClearedPending DEF Connected, AsStream!Next, AsStream!Open
<1>7. CASE KernelDrains \/ UNCHANGED sendVars
  <2>1. UNCHANGED <<connected, head, tail, sendBuffer, out, ret>>
    BY <1>7 DEF KernelDrains, sendVars
  <2> QED BY <2>1 DEF Pending, Unsent
<1> QED BY <1>1, <1>2, <1>3, <1>4, <1>5, <1>6, <1>7 DEF SendNext, ServiceNext

(* For every size of the buffer, of the kernel's buffer and of the         *)
(* messages: send_data, send_cache and send_cache_data, mixed in any way,  *)
(* give the kernel the bytes of the accepted messages in order and each    *)
(* once, refuse a message only for want of room, and lose bytes only with  *)
(* the connection.                                                         *)
THEOREM StreamImplemented == SendSpec => ImplementsStream
<1>1. SendInit => AsStream!Init
  <2> SUFFICES ASSUME SendInit PROVE ~connected /\ Pending = <<>>
    BY DEF AsStream!Init
  <2>1. Unsent = 0 /\ ~connected
    BY DEF SendInit, Unsent
  <2> QED BY <2>1 DEF Pending
<1>2. SendTypeOK /\ [SendNext]_sendVars => [AsStream!Next]_<<connected, Pending, out, ret>>
  BY NextMaps
<1> QED BY <1>1, <1>2, SendTypeCorrect, PTL DEF SendSpec, ImplementsStream, AsStream!Spec

HIDE SendAssumption

-----------------------------------------------------------------------------
(* The receiving half.                                                     *)

(* What the parameters are.                                                *)
LEMMA Sizes ==
  HeadLen \in Nat /\ HeadLen >= 1 /\ BufSize \in Nat /\ BufSize > HeadLen /\ MaxPackets \in Nat
BY StreamAssumption

(* Bodies have a length.                                                   *)
LEMMA Bodied ==
  /\ Base * Base \in Nat
  /\ \A b \in Bodies : b \in Nat /\ b >= 1 /\ b < Base * Base
<1> DEFINE values == Base * Base
<1>1. values \in Nat /\ Bodies \subseteq 1 .. values - 1
  BY StreamAssumption
<1> HIDE DEF values
<1> QED BY <1>1 DEF values

USE Sizes

(* A byte: its packet and its place there.                                 *)
WireByte == Nat \X Nat

(* The header gives back the size of each body the client sends.           *)
SizeIsCarried ==
  \A len \in Bodies : DecodedSize((len + SizeExtra) % (Base * Base)) = len

-----------------------------------------------------------------------------
(* Sequences of bytes.                                                     *)

(* Joining: lengths and elements.                                          *)
LEMMA Joined ==
  ASSUME NEW a \in Seq(WireByte), NEW b \in Seq(WireByte)
  PROVE  /\ a \o b \in Seq(WireByte) /\ Len(a \o b) = Len(a) + Len(b)
         /\ \A i \in 1 .. Len(a) : (a \o b)[i] = a[i]
         /\ \A i \in 1 .. Len(b) : (a \o b)[Len(a) + i] = b[i]
BY ConcatProperties

(* A front part and the rest.                                              *)
LEMMA Cut ==
  ASSUME NEW s \in Seq(WireByte), NEW n \in 0 .. Len(s)
  PROVE  /\ SubSeq(s, 1, n) \in Seq(WireByte) /\ Len(SubSeq(s, 1, n)) = n
         /\ \A i \in 1 .. n : SubSeq(s, 1, n)[i] = s[i]
         /\ SubSeq(s, n + 1, Len(s)) \in Seq(WireByte)
         /\ Len(SubSeq(s, n + 1, Len(s))) = Len(s) - n
         /\ \A i \in 1 .. Len(s) - n : SubSeq(s, n + 1, Len(s))[i] = s[n + i]
OBVIOUS

(* The part of a sequence behind h elements, up to l.                      *)
LEMMA Between ==
  ASSUME NEW s \in Seq(WireByte), NEW h \in Nat, NEW l \in Nat, h =< l, l =< Len(s)
  PROVE  /\ SubSeq(s, h + 1, l) \in Seq(WireByte) /\ Len(SubSeq(s, h + 1, l)) = l - h
         /\ \A k \in 1 .. l - h : SubSeq(s, h + 1, l)[k] = s[h + k]
OBVIOUS

(* A sequence is a front part and the rest.                                *)
LEMMA FrontAndRest ==
  ASSUME NEW s \in Seq(WireByte), NEW n \in 0 .. Len(s)
  PROVE  s = SubSeq(s, 1, n) \o SubSeq(s, n + 1, Len(s))
<1> DEFINE a == SubSeq(s, 1, n)
           b == SubSeq(s, n + 1, Len(s))
           c == a \o b
<1>1. /\ a \in Seq(WireByte) /\ Len(a) = n /\ \A i \in 1 .. n : a[i] = s[i]
      /\ b \in Seq(WireByte) /\ Len(b) = Len(s) - n
      /\ \A i \in 1 .. Len(s) - n : b[i] = s[n + i]
  BY Cut
<1> HIDE DEF a, b
<1>2. /\ c \in Seq(WireByte) /\ Len(c) = Len(a) + Len(b)
      /\ \A i \in 1 .. Len(a) : c[i] = a[i]
      /\ \A i \in 1 .. Len(b) : c[Len(a) + i] = b[i]
  BY <1>1, Joined
<1> HIDE DEF c
<1>3. Len(c) = Len(s) /\ n \in Nat /\ Len(s) \in Nat
  BY <1>1, <1>2
<1>4. \A i \in 1 .. Len(c) : c[i] = s[i]
  <2> SUFFICES ASSUME NEW i \in 1 .. Len(c) PROVE c[i] = s[i]
    OBVIOUS
  <2>1. CASE i =< n
    BY <1>1, <1>2, <1>3, <2>1
  <2>2. CASE i > n
    <3> DEFINE j == i - n
    <3>1. j \in 1 .. Len(s) - n /\ n + j = i
      BY <1>3, <2>2
    <3> HIDE DEF j
    <3> QED BY <1>1, <1>2, <3>1
  <2> QED BY <1>3, <2>1, <2>2
<1>5. c = s
  BY <1>2, <1>3, <1>4, SeqEqual
<1> QED BY <1>5 DEF a, b, c

(* Joining is associative.                                                 *)
LEMMA JoinedInTurn ==
  ASSUME NEW a \in Seq(WireByte), NEW b \in Seq(WireByte), NEW c \in Seq(WireByte)
  PROVE  (a \o b) \o c = a \o (b \o c)
OBVIOUS

(* The rest of a rest.                                                     *)
LEMMA RestOfRest ==
  ASSUME NEW s \in Seq(WireByte), NEW r \in Nat, NEW k \in Nat, r + k =< Len(s)
  PROVE  LET u == SubSeq(s, r + 1, Len(s)) IN
         SubSeq(s, r + k + 1, Len(s)) = SubSeq(u, k + 1, Len(u))
<1> DEFINE u == SubSeq(s, r + 1, Len(s))
           v == SubSeq(u, k + 1, Len(u))
           w == SubSeq(s, r + k + 1, Len(s))
<1>1. /\ u \in Seq(WireByte) /\ Len(u) = Len(s) - r /\ Len(s) \in Nat
      /\ \A i \in 1 .. Len(s) - r : u[i] = s[r + i]
  BY Between
<1> HIDE DEF u
<1>2. /\ v \in Seq(WireByte) /\ Len(v) = Len(s) - r - k
      /\ \A i \in 1 .. Len(s) - r - k : v[i] = u[k + i]
  <2>1. k \in 0 .. Len(u) /\ Len(u) - k = Len(s) - r - k
    BY <1>1
  <2> QED BY <1>1, <2>1, Cut
<1>3. /\ w \in Seq(WireByte) /\ Len(w) = Len(s) - (r + k)
      /\ \A i \in 1 .. Len(s) - (r + k) : w[i] = s[r + k + i]
  <2> DEFINE h == r + k
  <2>1. h \in 0 .. Len(s)
    BY <1>1
  <2> HIDE DEF h
  <2>2. /\ SubSeq(s, h + 1, Len(s)) \in Seq(WireByte)
        /\ Len(SubSeq(s, h + 1, Len(s))) = Len(s) - h
        /\ \A i \in 1 .. Len(s) - h : SubSeq(s, h + 1, Len(s))[i] = s[h + i]
    BY <2>1, Cut
  <2> QED BY <2>2 DEF h
<1> HIDE DEF v, w
<1>4. \A i \in 1 .. Len(w) : w[i] = v[i]
  <2> SUFFICES ASSUME NEW i \in 1 .. Len(w) PROVE w[i] = v[i]
    OBVIOUS
  <2>1. /\ k + i \in 1 .. Len(s) - r /\ r + (k + i) = r + k + i
        /\ i \in 1 .. Len(s) - r - k /\ i \in 1 .. Len(s) - (r + k)
    BY <1>1, <1>3
  <2>2. w[i] = s[r + k + i]
    BY <1>3, <2>1
  <2>3. v[i] = u[k + i]
    BY <1>2, <2>1
  <2>4. u[k + i] = s[r + (k + i)]
    BY <1>1, <2>1
  <2> QED BY <2>1, <2>2, <2>3, <2>4
<1>5. w = v
  <2>1. Len(w) = Len(v)
    BY <1>1, <1>2, <1>3
  <2>2. w \in Seq(WireByte) /\ v \in Seq(WireByte)
    BY <1>2, <1>3
  <2> QED BY <1>4, <2>1, <2>2, SeqEqual
<1> QED BY <1>5 DEF u, v, w

-----------------------------------------------------------------------------
(* Sequences of packets.                                                   *)

(* A packet has a length.                                                  *)
LEMMA PacketSize ==
  ASSUME NEW lens \in Seq(Bodies), NEW n \in 1 .. Len(lens)
  PROVE  /\ lens[n] \in Bodies /\ lens[n] \in Nat /\ lens[n] >= 1
         /\ HeadLen + lens[n] \in Nat /\ HeadLen + lens[n] > HeadLen
<1>1. lens[n] \in Bodies
  OBVIOUS
<1>2. \A b \in Bodies : b \in Nat /\ b >= 1
  BY Bodied
<1> QED BY <1>1, <1>2

(* What a packet is made of.                                               *)
LEMMA PacketBytes ==
  ASSUME NEW n \in Nat, NEW len \in Bodies
  PROVE  /\ Packet(n, len) \in Seq(WireByte) /\ Len(Packet(n, len)) = HeadLen + len
         /\ len \in Nat /\ HeadLen + len \in Nat
         /\ \A k \in 1 .. HeadLen + len : Packet(n, len)[k] = <<n, k>>
<1> DEFINE L == HeadLen + len
<1>1. len \in Nat /\ L \in Nat
  BY Bodied
<1> HIDE DEF L
<1>2. \A k \in 1 .. L : <<n, k>> \in WireByte
  BY <1>1 DEF WireByte
<1>3. /\ [k \in 1 .. L |-> <<n, k>>] \in Seq(WireByte)
      /\ Len([k \in 1 .. L |-> <<n, k>>]) = L
      /\ \A k \in 1 .. L : [j \in 1 .. L |-> <<n, j>>][k] = <<n, k>>
  BY <1>1, <1>2
<1> QED BY <1>1, <1>3 DEF Packet, L

-----------------------------------------------------------------------------
(* The types.                                                              *)

(* Every byte that is on its way belongs to a packet that was sent.        *)
FromSent(s, lens) == \A i \in 1 .. Len(s) : s[i][1] \in 1 .. Len(lens)

LEMMA FromSentJoined ==
  ASSUME NEW a \in Seq(WireByte), NEW b \in Seq(WireByte), NEW lens \in Seq(Bodies),
         FromSent(a, lens), FromSent(b, lens)
  PROVE  FromSent(a \o b, lens)
<1> DEFINE e == a \o b
<1>1. /\ e \in Seq(WireByte) /\ Len(e) = Len(a) + Len(b)
      /\ \A i \in 1 .. Len(a) : e[i] = a[i]
      /\ \A i \in 1 .. Len(b) : e[Len(a) + i] = b[i]
  BY Joined
<1> HIDE DEF e
<1>2. ASSUME NEW i \in 1 .. Len(e) PROVE e[i][1] \in 1 .. Len(lens)
  <2>1. CASE i =< Len(a)
    BY <1>1, <2>1 DEF FromSent
  <2>2. CASE i > Len(a)
    <3> DEFINE j == i - Len(a)
    <3>1. j \in 1 .. Len(b) /\ i = Len(a) + j
      BY <1>1, <2>2
    <3> HIDE DEF j
    <3> QED BY <1>1, <3>1 DEF FromSent
  <2>3. i =< Len(a) \/ i > Len(a)
    BY <1>1
  <2> QED BY <2>1, <2>2, <2>3
<1> QED BY <1>2 DEF FromSent, e

LEMMA FromSentCut ==
  ASSUME NEW s \in Seq(WireByte), NEW n \in 0 .. Len(s), NEW lens \in Seq(Bodies),
         FromSent(s, lens)
  PROVE  FromSent(SubSeq(s, 1, n), lens) /\ FromSent(SubSeq(s, n + 1, Len(s)), lens)
<1> DEFINE a == SubSeq(s, 1, n)
           b == SubSeq(s, n + 1, Len(s))
<1>1. /\ Len(a) = n /\ \A i \in 1 .. n : a[i] = s[i]
      /\ Len(b) = Len(s) - n /\ \A i \in 1 .. Len(s) - n : b[i] = s[n + i]
  BY Cut
<1> HIDE DEF a, b
<1>2. \A i \in 1 .. Len(a) : i \in 1 .. Len(s)
  BY <1>1
<1>3. \A i \in 1 .. Len(b) : n + i \in 1 .. Len(s)
  BY <1>1
<1> QED BY <1>1, <1>2, <1>3 DEF FromSent, a, b

(* What PeekPacket may take for the size of a body is a natural number.    *)
LEMMA SizesAtNat ==
  ASSUME NEW s \in Seq(WireByte), s # <<>>, sent \in Seq(Bodies), FromSent(s, sent)
  PROVE  SizesAt(s) \subseteq Nat
<1> DEFINE values == Base * Base
           b == sent[s[1][1]]
           size == (b + SizeExtra) % values
<1>1. values \in Nat /\ values > 0 /\ Base \in Nat /\ Base > 0 /\ SizeExtra \in Nat
  BY StreamAssumption
<1>2. s[1][1] \in 1 .. Len(sent)
  BY DEF FromSent
<1>3. b \in Nat
  BY <1>2, PacketSize
<1> HIDE DEF values, b
<1>4. size \in Nat /\ 0 .. values - 1 \subseteq Nat
  BY <1>1, <1>3
<1> HIDE DEF size
<1>5. DecodedSize(size) \in Nat
  <2> DEFINE high == Base * (Base - 1)
             low  == size % Base
  <2>1. high \in Nat
    BY <1>1
  <2>2. low \in Nat
    BY <1>1, <1>4
  <2> HIDE DEF high, low
  <2>3. high + low \in Nat
    BY <2>1, <2>2
  <2> QED BY <1>4, <2>3 DEF DecodedSize, high, low
<1> QED BY <1>4, <1>5 DEF SizesAt, size, b, values

(* The types of the bytes, and the facts they rest on.                     *)
WireBytes ==
  /\ wire \in Seq(WireByte) /\ buffer \in Seq(WireByte)
  /\ stream \in Seq(WireByte) /\ taken \in Seq(WireByte)
  /\ FromSent(wire, sent) /\ FromSent(buffer, sent)

TypeInv == TypeOK /\ WireBytes /\ RecvInv

LEMMA UnreadBytes ==
  TypeInv => /\ Unread \in Seq(WireByte) /\ Len(Unread) = Len(buffer) - read
             /\ FromSent(Unread, sent)
<1> SUFFICES ASSUME TypeInv
             PROVE  /\ Unread \in Seq(WireByte) /\ Len(Unread) = Len(buffer) - read
                    /\ FromSent(Unread, sent)
  OBVIOUS
<1>1. /\ buffer \in Seq(WireByte) /\ read \in 0 .. Len(buffer) /\ sent \in Seq(Bodies)
      /\ FromSent(buffer, sent)
  BY DEF TypeInv, TypeOK, WireBytes
<1> QED BY <1>1, Cut, FromSentCut DEF Unread

(* Nothing is well typed.                                                  *)
LEMMA Nothing ==
  /\ <<>> \in Seq(WireByte) /\ <<>> \in Seq(Bodies) /\ Len(<<>>) = 0
  /\ Len(<<>>) =< BufSize /\ Len(<<>>) =< MaxPackets /\ 0 \in 0 .. Len(<<>>)
  /\ \A lens : FromSent(<<>>, lens)
BY DEF FromSent

LEMMA TypeInit == Init => TypeInv
<1> SUFFICES ASSUME Init PROVE TypeInv
  OBVIOUS
<1>1. TypeOK
  BY Nothing, Zenon DEF Init, TypeOK
<1>2. WireBytes
  BY Nothing DEF Init, WireBytes
<1>3. RecvInv
  BY DEF Init, RecvInv
<1> QED BY <1>1, <1>2, <1>3 DEF TypeInv

LEMMA TypeOfDisconnect ==
  ASSUME TypeInv, NEW why \in {"peer closed", "error", "no packet fits"}, Disconnect(why),
         shown' \in Nat \union {Unseen}
  PROVE  TypeInv'
<1>1. TypeOK'
  BY Nothing, Zenon DEF Disconnect, TypeInv, TypeOK
<1>2. WireBytes'
  BY Nothing DEF Disconnect, TypeInv, WireBytes
<1>3. RecvInv'
  BY DEF Disconnect, RecvInv
<1> QED BY <1>1, <1>2, <1>3 DEF TypeInv

(* The client's packet goes behind what is on the wire.                    *)
LEMMA TypeOfClientSends ==
  ASSUME TypeInv, NEW len \in Bodies, ClientSends(len)
  PROVE  TypeInv'
<1> DEFINE p == Packet(Len(sent) + 1, len)
<1>1. /\ sent \in Seq(Bodies) /\ wire \in Seq(WireByte) /\ buffer \in Seq(WireByte)
      /\ FromSent(wire, sent) /\ FromSent(buffer, sent)
  BY DEF TypeInv, TypeOK, WireBytes
<1>2. /\ p \in Seq(WireByte) /\ Len(p) = HeadLen + len
      /\ \A k \in 1 .. HeadLen + len : p[k] = <<Len(sent) + 1, k>>
  BY <1>1, PacketBytes
<1> HIDE DEF p
<1>3. /\ sent' \in Seq(Bodies) /\ Len(sent') = Len(sent) + 1 /\ Len(sent') =< MaxPackets
      /\ Len(sent) \in Nat
  BY <1>1 DEF ClientSends
<1>4. wire' = wire \o p /\ wire' \in Seq(WireByte)
  BY <1>1, <1>2, Joined DEF ClientSends, p
<1>11. stream' \in Seq(WireByte) /\ taken' \in Seq(WireByte)
  <2>1. stream' = stream \o p /\ taken' = taken /\ stream \in Seq(WireByte) /\ taken \in Seq(WireByte)
    BY DEF ClientSends, p, TypeInv, WireBytes
  <2> QED BY <1>2, <2>1, Joined
<1>5. FromSent(p, sent')
  BY <1>2, <1>3 DEF FromSent
<1>6. FromSent(wire, sent') /\ FromSent(buffer, sent')
  BY <1>1, <1>3 DEF FromSent
<1>7. FromSent(wire', sent')
  BY <1>1, <1>2, <1>3, <1>4, <1>5, <1>6, FromSentJoined
<1>8. TypeOK'
  BY <1>3, Zenon DEF ClientSends, TypeInv, TypeOK
<1>9. WireBytes'
  BY <1>4, <1>6, <1>7, <1>11, Zenon DEF ClientSends, TypeInv, WireBytes
<1>10. RecvInv'
  BY DEF ClientSends, TypeInv, RecvInv
<1> QED BY <1>8, <1>9, <1>10 DEF TypeInv

(* What recv_data does to what is coming: nothing.                         *)
LEMMA RecvDataTakes ==
  ASSUME TypeInv, RecvData
  PROVE  /\ wire' \in Seq(WireByte) /\ buffer' \in Seq(WireByte) /\ Len(buffer') =< BufSize
         /\ FromSent(wire', sent) /\ FromSent(buffer', sent)
         /\ isFull' \in BOOLEAN /\ (isFull' => Len(buffer') = BufSize)
         /\ buffer' \o wire' = buffer \o wire
<1>1. /\ sent \in Seq(Bodies) /\ wire \in Seq(WireByte) /\ buffer \in Seq(WireByte)
      /\ FromSent(wire, sent) /\ FromSent(buffer, sent)
  BY DEF TypeInv, TypeOK, WireBytes
<1>2. PICK k \in 1 .. Len(wire) :
        /\ k =< Space
        /\ buffer' = buffer \o SubSeq(wire, 1, k)
        /\ wire' = SubSeq(wire, k + 1, Len(wire))
        /\ isFull' = (k = Space)
  BY Zenon DEF RecvData
<1> DEFINE a == SubSeq(wire, 1, k)
           b == SubSeq(wire, k + 1, Len(wire))
<1>3. k \in 0 .. Len(wire) /\ k \in Nat
  BY <1>1
<1>4. a \in Seq(WireByte) /\ Len(a) = k /\ b \in Seq(WireByte) /\ FromSent(a, sent) /\ FromSent(b, sent)
  BY <1>1, <1>3, Cut, FromSentCut
<1>5. a \o b = wire
  BY <1>1, <1>3
<1> HIDE DEF a, b
<1>6. buffer' = buffer \o a /\ wire' = b
  BY <1>2 DEF a, b
<1>7. buffer' \in Seq(WireByte) /\ Len(buffer') = Len(buffer) + k /\ FromSent(buffer', sent)
  BY <1>1, <1>4, <1>6, Joined, FromSentJoined
<1>8. Len(buffer) \in Nat /\ k =< BufSize - Len(buffer)
  BY <1>1, <1>2 DEF Space
<1>9. Len(buffer') =< BufSize /\ (k = Space => Len(buffer') = BufSize)
  BY <1>3, <1>7, <1>8 DEF Space
<1>10. isFull' \in BOOLEAN /\ (isFull' => Len(buffer') = BufSize)
  BY <1>2, <1>9, Zenon
<1>11. (buffer \o a) \o b = buffer \o (a \o b)
  BY <1>1, <1>4
<1> QED BY <1>4, <1>5, <1>6, <1>7, <1>9, <1>10, <1>11

LEMMA TypeOfRecvData ==
  ASSUME TypeInv, RecvData
  PROVE  TypeInv'
<1>1. Len(buffer') \in Nat /\ 0 \in 0 .. Len(buffer')
  BY RecvDataTakes
<1>2. TypeOK'
  BY <1>1, RecvDataTakes, Zenon DEF RecvData, TypeInv, TypeOK
<1>3. WireBytes'
  BY RecvDataTakes, Zenon DEF RecvData, TypeInv, WireBytes
<1>4. RecvInv'
  BY RecvDataTakes, Zenon DEF RecvData, TypeInv, RecvInv
<1> QED BY <1>2, <1>3, <1>4 DEF TypeInv

(* A size that PeekPacket reads is a natural number.                       *)
LEMMA NextSizesNat ==
  ASSUME TypeInv, Len(Unread) >= HeadLen
  PROVE  NextSizes \subseteq Nat
<1>1. /\ Unread \in Seq(WireByte) /\ FromSent(Unread, sent) /\ sent \in Seq(Bodies)
      /\ shown \in Nat \union {Unseen}
  BY UnreadBytes DEF TypeInv, TypeOK
<1>2. Unread # <<>>
  BY <1>1
<1>3. SizesAt(Unread) \subseteq Nat
  BY <1>1, <1>2, SizesAtNat
<1> QED BY <1>1, <1>3 DEF NextSizes

(* PeekPacket reads no further than what is there.                         *)
LEMMA PeekReads ==
  ASSUME TypeInv, PeekPacket, NEW size \in NextSizes, Whole(size)
  PROVE  /\ size \in Nat /\ Len(Unread) \in Nat /\ read \in Nat
         /\ HeadLen + size \in 0 .. Len(Unread)
         /\ read + HeadLen + size \in 0 .. Len(buffer)
<1>1. /\ Unread \in Seq(WireByte) /\ Len(Unread) = Len(buffer) - read
      /\ buffer \in Seq(WireByte) /\ read \in 0 .. Len(buffer)
  BY UnreadBytes DEF TypeInv, TypeOK, WireBytes
<1> DEFINE u == Unread
<1>2. u \in Seq(WireByte) /\ Len(u) >= HeadLen /\ HeadLen + size =< Len(u)
  BY <1>1 DEF PeekPacket, Whole
<1>3. size \in Nat
  BY <1>2, NextSizesNat
<1> HIDE DEF u
<1>4. Len(buffer) \in Nat /\ read \in Nat /\ Len(u) = Len(buffer) - read
  BY <1>1 DEF u
<1> QED BY <1>2, <1>3, <1>4 DEF u

LEMMA TypeOfPeekPacket ==
  ASSUME TypeInv, PeekPacket
  PROVE  TypeInv'
<1>1. PICK size \in NextSizes :
        /\ Whole(size)
        /\ taken' = taken \o SubSeq(Unread, 1, HeadLen + size)
        /\ read' = read + HeadLen + size
  BY Zenon DEF PeekPacket
<1>2. read' \in 0 .. Len(buffer) /\ HeadLen + size \in 0 .. Len(Unread)
  BY <1>1, PeekReads
<1>3. taken \in Seq(WireByte) /\ Unread \in Seq(WireByte)
  BY UnreadBytes DEF TypeInv, WireBytes
<1>4. taken' \in Seq(WireByte)
  <2> DEFINE front == SubSeq(Unread, 1, HeadLen + size)
  <2>1. front \in Seq(WireByte)
    BY <1>2, <1>3, Cut
  <2> HIDE DEF front
  <2>2. taken' = taken \o front
    BY <1>1 DEF front
  <2> QED BY <1>3, <2>1, <2>2, Joined
<1>5. TypeOK'
  BY <1>2, Zenon DEF PeekPacket, TypeInv, TypeOK
<1>6. WireBytes'
  BY <1>4, Zenon DEF PeekPacket, TypeInv, WireBytes
<1>7. RecvInv'
  <2>1. pc = "peek" /\ "peek" # "idle"
    BY DEF PeekPacket
  <2> QED BY <2>1, Zenon DEF PeekPacket, TypeInv, RecvInv
<1> QED BY <1>5, <1>6, <1>7 DEF TypeInv

(* A header that calls for more than is there shows a size.                *)
LEMMA NoPacketShown ==
  ASSUME TypeInv, NoPacket
  PROVE  /\ shown' \in Nat \union {Unseen}
         /\ Len(Unread) >= HeadLen => shown' \in Nat /\ Len(Unread) < HeadLen + shown'
<1>1. shown \in Nat \union {Unseen} /\ Len(Unread) \in Nat
  <2>1. Unread \in Seq(WireByte) /\ shown \in Nat \union {Unseen}
    BY UnreadBytes DEF TypeInv, TypeOK
  <2> QED BY <2>1
<1>2. CASE Len(Unread) < HeadLen /\ UNCHANGED shown
  BY <1>1, <1>2
<1>3. CASE /\ Len(Unread) >= HeadLen
           /\ shown' \in NextSizes /\ ~Whole(shown')
  <2>1. shown' \in Nat
    BY <1>3, NextSizesNat
  <2> QED BY <1>1, <1>3, <2>1 DEF Whole
<1> QED BY <1>2, <1>3 DEF NoPacket

LEMMA TypeOfRecvExEnds ==
  ASSUME TypeInv, RecvExEnds
  PROVE  TypeInv'
<1>1. /\ Unread \in Seq(WireByte) /\ Len(Unread) = Len(buffer) - read /\ FromSent(Unread, sent)
      /\ buffer \in Seq(WireByte) /\ read \in 0 .. Len(buffer) /\ Len(buffer) =< BufSize
  BY UnreadBytes DEF TypeInv, TypeOK, WireBytes
<1>2. buffer' = Unread
  BY DEF RecvExEnds, Kept
<1>3. Len(buffer') =< BufSize /\ 0 \in 0 .. Len(buffer')
  BY <1>1, <1>2
<1>4. TypeOK'
  <2>1. shown' \in Nat \union {Unseen}
    BY NoPacketShown DEF RecvExEnds
  <2> QED BY <1>3, <2>1, Zenon DEF RecvExEnds, TypeInv, TypeOK
<1>5. WireBytes'
  BY <1>1, <1>2, Zenon DEF RecvExEnds, TypeInv, WireBytes
<1>6. RecvInv'
  <2>1. pc = "peek" /\ "peek" # "idle"
    BY DEF RecvExEnds, NoPacket
  <2> QED BY <2>1, Zenon DEF RecvExEnds, TypeInv, RecvInv
<1> QED BY <1>4, <1>5, <1>6 DEF TypeInv

LEMMA TypeStep == TypeInv /\ [Next]_vars => TypeInv'
<1> SUFFICES ASSUME TypeInv, [Next]_vars PROVE TypeInv'
  OBVIOUS
<1>1. ASSUME NEW len \in Bodies, ClientSends(len) PROVE TypeInv'
  BY <1>1, TypeOfClientSends
<1>2. CASE ClientCloses
  BY <1>2, Zenon DEF ClientCloses, TypeInv, TypeOK, WireBytes, RecvInv
<1>3. CASE RecvData
  BY <1>3, TypeOfRecvData
<1>4. CASE RecvEnd
  BY <1>4, TypeOfDisconnect DEF RecvEnd, TypeInv, TypeOK
<1>5. CASE PeekPacket
  BY <1>5, TypeOfPeekPacket
<1>6. CASE RecvExEnds
  BY <1>6, TypeOfRecvExEnds
<1>7. CASE RecvExGivesUp
  BY <1>7, TypeOfDisconnect, NoPacketShown DEF RecvExGivesUp
<1>8. CASE RecvFails
  BY <1>8, TypeOfDisconnect DEF RecvFails, TypeInv, TypeOK
<1>9. CASE UNCHANGED vars
  BY <1>9, Zenon DEF vars, TypeInv, TypeOK, WireBytes, RecvInv
<1> QED BY <1>1, <1>2, <1>3, <1>4, <1>5, <1>6, <1>7, <1>8, <1>9 DEF Next, Receive

(* recv_data never puts more into the buffer than it holds, and            *)
(* OnRecvMessage never reads beyond what was received, whatever the        *)
(* headers say.                                                            *)
THEOREM TypeCorrect == Spec => []TypeOK
<1>1. TypeInv => TypeOK
  BY DEF TypeInv
<1> QED BY TypeInit, TypeStep, <1>1, PTL DEF Spec

(* Between two calls of recv_ex nothing is read and the buffer is not      *)
(* full, a connection given up has an empty buffer, and recv_data says     *)
(* that the buffer is full only when it is.                                *)
THEOREM RecvKept == Spec => []RecvInv
<1>1. TypeInv => RecvInv
  BY DEF TypeInv
<1> QED BY TypeInit, TypeStep, <1>1, PTL DEF Spec

-----------------------------------------------------------------------------
(* The packets, when the header carries the size of the body.              *)

(* Multiples of Base, of which one less than its square has Base - 1.      *)
LEMMA Multiples ==
  ASSUME NEW q \in Nat
  PROVE  /\ Base * q \in Nat /\ Base * Base \in Nat /\ Base * (Base - 1) \in Nat
         /\ Base * Base = Base * (Base - 1) + Base
         /\ q = Base - 1 \/ Base * q + Base =< Base * (Base - 1) \/ Base * q >= Base * Base
<1>1. Base \in Nat /\ Base >= 1
  BY StreamAssumption
<1>2. CASE q = Base - 1
  BY <1>1, <1>2
<1>3. CASE q < Base - 1
  <2>1. Base * (q + 1) =< Base * (Base - 1)
    BY <1>1, <1>3
  <2> QED BY <1>1, <2>1
<1>4. CASE q > Base - 1
  BY <1>1, <1>4
<1> QED BY <1>1, <1>2, <1>3, <1>4

(* What Decode makes of a size depends on its lower byte: it is the size   *)
(* itself when that byte is small, or when the upper one has all bits.     *)
LEMMA DecodedParts ==
  ASSUME NEW size \in Nat, size < Base * Base
  PROVE  /\ size % Base \in 0 .. Base - 1
         /\ DecodedSize(size) = size
              <=> size % Base < Base \div 2 \/ size >= Base * (Base - 1)
<1>1. Base \in Nat /\ Base >= 1
  BY StreamAssumption
<1> DEFINE low  == size % Base
           q    == size \div Base
           high == Base * (Base - 1)
           part == Base * q
<1>2. low \in 0 .. Base - 1 /\ q \in Nat /\ size = part + low
  BY <1>1
<1>3. /\ part \in Nat /\ high \in Nat /\ Base * Base = high + Base
      /\ q = Base - 1 \/ part + Base =< high \/ part >= Base * Base
  BY <1>2, Multiples
<1>4. q = Base - 1 => part = high
  BY <1>1
<1>5. DecodedSize(size) = IF low < Base \div 2 THEN size ELSE high + low
  BY DEF DecodedSize
<1> HIDE DEF low, q, high, part
<1>6. size >= high <=> part = high
  BY <1>1, <1>2, <1>3, <1>4
<1>7. DecodedSize(size) = size <=> low < Base \div 2 \/ size >= high
  BY <1>1, <1>2, <1>3, <1>5, <1>6
<1> QED BY <1>2, <1>7 DEF low, high

(* The lower byte of a size whose upper byte has all bits.                 *)
LEMMA LowOfHigh ==
  ASSUME NEW size \in Nat, size < Base * Base, size >= Base * (Base - 1)
  PROVE  size % Base = size - Base * (Base - 1)
<1>1. Base \in Nat /\ Base >= 1
  BY StreamAssumption
<1> DEFINE low  == size % Base
           q    == size \div Base
           high == Base * (Base - 1)
           part == Base * q
<1>2. low \in 0 .. Base - 1 /\ q \in Nat /\ size = part + low
  BY <1>1
<1>3. /\ part \in Nat /\ high \in Nat /\ Base * Base = high + Base
      /\ q = Base - 1 \/ part + Base =< high \/ part >= Base * Base
  BY <1>2, Multiples
<1>4. q = Base - 1 => part = high
  BY <1>1
<1> HIDE DEF low, q, high, part
<1>5. size >= high /\ size < high + Base
  BY <1>3 DEF high
<1>6. low = size - high
  BY <1>1, <1>2, <1>3, <1>4, <1>5
<1> QED BY <1>6 DEF low, high

(* If the client counts the body alone, the header gives back exactly the  *)
(* sizes with a small lower byte and those with all bits in the upper one; *)
(* if it counts a few bytes more, as PacketEncoder does with the header,   *)
(* none at all.                                                            *)
THEOREM WhichSizesAreCarried ==
  /\ SizeExtra = 0 =>
       (SizeIsCarried <=> \A len \in Bodies : \/ len % Base < Base \div 2
                                              \/ len >= Base * (Base - 1))
  /\ SizeExtra \in 1 .. Base - 1 /\ Bodies # {} => ~SizeIsCarried
<1> DEFINE values == Base * Base
           high   == Base * (Base - 1)
<1>1. /\ Base \in Nat /\ Base >= 1 /\ high \in Nat /\ values \in Nat
      /\ values = high + Base
  BY StreamAssumption, Multiples
<1>2. ASSUME SizeExtra = 0, NEW len \in Bodies
      PROVE  DecodedSize((len + SizeExtra) % values) = len
               <=> len % Base < Base \div 2 \/ len >= high
  <2>1. len \in Nat /\ len < values /\ len + SizeExtra = len
    BY <1>2, Bodied
  <2>2. DecodedSize(len) = len <=> len % Base < Base \div 2 \/ len >= high
    BY <2>1, DecodedParts
  <2> HIDE DEF values, high
  <2>3. len % values = len
    BY <1>1, <2>1
  <2> QED BY <2>1, <2>2, <2>3
<1>3. ASSUME SizeExtra \in 1 .. Base - 1, NEW len \in Bodies
      PROVE  DecodedSize((len + SizeExtra) % values) # len
  <2> DEFINE size == (len + SizeExtra) % values
             low  == size % Base
  <2>1. len \in Nat /\ len < values /\ SizeExtra \in Nat /\ SizeExtra >= 1 /\ SizeExtra < Base
    BY <1>1, <1>3, Bodied
  <2>2. DecodedSize(size) = size \/ DecodedSize(size) = high + low
    BY DEF DecodedSize
  <2> HIDE DEF values
  <2>3. /\ size \in Nat /\ size < values
        /\ size = len + SizeExtra \/ size = len + SizeExtra - values
    <3>1. CASE len + SizeExtra < values
      <4>1. size = len + SizeExtra
        BY <1>1, <2>1, <3>1
      <4> QED BY <2>1, <3>1, <4>1
    <3>2. CASE len + SizeExtra >= values
      <4>1. size = len + SizeExtra - values
        BY <1>1, <2>1, <3>2
      <4> QED BY <1>1, <2>1, <3>2, <4>1
    <3> QED BY <1>1, <2>1, <3>1, <3>2
  <2>4. size >= high => low = size - high
    <3> HIDE DEF size
    <3> QED BY <2>3, LowOfHigh DEF values
  <2>5. size < Base => low = size
    <3> HIDE DEF size
    <3> QED BY <1>1, <2>3
  <2> HIDE DEF size, low, high
  <2>6. size # len
    BY <1>1, <2>1, <2>3
  <2>7. high + low # len
    <3> SUFFICES ASSUME high + low = len PROVE FALSE
      OBVIOUS
    <3>1. low \in 0 .. Base - 1
      BY <1>1, <2>3 DEF low
    <3>2. CASE size = len + SizeExtra
      <4>1. size >= high
        BY <1>1, <2>1, <3>1, <3>2
      <4>2. low = size - high
        BY <2>4, <4>1
      <4> QED BY <1>1, <2>1, <3>1, <3>2, <4>2
    <3>3. CASE size = len + SizeExtra - values
      BY <1>1, <2>1, <2>3, <2>5, <3>1, <3>3
    <3> QED BY <2>3, <3>2, <3>3
  <2>8. DecodedSize(size) # len
    BY <2>2, <2>6, <2>7
  <2> QED BY <2>8 DEF size
<1>4. SizeExtra = 0 =>
        (SizeIsCarried <=> \A len \in Bodies : len % Base < Base \div 2 \/ len >= high)
  <2> HIDE DEF high
  <2> QED BY <1>2 DEF SizeIsCarried, values
<1>5. SizeExtra \in 1 .. Base - 1 /\ Bodies # {} => ~SizeIsCarried
  BY <1>3 DEF SizeIsCarried, values
<1> QED BY <1>4, <1>5 DEF high

-----------------------------------------------------------------------------
(* The stream, whatever the client counts in the size of its packets.      *)

(* A header that recv_ex leaves in the buffer calls for more than is there.*)
Seen == pc = "idle" /\ up /\ Len(buffer) >= HeadLen
          => shown \in Nat /\ Len(buffer) < HeadLen + shown

(* What the theorems below keep true together.                             *)
StreamInv == TypeInv /\ StreamKept /\ Seen /\ NeverCutOff

(* The types of what StreamKept joins.                                     *)
LEMMA StreamBytes ==
  ASSUME TypeInv
  PROVE  /\ Unread \in Seq(WireByte) /\ Len(Unread) = Len(buffer) - read
         /\ wire \in Seq(WireByte) /\ stream \in Seq(WireByte)
         /\ taken \in Seq(WireByte) /\ buffer \in Seq(WireByte)
BY UnreadBytes DEF TypeInv, WireBytes

(* Nothing read: all of the buffer is unread.                              *)
LEMMA UnreadAll ==
  ASSUME NEW s \in Seq(WireByte)
  PROVE  SubSeq(s, 0 + 1, Len(s)) = s
OBVIOUS

LEMMA StreamInit == Init => StreamInv
<1> SUFFICES ASSUME Init PROVE StreamInv
  OBVIOUS
<1>1. Unread = <<>>
  BY DEF Init, Unread
<1>2. StreamKept
  BY <1>1 DEF Init, StreamKept
<1>3. Seen /\ NeverCutOff
  BY Nothing DEF Init, Seen, NeverCutOff
<1> QED BY <1>2, <1>3, TypeInit DEF StreamInv

(* A connection that goes down promises nothing more.                      *)
LEMMA StreamOfDisconnect ==
  ASSUME StreamInv, NEW why \in {"peer closed", "error"}, Disconnect(why), UNCHANGED shown
  PROVE  StreamInv'
<1>1. TypeInv'
  BY TypeOfDisconnect DEF StreamInv, TypeInv, TypeOK
<1>2. StreamKept' /\ Seen' /\ NeverCutOff'
  BY DEF Disconnect, StreamKept, Seen, NeverCutOff
<1> QED BY <1>1, <1>2 DEF StreamInv

LEMMA StreamOfClientSends ==
  ASSUME StreamInv, NEW len \in Bodies, ClientSends(len)
  PROVE  StreamInv'
<1> DEFINE p == Packet(Len(sent) + 1, len)
           u == Unread
<1>1. TypeInv'
  BY TypeOfClientSends DEF StreamInv
<1>2. p \in Seq(WireByte) /\ u \in Seq(WireByte) /\ wire \in Seq(WireByte) /\ taken \in Seq(WireByte)
  <2>1. Len(sent) + 1 \in Nat
    <3>1. sent \in Seq(Bodies)
      BY DEF StreamInv, TypeInv, TypeOK
    <3> QED BY <3>1
  <2> QED BY <2>1, PacketBytes, StreamBytes DEF StreamInv
<1>3. /\ wire' = wire \o p /\ stream' = stream \o p /\ u' = u /\ taken' = taken
      /\ taken \o u \o wire = stream
  BY DEF ClientSends, StreamInv, StreamKept, Unread
<1> HIDE DEF p, u
<1>4. taken' \o u' \o wire' = stream'
  <2>1. taken \o u \in Seq(WireByte)
    BY <1>2
  <2>2. (taken \o u) \o (wire \o p) = ((taken \o u) \o wire) \o p
    BY <1>2, <2>1
  <2> QED BY <1>3, <2>2
<1>5. StreamKept'
  BY <1>4 DEF StreamKept, u
<1>6. Seen' /\ NeverCutOff'
  BY Zenon DEF ClientSends, StreamInv, Seen, NeverCutOff
<1> QED BY <1>1, <1>5, <1>6 DEF StreamInv

LEMMA StreamOfRecvData ==
  ASSUME StreamInv, RecvData
  PROVE  StreamInv'
<1>1. TypeInv' /\ buffer' \o wire' = buffer \o wire /\ buffer' \in Seq(WireByte)
      /\ wire' \in Seq(WireByte)
  BY TypeOfRecvData, RecvDataTakes DEF StreamInv
<1>2. /\ read = 0 /\ read' = 0 /\ up /\ up' = up /\ taken' = taken /\ stream' = stream
      /\ buffer \in Seq(WireByte) /\ wire \in Seq(WireByte) /\ taken \in Seq(WireByte)
  BY StreamBytes DEF RecvData, StreamInv, TypeInv, RecvInv
<1>3. Unread = buffer /\ Unread' = buffer'
  BY <1>1, <1>2, UnreadAll DEF Unread
<1>4. /\ (taken \o buffer') \o wire' = taken \o (buffer' \o wire')
      /\ (taken \o buffer) \o wire = taken \o (buffer \o wire)
  BY <1>1, <1>2, JoinedInTurn
<1>5. (taken \o Unread) \o wire = stream
  BY <1>2 DEF StreamInv, StreamKept
<1>6. (taken' \o Unread') \o wire' = stream'
  BY <1>1, <1>2, <1>3, <1>4, <1>5
<1>7. StreamKept'
  BY <1>6 DEF StreamKept
<1>8. Seen' /\ NeverCutOff'
  <2>1. pc' = "peek" /\ cause' = cause /\ shown' = shown
    BY DEF RecvData
  <2> QED BY <2>1 DEF StreamInv, Seen, NeverCutOff
<1> QED BY <1>1, <1>7, <1>8 DEF StreamInv

LEMMA StreamOfPeekPacket ==
  ASSUME StreamInv, PeekPacket
  PROVE  StreamInv'
<1> DEFINE u == Unread
<1>1. PICK size \in NextSizes :
        /\ Whole(size)
        /\ taken' = taken \o SubSeq(u, 1, HeadLen + size)
        /\ read' = read + HeadLen + size
  BY Zenon DEF PeekPacket
<1> DEFINE k == HeadLen + size
<1>2. /\ size \in Nat /\ k \in 0 .. Len(u) /\ read \in Nat /\ read + k \in 0 .. Len(buffer)
      /\ read + HeadLen + size = read + k
  BY <1>1, PeekReads DEF StreamInv
<1>3. /\ u \in Seq(WireByte) /\ Len(u) = Len(buffer) - read /\ buffer \in Seq(WireByte)
      /\ wire \in Seq(WireByte) /\ taken \in Seq(WireByte)
  BY StreamBytes DEF StreamInv
<1>4. /\ pc = "peek" /\ pc' = pc /\ up' = up /\ wire' = wire /\ buffer' = buffer
      /\ stream' = stream /\ cause' = cause
  BY DEF PeekPacket
<1> HIDE DEF k
<1>5. Unread' = SubSeq(u, k + 1, Len(u))
  <2>1. k \in Nat /\ read + k =< Len(buffer)
    BY <1>2
  <2>2. SubSeq(buffer, read + k + 1, Len(buffer)) = SubSeq(u, k + 1, Len(u))
    BY <1>2, <1>3, <2>1, RestOfRest DEF Unread
  <2>3. Unread' = SubSeq(buffer, read + k + 1, Len(buffer))
    BY <1>1, <1>2, <1>4 DEF Unread
  <2> QED BY <2>2, <2>3
<1>6. u = SubSeq(u, 1, k) \o SubSeq(u, k + 1, Len(u))
  BY <1>2, <1>3, FrontAndRest
<1>7. taken' = taken \o SubSeq(u, 1, k)
  BY <1>1 DEF k
<1>8. taken' \o Unread' = taken \o u
  <2> DEFINE front == SubSeq(u, 1, k)
             rest  == SubSeq(u, k + 1, Len(u))
  <2>1. front \in Seq(WireByte) /\ rest \in Seq(WireByte) /\ u = front \o rest
    BY <1>2, <1>3, <1>6, Cut
  <2> HIDE DEF front, rest
  <2>2. (taken \o front) \o rest = taken \o (front \o rest)
    BY <1>3, <2>1, JoinedInTurn
  <2>3. taken' = taken \o front /\ Unread' = rest
    BY <1>5, <1>7 DEF front, rest
  <2> QED BY <2>1, <2>2, <2>3
<1>9. StreamKept'
  BY <1>4, <1>8 DEF StreamInv, StreamKept
<1>10. Seen'
  BY <1>4 DEF Seen
<1>11. NeverCutOff'
  <2>1. cause = "none"
    BY <1>4 DEF StreamInv, TypeInv, RecvInv
  <2> QED BY <1>4, <2>1 DEF NeverCutOff
<1>12. TypeInv'
  BY TypeOfPeekPacket DEF StreamInv
<1> QED BY <1>9, <1>10, <1>11, <1>12 DEF StreamInv

LEMMA StreamOfRecvExEnds ==
  ASSUME StreamInv, RecvExEnds
  PROVE  StreamInv'
<1>1. TypeInv'
  BY TypeOfRecvExEnds DEF StreamInv
<1>2. /\ buffer' = Unread /\ read' = 0 /\ up' = up /\ wire' = wire /\ stream' = stream
      /\ taken' = taken /\ cause' = cause /\ pc = "peek" /\ NoPacket
  BY DEF RecvExEnds, Kept, NoPacket
<1>3. Unread \in Seq(WireByte)
  BY StreamBytes DEF StreamInv
<1>4. Unread' = Unread
  BY <1>2, <1>3, UnreadAll DEF Unread
<1>5. StreamKept'
  BY <1>2, <1>4 DEF StreamInv, StreamKept
<1>6. Seen'
  BY <1>2, NoPacketShown DEF StreamInv, Seen
<1>7. NeverCutOff'
  <2>1. cause = "none"
    BY <1>2 DEF StreamInv, TypeInv, RecvInv
  <2> QED BY <1>2, <2>1 DEF NeverCutOff
<1> QED BY <1>1, <1>5, <1>6, <1>7 DEF StreamInv

(* A full buffer, of which nothing is read, is shorter than what its       *)
(* header calls for.                                                       *)
LEMMA StreamOfRecvExGivesUp ==
  ASSUME StreamInv, RecvExGivesUp
  PROVE  StreamInv'
<1>1. TypeInv'
  BY TypeStep DEF StreamInv, Next, Receive
<1>2. /\ isFull /\ read = 0 /\ NoPacket /\ up' = FALSE
  BY DEF RecvExGivesUp, Disconnect
<1>3. Len(Unread) = BufSize /\ Len(Unread) >= HeadLen
  <2>1. Len(buffer) = BufSize
    BY <1>2 DEF StreamInv, TypeInv, RecvInv
  <2> QED BY <1>2, <2>1, StreamBytes DEF StreamInv
<1>4. HeadLen + shown' > BufSize
  BY <1>2, <1>3, NoPacketShown DEF StreamInv
<1>5. StreamKept' /\ Seen' /\ NeverCutOff'
  BY <1>2, <1>4 DEF StreamKept, Seen, NeverCutOff
<1> QED BY <1>1, <1>5 DEF StreamInv

LEMMA StreamStep == StreamInv /\ [Next]_vars => StreamInv'
<1> SUFFICES ASSUME StreamInv, [Next]_vars PROVE StreamInv'
  OBVIOUS
<1>1. ASSUME NEW len \in Bodies, ClientSends(len) PROVE StreamInv'
  BY <1>1, StreamOfClientSends
<1>2. CASE ClientCloses \/ UNCHANGED vars
  <2>1. TypeInv'
    BY TypeStep DEF StreamInv
  <2>2. /\ up' = up /\ wire' = wire /\ buffer' = buffer /\ pc' = pc /\ read' = read
        /\ shown' = shown /\ stream' = stream /\ taken' = taken /\ cause' = cause
    BY <1>2 DEF ClientCloses, vars
  <2>3. StreamKept' /\ Seen' /\ NeverCutOff'
    BY <2>2 DEF StreamInv, StreamKept, Unread, Seen, NeverCutOff
  <2> QED BY <2>1, <2>3 DEF StreamInv
<1>3. CASE RecvData
  BY <1>3, StreamOfRecvData
<1>4. CASE RecvEnd
  BY <1>4, StreamOfDisconnect DEF RecvEnd
<1>5. CASE PeekPacket
  BY <1>5, StreamOfPeekPacket
<1>6. CASE RecvExEnds
  BY <1>6, StreamOfRecvExEnds
<1>7. CASE RecvExGivesUp
  BY <1>7, StreamOfRecvExGivesUp
<1>8. CASE RecvFails
  BY <1>8, StreamOfDisconnect DEF RecvFails
<1> QED BY <1>1, <1>2, <1>3, <1>4, <1>5, <1>6, <1>7, <1>8 DEF Next, Receive

(* Whatever the cuts and whatever sizes the headers show, the bytes sent   *)
(* are taken off in order, each once and none left out.                    *)
THEOREM StreamIsKept == Spec => []StreamKept
<1>1. StreamInv => StreamKept
  BY DEF StreamInv
<1> QED BY StreamInit, StreamStep, <1>1, PTL DEF Spec

(* recv_ex returns with fewer bytes in the buffer than its header calls    *)
(* for.                                                                    *)
THEOREM NothingLeftBehindKept == Spec => []NothingLeftBehind
<1>1. StreamInv => NothingLeftBehind
  BY DEF StreamInv, Seen, NothingLeftBehind, Unseen
<1> QED BY StreamInit, StreamStep, <1>1, PTL DEF Spec

(* A connection is given up for want of room only at a header that calls   *)
(* for more than the buffer holds.                                         *)
THEOREM NeverCutOffKept == Spec => []NeverCutOff
<1>1. StreamInv => NeverCutOff
  BY DEF StreamInv
<1> QED BY StreamInit, StreamStep, <1>1, PTL DEF Spec
=============================================================================
