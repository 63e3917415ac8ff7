--------------------------- MODULE MsgQueueProofs ---------------------------
(***************************************************************************)
(* Proofs about MsgQueue for every ring size, message set, buffer size and *)
(* number of workers.                                                      *)
(*                                                                         *)
(* What the two ends touch is an argument about the indexes only: RoomInv  *)
(* bounds what each end has claimed by the distance of the indexes, each   *)
(* action moves one index by what its end had claimed, and disjoint claims *)
(* cover disjoint cells.                                                   *)
(*                                                                         *)
(* That the ring is a FIFO needs what the bytes hold.  Layout says where   *)
(* write stood when each queued message was appended and how far that is   *)
(* from read; what lies there is that message, since a writer stays behind *)
(* the published bytes and a reader before what is still to be read.  That *)
(* it takes exactly what fits needs how many the bytes are (StoredInv).    *)
(***************************************************************************)
EXTENDS MsgQueue, FiniteSetTheorems, FunctionTheorems, TLAPS

USE RingAssumption DEF Q, R

(* The index arithmetic of append and pop stays on the ring.               *)
LEMMA StepsStayOnRing ==
  /\ \A i \in 0 .. Q : AfterHeader(i) \in 0 .. Q
  /\ \A i, n \in 0 .. Q : AfterBody(i, n) \in 0 .. Q
BY DEF AfterHeader, AfterBody, InRing

(* The sizes computed from any two indexes are values of size_t.           *)
LEMMA SizesAreNat ==
  ASSUME NEW w \in BOOLEAN, NEW i \in 0 .. Q, NEW j \in 0 .. Q
  PROVE  FreeSize(w, i, j) \in Nat /\ UsedSize(w, i, j) \in Nat
BY DEF FreeSize, UsedSize, SizeT

(* An untorn comparison yields exactly the free and the published bytes.   *)
LEMMA UntornSizes ==
  ASSUME read \in 0 .. Q, write \in 0 .. Q, Unread <= N
  PROVE  /\ FreeSize(read > write, read, write) = N - Unread
         /\ UsedSize(read > write, read, write) = Unread
BY DEF FreeSize, UsedSize, SizeT, Unread, Distance

LEMMA Positive ==
  /\ \A l \in 1 .. N : l \in Nat \ {0} /\ l \in Nat /\ l \in Int /\ 1 =< l
  /\ \A u \in Nat : u \in Int
OBVIOUS

(* A message has a body, and one no longer than the ring asked for.        *)
LEMMA MessageLength ==
  ASSUME NEW m \in Msg
  PROVE  m.len \in 1 .. N /\ m.len \in 0 .. Q
<1>1. m.len \in 1 .. N
  BY DEF Msg
<1> QED
  BY <1>1

(* What a cell may hold besides Stale.                                     *)
LEMMA TokenFormed ==
  \A kind \in {"header", "body"}, m \in Msg, k \in 1 .. Q : <<kind, m, k>> \in Token
BY DEF Token

(* Storing a header or a body, and forgetting cells, leaves tokens.        *)
LEMMA CellsStayTokens ==
  ASSUME cells \in [Indexes -> Token], NEW m \in Msg, NEW i \in 0 .. Q
  PROVE  /\ WithHeader(i, m) \in [Indexes -> Token]
         /\ WithBody(i, m) \in [Indexes -> Token]
<1>1. m.len \in 1 .. N
  BY DEF Msg
<1>2. ASSUME NEW c \in 0 .. Q, c \in HeaderCells(i)
      PROVE  <<"header", m, CHOOSE k \in 1 .. H : HeaderCell(i, k) = c>> \in Token
  <2>1. (CHOOSE k \in 1 .. H : HeaderCell(i, k) = c) \in 1 .. H
    BY <1>2 DEF HeaderCells
  <2>2. (CHOOSE k \in 1 .. H : HeaderCell(i, k) = c) \in 1 .. Q
    BY <2>1
  <2> QED
    BY <2>2, TokenFormed
<1>3. ASSUME NEW c \in 0 .. Q, c \in BodyCells(i, m.len)
      PROVE  <<"body", m, CHOOSE k \in 1 .. m.len : BodyCell(i, k) = c>> \in Token
  <2>1. (CHOOSE k \in 1 .. m.len : BodyCell(i, k) = c) \in 1 .. m.len
    BY <1>3 DEF BodyCells
  <2>2. (CHOOSE k \in 1 .. m.len : BodyCell(i, k) = c) \in 1 .. Q
    BY <1>1, <2>1
  <2> QED
    BY <2>2, TokenFormed
<1>4. WithHeader(i, m) \in [Indexes -> Token]
  BY <1>2 DEF WithHeader, Indexes
<1>5. WithBody(i, m) \in [Indexes -> Token]
  BY <1>3 DEF WithBody, Indexes
<1> QED
  BY <1>4, <1>5

LEMMA ForgottenCells ==
  ASSUME cells \in [Indexes -> Token], NEW S
  PROVE  Forget(S) \in [Indexes -> Token]
BY DEF Forget, Indexes, Token

(* The lengths pop may read from a header, and the message it may copy.    *)
LEMMA ReadBackInRange ==
  ASSUME NEW i, NEW n
  PROVE  /\ LengthsAt(i) \subseteq 0 .. Q
         /\ BodyAt(i, n) \in Msg \cup {Garbled}
<1>1. \A m \in Msg : m.len \in 0 .. Q
  BY MessageLength
<1>2. LengthsAt(i) \subseteq 0 .. Q
  BY <1>1 DEF LengthsAt
<1>3. CASE \E m \in Msg : BodyHolds(i, n, m)
  <2>1. (CHOOSE m \in Msg : BodyHolds(i, n, m)) \in Msg
    BY <1>3
  <2> QED
    BY <1>2, <1>3, <2>1 DEF BodyAt
<1>4. CASE ~ \E m \in Msg : BodyHolds(i, n, m)
  BY <1>2, <1>4 DEF BodyAt
<1> QED
  BY <1>3, <1>4

-----------------------------------------------------------------------------
(* Every reachable state of the two ends and the ring is well typed: both  *)
(* indexes stay in 0 .. Q through every wrap, even after a torn comparison *)
(* has let them cross.                                                     *)
THEOREM TypeCorrect == Spec => []TypeOK
<1>1. Init => TypeOK
  <2> SUFFICES ASSUME Init PROVE TypeOK
    OBVIOUS
  <2>1. cells \in [Indexes -> Token]
    BY DEF Init, Indexes, Token
  <2>2. queue \in Seq(Msg) /\ torn \subseteq {"append", "pop"}
    BY DEF Init
  <2> QED
    BY <2>1, <2>2 DEF Init, TypeOK, Indexes
<1>2. TypeOK /\ [Next]_vars => TypeOK'
  <2> SUFFICES ASSUME TypeOK, [Next]_vars PROVE TypeOK'
    OBVIOUS
  <2> USE DEF TypeOK, Indexes, shared, prod, cons, hist
  <2>1. ASSUME NEW m \in Msg, AppendBegin(m) PROVE TypeOK'
    BY <2>1 DEF AppendBegin
  <2>2. CASE AppendCheck
    BY <2>2 DEF AppendCheck, AppendReturns
  <2>3. CASE AppendHeader
    BY <2>3, CellsStayTokens DEF AppendHeader
  <2>4. CASE AppendPublishHeader
    <3>1. write' \in 0 .. Q
      BY <2>4, StepsStayOnRing DEF AppendPublishHeader
    <3> QED
      BY <2>4, <3>1 DEF AppendPublishHeader
  <2>5. CASE AppendBody
    BY <2>5, CellsStayTokens DEF AppendBody
  <2>6. CASE AppendPublishBody
    <3>1. pmsg \in Msg /\ pmsg.len \in 0 .. Q
      <4>1. pmsg \in Msg
        BY <2>6 DEF AppendPublishBody
      <4> QED
        BY <4>1, MessageLength
    <3>2. write' \in 0 .. Q
      BY <2>6, <3>1, StepsStayOnRing DEF AppendPublishBody
    <3>3. queue' \in Seq(Msg)
      BY <2>6, <3>1 DEF AppendPublishBody
    <3> QED
      BY <2>6, <3>2, <3>3 DEF AppendPublishBody, AppendReturns
  <2>7. ASSUME NEW cap \in Caps, PopBegin(cap) PROVE TypeOK'
    BY <2>7 DEF PopBegin
  <2>8. CASE PopUsed
    BY <2>8, SizesAreNat DEF PopUsed
  <2>9. CASE PopLength
    <3>1. PICK n \in LengthsAt(read) :
            IF H + 1 > cused \/ H + n > cused \/ n > ccap
            THEN PopReturns
            ELSE cpc' = "header" /\ clen' = n /\ ccap' = 0 /\ cused' = 0
                                 /\ UNCHANGED cwrapped
      BY <2>9 DEF PopLength
    <3>2. n \in 0 .. Q
      BY ReadBackInRange
    <3>3. /\ cpc' \in {"idle", "header"} /\ clen' \in 0 .. Q
          /\ ccap' = 0 /\ cused' = 0 /\ cwrapped' \in BOOLEAN
      BY <3>1, <3>2 DEF PopReturns
    <3> QED
      BY <2>9, <3>3 DEF PopLength
  <2>10. CASE PopHeader
    <3>1. read' \in 0 .. Q
      BY <2>10, StepsStayOnRing DEF PopHeader
    <3>2. cells' \in [Indexes -> Token]
      BY <2>10, ForgottenCells DEF PopHeader
    <3> QED
      BY <2>10, <3>1, <3>2 DEF PopHeader
  <2>11. CASE PopBody
    BY <2>11, ReadBackInRange DEF PopBody
  <2>12. CASE PopRelease
    <3>1. read' \in 0 .. Q
      BY <2>12, StepsStayOnRing DEF PopRelease
    <3>2. cells' \in [Indexes -> Token]
      BY <2>12, ForgottenCells DEF PopRelease
    <3> QED
      BY <2>12, <3>1, <3>2 DEF PopRelease, PopReturns
  <2>13. CASE UNCHANGED vars
    BY <2>13 DEF vars
  <2> QED
    BY <2>1, <2>2, <2>3, <2>4, <2>5, <2>6, <2>7, <2>8, <2>9, <2>10, <2>11,
       <2>12, <2>13 DEF Next, Producer, Consumer
<1> QED
  BY <1>1, <1>2, PTL DEF Spec

(* A distance is a number of bytes.                                        *)
LEMMA DistanceIsNat == \A r, w \in 0 .. Q : Distance(r, w) \in Nat
BY DEF Distance

(* Moving write over a header or a body adds to the published bytes, and   *)
(* moving read takes from them, exactly its length.                        *)
LEMMA IndexMovesByLength ==
  ASSUME NEW r \in 0 .. Q, NEW w \in 0 .. Q, NEW n \in 0 .. Q,
         Distance(r, w) <= N
  PROVE  /\ Distance(r, w) + H <= N
              => Distance(r, AfterHeader(w)) = Distance(r, w) + H
         /\ Distance(r, w) + n <= N
              => Distance(r, AfterBody(w, n)) = Distance(r, w) + n
         /\ H + 1 <= Distance(r, w)
              => Distance(AfterHeader(r), w) = Distance(r, w) - H
         /\ n <= Distance(r, w)
              => Distance(AfterBody(r, n), w) = Distance(r, w) - n
<1>1. Distance(r, w) + H <= N => Distance(r, AfterHeader(w)) = Distance(r, w) + H
  BY DEF Distance, AfterHeader, InRing
<1>2. Distance(r, w) + n <= N => Distance(r, AfterBody(w, n)) = Distance(r, w) + n
  BY DEF Distance, AfterBody
<1>3. H + 1 <= Distance(r, w) => Distance(AfterHeader(r), w) = Distance(r, w) - H
  BY DEF Distance, AfterHeader, InRing
<1>4. n <= Distance(r, w) => Distance(AfterBody(r, n), w) = Distance(r, w) - n
  BY DEF Distance, AfterBody
<1> QED
  BY <1>1, <1>2, <1>3, <1>4

-----------------------------------------------------------------------------
(* RoomInv holds in every reachable state.                                 *)
LEMMA RoomStep == TypeOK /\ TypeOK' /\ RoomInv /\ [Next]_vars => RoomInv'
<1> SUFFICES ASSUME TypeOK, TypeOK', RoomInv, [Next]_vars, torn' = {}
             PROVE  /\ Unread' + Reserved' <= N
                    /\ Claimed' <= Unread'
                    /\ cpc' = "length" => cused' <= Unread'
                    /\ cpc' = "header" => H + 1 <= Unread'
  BY DEF RoomInv
<1> USE DEF shared, prod, cons, hist
<1>1. torn = {}
  BY DEF Next, Producer, Consumer, vars, AppendBegin, AppendCheck,
     AppendHeader, AppendPublishHeader, AppendBody, AppendPublishBody, PopBegin,
     PopUsed, PopLength, PopHeader, PopBody, PopRelease
<1>2. Unread + Reserved <= N /\ Claimed <= Unread
  BY <1>1 DEF RoomInv
<1>3. cpc = "length" => cused <= Unread
  BY <1>1 DEF RoomInv
<1>4. cpc = "header" => H + 1 <= Unread
  BY <1>1 DEF RoomInv
<1>5. /\ read \in 0 .. Q /\ write \in 0 .. Q /\ read' \in 0 .. Q /\ write' \in 0 .. Q
      /\ clen \in 0 .. Q /\ cused \in Nat /\ clen' \in 0 .. Q /\ cused' \in Nat
  BY DEF TypeOK, Indexes
<1>6. ppc # "idle" => pmsg.len \in 1 .. N /\ pmsg.len \in 0 .. Q
  BY MessageLength DEF TypeOK
<1>7. ppc' # "idle" => pmsg'.len \in 1 .. N
  BY MessageLength DEF TypeOK
<1>8. Unread \in Nat /\ Unread' \in Nat
  BY <1>5, DistanceIsNat DEF Unread
<1>9. Reserved \in Nat /\ Reserved' \in Nat
  BY <1>6, <1>7 DEF Reserved
<1>10. Claimed \in Nat /\ Claimed' \in Nat
  BY <1>5 DEF Claimed
<1>11. Distance(read, write) <= N
  BY <1>2, <1>8, <1>9 DEF Unread
<1> DEFINE Goal == /\ Unread' + Reserved' <= N
                   /\ Claimed' <= Unread'
                   /\ cpc' = "length" => cused' <= Unread'
                   /\ cpc' = "header" => H + 1 <= Unread'
<1>12. ASSUME Unread' = Unread, Reserved' = Reserved, Claimed' = Claimed,
              cpc' = cpc, cused' = cused
       PROVE  Goal
  BY <1>2, <1>3, <1>4, <1>12
<1>13. ASSUME NEW m \in Msg, AppendBegin(m) PROVE Goal
  <2>1. Unread' = Unread /\ Claimed' = Claimed /\ cpc' = cpc /\ cused' = cused
    BY <1>13 DEF AppendBegin, Unread, Claimed
  <2>2. Reserved = 0 /\ Reserved' = 0
    BY <1>13 DEF AppendBegin, Reserved
  <2> QED
    BY <1>12, <2>1, <2>2
<1>14. CASE AppendCheck
  <2>1. Unread' = Unread /\ Claimed' = Claimed /\ cpc' = cpc /\ cused' = cused
    BY <1>14 DEF AppendCheck, Unread, Claimed
  <2>2. pwrapped = (read > write)
    BY <1>14 DEF AppendCheck, TypeOK
  <2>3. FreeSize(pwrapped, read, write) = N - Unread
    BY <1>5, <1>11, <2>2, UntornSizes DEF Unread
  <2>4. CASE FreeSize(pwrapped, read, write) < pmsg.len + H
    <3>1. Reserved' = 0
      BY <1>14, <2>4 DEF AppendCheck, AppendReturns, Reserved
    <3>2. Unread' + Reserved' <= N
      BY <1>2, <1>8, <1>9, <2>1, <3>1
    <3> QED
      BY <1>2, <1>3, <1>4, <2>1, <3>2
  <2>5. CASE ~(FreeSize(pwrapped, read, write) < pmsg.len + H)
    <3>1. Reserved' = H + pmsg.len /\ pmsg.len \in 1 .. N
      BY <1>6, <1>14, <2>5 DEF AppendCheck, Reserved
    <3>2. Unread' + Reserved' <= N
      BY <1>8, <2>1, <2>3, <2>5, <3>1
    <3> QED
      BY <1>2, <1>3, <1>4, <2>1, <3>2
  <2> QED
    BY <2>4, <2>5
<1>15. CASE AppendHeader
  <2>1. Unread' = Unread /\ Claimed' = Claimed /\ cpc' = cpc /\ cused' = cused
    BY <1>15 DEF AppendHeader, Unread, Claimed
  <2>2. Reserved' = Reserved
    BY <1>15 DEF AppendHeader, Reserved
  <2> QED
    BY <1>12, <2>1, <2>2
<1>16. CASE AppendPublishHeader
  <2>1. pmsg.len \in 1 .. N /\ Reserved = H + pmsg.len /\ Reserved' = pmsg.len
    BY <1>6, <1>16 DEF AppendPublishHeader, Reserved
  <2>2. Unread + H <= N
    BY <1>2, <1>8, <2>1
  <2>3. Distance(read, AfterHeader(write)) = Distance(read, write) + H
    BY <1>5, <1>11, <2>2, IndexMovesByLength DEF Unread
  <2>4. Unread' = Unread + H
    BY <1>16, <2>3 DEF AppendPublishHeader, Unread
  <2>5. Claimed' = Claimed /\ cpc' = cpc /\ cused' = cused
    BY <1>16 DEF AppendPublishHeader, Claimed
  <2> QED
    BY <1>2, <1>3, <1>4, <1>5, <1>8, <1>10, <2>1, <2>4, <2>5
<1>17. CASE AppendBody
  <2>1. Unread' = Unread /\ Claimed' = Claimed /\ cpc' = cpc /\ cused' = cused
    BY <1>17 DEF AppendBody, Unread, Claimed
  <2>2. Reserved' = Reserved
    BY <1>17 DEF AppendBody, Reserved
  <2> QED
    BY <1>12, <2>1, <2>2
<1>18. CASE AppendPublishBody
  <2>1. pmsg.len \in 0 .. Q /\ Reserved = pmsg.len /\ Reserved' = 0
    BY <1>6, <1>18 DEF AppendPublishBody, AppendReturns, Reserved
  <2>2. Distance(read, AfterBody(write, pmsg.len)) = Distance(read, write) + pmsg.len
    BY <1>2, <1>5, <1>11, <2>1, IndexMovesByLength DEF Unread
  <2>3. Unread' = Unread + pmsg.len
    BY <1>18, <2>2 DEF AppendPublishBody, Unread
  <2>4. Claimed' = Claimed /\ cpc' = cpc /\ cused' = cused
    BY <1>18 DEF AppendPublishBody, Claimed
  <2> QED
    BY <1>2, <1>3, <1>4, <1>5, <1>8, <1>10, <2>1, <2>3, <2>4
<1>19. ASSUME NEW cap \in Caps, PopBegin(cap) PROVE Goal
  <2>1. Unread' = Unread /\ Reserved' = Reserved
    BY <1>19 DEF PopBegin, Unread, Reserved
  <2>2. Claimed' = Claimed /\ cpc' = "used"
    BY <1>19 DEF PopBegin, Claimed
  <2> QED
    BY <1>2, <2>1, <2>2
<1>20. CASE PopUsed
  <2>1. Unread' = Unread /\ Reserved' = Reserved
    BY <1>20 DEF PopUsed, Unread, Reserved
  <2>2. Claimed' = Claimed /\ cpc' = "length"
    BY <1>20 DEF PopUsed, Claimed
  <2>3. cwrapped = (read > write)
    BY <1>20 DEF PopUsed, TypeOK
  <2>4. cused' = Unread
    BY <1>5, <1>11, <1>20, <2>3, UntornSizes DEF PopUsed, Unread
  <2> QED
    BY <1>2, <1>8, <2>1, <2>2, <2>4
<1>21. CASE PopLength
  <2>1. Unread' = Unread /\ Reserved' = Reserved
    BY <1>21 DEF PopLength, Unread, Reserved
  <2>2. cused <= Unread
    BY <1>3, <1>21 DEF PopLength
  <2>3. PICK n \in LengthsAt(read) :
          IF H + 1 > cused \/ H + n > cused \/ n > ccap
          THEN PopReturns
          ELSE cpc' = "header" /\ clen' = n /\ ccap' = 0 /\ cused' = 0
                               /\ UNCHANGED cwrapped
    BY <1>21 DEF PopLength
  <2>4. n \in 0 .. Q
    BY ReadBackInRange
  <2>5. CASE PopReturns
    <3>1. Claimed' = 0 /\ cpc' = "idle"
      BY <2>5 DEF PopReturns, Claimed
    <3> QED
      BY <1>2, <1>8, <2>1, <3>1
  <2>6. CASE cpc' = "header" /\ clen' = n /\ H + n <= cused /\ H + 1 <= cused
    <3>1. Claimed' = H + n
      BY <2>6 DEF Claimed
    <3> QED
      BY <1>2, <1>5, <1>8, <2>1, <2>2, <2>4, <2>6, <3>1
  <2> QED
    BY <1>5, <2>3, <2>4, <2>5, <2>6
<1>22. CASE PopHeader
  <2>1. /\ Claimed = H + clen /\ Claimed' = clen
        /\ Reserved' = Reserved /\ cpc' = "body"
    BY <1>22 DEF PopHeader, Claimed, Reserved
  <2>2. H + 1 <= Distance(read, write)
    BY <1>4, <1>22 DEF PopHeader, Unread
  <2>3. Distance(AfterHeader(read), write) = Distance(read, write) - H
    BY <1>5, <1>11, <2>2, IndexMovesByLength
  <2>4. Unread' = Unread - H
    BY <1>22, <2>3 DEF PopHeader, Unread
  <2> QED
    BY <1>2, <1>5, <1>8, <1>9, <2>1, <2>4
<1>23. CASE PopBody
  <2>1. Unread' = Unread /\ Reserved' = Reserved
    BY <1>23 DEF PopBody, Unread, Reserved
  <2>2. Claimed' = Claimed /\ cpc' = "release"
    BY <1>23 DEF PopBody, Claimed
  <2> QED
    BY <1>2, <2>1, <2>2
<1>24. CASE PopRelease
  <2>1. /\ Claimed = clen /\ Claimed' = 0
        /\ Reserved' = Reserved /\ cpc' = "idle"
    BY <1>24 DEF PopRelease, PopReturns, Claimed, Reserved
  <2>2. Distance(AfterBody(read, clen), write) = Distance(read, write) - clen
    BY <1>2, <1>5, <1>11, <2>1, IndexMovesByLength DEF Unread
  <2>3. Unread' = Unread - clen
    BY <1>24, <2>2 DEF PopRelease, Unread
  <2> QED
    BY <1>2, <1>5, <1>8, <1>9, <2>1, <2>3
<1>25. CASE UNCHANGED vars
  <2>1. /\ Unread' = Unread /\ Reserved' = Reserved /\ Claimed' = Claimed
        /\ cpc' = cpc /\ cused' = cused
    BY <1>25 DEF vars, Unread, Reserved, Claimed
  <2> QED
    BY <1>12, <2>1
<1> QED
  BY <1>13, <1>14, <1>15, <1>16, <1>17, <1>18, <1>19, <1>20, <1>21, <1>22,
     <1>23, <1>24, <1>25 DEF Next, Producer, Consumer

(* Whatever the scheduling, as long as no comparison was out of date when  *)
(* it was used: what the producer has claimed fits beside the published    *)
(* bytes, and what the consumer takes is published.                        *)
THEOREM RoomKept == Spec => []RoomInv
<1>1. Init => RoomInv
  BY DEF Init, RoomInv, Unread, Distance, Reserved, Claimed
<1>2. TypeOK /\ TypeOK' /\ RoomInv /\ [Next]_vars => RoomInv'
  BY RoomStep
<1> QED
  BY <1>1, <1>2, TypeCorrect, PTL DEF Spec

-----------------------------------------------------------------------------
(* The n cells from index i on, going round the ring.                      *)
InSpan(x, i, n) == IF i + n > Q THEN x >= i \/ x < i + n - Q ELSE i <= x /\ x < i + n

(* The cells of a body, or of a header and the body behind it, lie in the  *)
(* span of their lengths.                                                  *)
LEMMA CellsInSpan ==
  ASSUME NEW i \in 0 .. Q, NEW n \in 0 .. Q
  PROVE  /\ \A x \in BodyCells(i, n) : x \in Int /\ InSpan(x, i, n)
         /\ H + n <= N =>
              \A x \in HeaderCells(i) \cup BodyCells(AfterHeader(i), n) :
                 x \in Int /\ InSpan(x, i, H + n)
<1>1. ASSUME NEW x \in BodyCells(i, n) PROVE x \in Int /\ InSpan(x, i, n)
  <2>1. PICK k \in 1 .. n : x = BodyCell(i, k)
    BY DEF BodyCells
  <2> QED
    BY <2>1 DEF BodyCell, InRing, InSpan
<1>2. ASSUME H + n <= N, NEW x \in HeaderCells(i)
      PROVE  x \in Int /\ InSpan(x, i, H + n)
  <2>1. PICK k \in 1 .. H : x = HeaderCell(i, k)
    BY DEF HeaderCells
  <2> QED
    BY <1>2, <2>1 DEF HeaderCell, InRing, InSpan
<1>3. ASSUME H + n <= N, NEW x \in BodyCells(AfterHeader(i), n)
      PROVE  x \in Int /\ InSpan(x, i, H + n)
  <2>1. PICK k \in 1 .. n : x = BodyCell(AfterHeader(i), k)
    BY DEF BodyCells
  <2> QED
    BY <1>3, <2>1 DEF AfterHeader, BodyCell, InRing, InSpan
<1> QED
  BY <1>1, <1>2, <1>3

(* What fits in the room left and what is published lie apart.             *)
LEMMA SpansDisjoint ==
  ASSUME NEW r \in 0 .. Q, NEW w \in 0 .. Q, NEW p \in Nat, NEW c \in Nat,
         Distance(r, w) + p <= N, c <= Distance(r, w), NEW x \in Int,
         InSpan(x, w, p), InSpan(x, r, c)
  PROVE  FALSE
BY DEF InSpan, Distance

(* As long as no comparison was out of date when it was used, append and   *)
(* pop never touch the same byte at the same time.                         *)
THEOREM NoOverlapKept == Spec => []NoOverlap
<1>1. TypeOK /\ RoomInv => NoOverlap
  <2> SUFFICES ASSUME TypeOK, RoomInv, torn = {},
                      NEW x \in WriterCells, x \in ReaderCells
               PROVE  FALSE
    BY DEF NoOverlap
  <2>1. read \in 0 .. Q /\ write \in 0 .. Q /\ clen \in 0 .. Q
    BY DEF TypeOK, Indexes
  <2>2. ppc # "idle" => pmsg.len \in 1 .. N /\ pmsg.len \in 0 .. Q
    BY MessageLength DEF TypeOK
  <2>3. Distance(read, write) \in Nat
    BY <2>1, DistanceIsNat
  <2>4. Reserved \in Nat /\ Claimed \in Nat
    BY <2>1, <2>2 DEF Reserved, Claimed
  <2>5. Distance(read, write) + Reserved <= N /\ Claimed <= Distance(read, write)
    BY DEF RoomInv, Unread
  <2>6. x \in Int /\ InSpan(x, write, Reserved)
    <3>1. CASE ppc \in {"header", "pubheader"}
      <4>1. Reserved = H + pmsg.len /\ H + pmsg.len <= N
        BY <2>2, <2>3, <2>4, <2>5, <3>1 DEF Reserved
      <4>2. x \in HeaderCells(write) \cup BodyCells(AfterHeader(write), pmsg.len)
        BY <3>1 DEF WriterCells
      <4> QED
        BY <2>1, <2>2, <3>1, <4>1, <4>2, CellsInSpan
    <3>2. CASE ppc \in {"body", "pubbody"}
      <4>1. Reserved = pmsg.len /\ x \in BodyCells(write, pmsg.len)
        BY <3>2 DEF Reserved, WriterCells
      <4> QED
        BY <2>1, <2>2, <3>2, <4>1, CellsInSpan
    <3> QED
      BY <3>1, <3>2 DEF WriterCells
  <2>7. InSpan(x, read, Claimed)
    <3>1. CASE cpc = "header"
      <4>1. Claimed = H + clen /\ H + clen <= N
        BY <2>1, <2>3, <2>4, <2>5, <3>1 DEF Claimed
      <4>2. x \in HeaderCells(read) \cup BodyCells(AfterHeader(read), clen)
        BY <3>1 DEF ReaderCells
      <4> QED
        BY <2>1, <4>1, <4>2, CellsInSpan
    <3>2. CASE cpc \in {"body", "release"}
      <4>1. Claimed = clen /\ x \in BodyCells(read, clen)
        BY <3>2 DEF Claimed, ReaderCells
      <4> QED
        BY <2>1, <4>1, CellsInSpan
    <3> QED
      BY <3>1, <3>2 DEF ReaderCells
  <2> QED
    BY <2>1, <2>4, <2>5, <2>6, <2>7, SpansDisjoint
<1> QED
  BY <1>1, TypeCorrect, RoomKept, PTL

-----------------------------------------------------------------------------
(* With one worker an operation runs to its end before the other begins,   *)
(* so the comparison it starts with still holds when it is used.           *)
OneWorkerInv ==
  Threads = 1 => /\ torn = {}
                 /\ ppc = "idle" \/ cpc = "idle"
                 /\ ppc = "room" => pwrapped = (read > write)
                 /\ cpc = "used" => cwrapped = (read > write)

LEMMA OneWorkerStep == TypeOK /\ OneWorkerInv /\ [Next]_vars => OneWorkerInv'
<1> SUFFICES ASSUME TypeOK, OneWorkerInv, [Next]_vars, Threads = 1
             PROVE  OneWorkerInv'
  BY DEF OneWorkerInv
<1> USE DEF OneWorkerInv, shared, prod, cons, hist
<1>1. ASSUME NEW m \in Msg, AppendBegin(m) PROVE OneWorkerInv'
  BY <1>1 DEF AppendBegin
<1>2. CASE AppendCheck
  BY <1>2 DEF AppendCheck, AppendReturns
<1>3. CASE AppendHeader \/ AppendPublishHeader \/ AppendBody \/ AppendPublishBody
  BY <1>3 DEF AppendHeader, AppendPublishHeader, AppendBody, AppendPublishBody,
     AppendReturns
<1>4. ASSUME NEW cap \in Caps, PopBegin(cap) PROVE OneWorkerInv'
  BY <1>4 DEF PopBegin
<1>5. CASE PopUsed
  BY <1>5 DEF PopUsed
<1>6. CASE PopLength
  BY <1>6 DEF PopLength, PopReturns
<1>7. CASE PopHeader \/ PopBody \/ PopRelease
  BY <1>7 DEF PopHeader, PopBody, PopRelease, PopReturns
<1>8. CASE UNCHANGED vars
  BY <1>8 DEF vars
<1> QED
  BY <1>1, <1>2, <1>3, <1>4, <1>5, <1>6, <1>7, <1>8 DEF Next, Producer, Consumer

(* A pool with one worker never tears a comparison.                        *)
THEOREM OneWorkerNeverTears == Spec => []NeverTorn
<1>1. Init => OneWorkerInv
  BY DEF Init, OneWorkerInv
<1>2. TypeOK /\ OneWorkerInv /\ [Next]_vars => OneWorkerInv'
  BY OneWorkerStep
<1>3. OneWorkerInv => NeverTorn
  BY DEF OneWorkerInv, NeverTorn
<1> QED
  BY <1>1, <1>2, <1>3, TypeCorrect, PTL DEF Spec

(* So a pool with one worker makes the lock-free ring safe without any     *)
(* condition: what append claims fits, what pop takes is published.        *)
THEOREM OneWorkerIsSafe == Spec => [](Threads = 1 => AppendFits /\ PopWhole)
<1>1. NeverTorn /\ RoomInv => (Threads = 1 => AppendFits /\ PopWhole)
  BY DEF NeverTorn, RoomInv, AppendFits, PopWhole
<1> QED
  BY <1>1, OneWorkerNeverTears, RoomKept, PTL

-----------------------------------------------------------------------------
(* The ring implements a FIFO of whole messages.  RoomInv says which bytes *)
(* each end may touch; what the bytes between the indexes hold is in       *)
(* Layout: idx[i] is the value write had when message i of the queue was   *)
(* stored, off[i] how far that is from read, and the last element of both  *)
(* is where the next message goes.  idx follows the arithmetic of the code *)
(* so that 0 and Q, the same place for a body but not for a header, are    *)
(* told apart; off only grows, which takes the wrap out of the argument.   *)

D(i)    == Distance(read, i)
Span(m) == H + m.len
Last    == Len(queue) + 1
HalfIn  == ppc \in {"body", "pubbody"}

Chain(idx, off) ==
  /\ idx \in [1 .. Last -> 0 .. Q] /\ off \in [1 .. Last -> Int]
  /\ \A i \in 1 .. Len(queue) :
       /\ idx[i + 1] = AfterBody(AfterHeader(idx[i]), queue[i].len)
       /\ off[i + 1] = off[i] + Span(queue[i])
       /\ \A j \in 1 .. Last : i < j => off[i] + Span(queue[i]) =< off[j]

(* The header of the first message has been given back when off[1] < 0.    *)
Placed(idx, off) ==
  /\ \A i \in 1 .. Len(queue) : D(AfterHeader(idx[i])) = off[i] + H
  /\ \A i \in 1 .. Last : off[i] >= 0 => D(idx[i]) = off[i]

Holding(idx, off) ==
  \A i \in 1 .. Len(queue) :
    /\ off[i] >= 0 => HeaderHolds(idx[i], queue[i])
    /\ BodyHolds(AfterHeader(idx[i]), queue[i].len, queue[i])

(* Where the consumer stands.                                              *)
Front(idx, off) ==
  /\ cpc = "body" => read = AfterHeader(idx[1]) /\ off[1] = -H
  /\ cpc = "release" => idx[1] = AfterBody(read, clen) /\ off[1] = clen
  /\ cpc \notin {"body", "release"} => idx[1] = read /\ off[1] = 0
  /\ cpc \in {"header", "body"} => queue # <<>> /\ clen = queue[1].len

(* Where the producer stands.                                              *)
Back(idx, off) ==
  /\ HalfIn => /\ write = AfterHeader(idx[Last]) /\ Unread = off[Last] + H
               /\ HeaderHolds(idx[Last], pmsg)
  /\ ~HalfIn => write = idx[Last] /\ Unread = off[Last]
  /\ ppc = "pubheader" => HeaderHolds(write, pmsg)
  /\ ppc = "pubbody" => BodyHolds(write, pmsg.len, pmsg)

Layout(idx, off) ==
  Chain(idx, off) /\ Placed(idx, off) /\ Holding(idx, off) /\ Front(idx, off) /\ Back(idx, off)

UntornInv == TypeOK /\ RoomInv /\ torn = {}
LayoutInv == \E idx, off : Layout(idx, off)

(* What lies behind i is as much nearer to i as i is away from r.          *)
LEMMA DistanceFrom ==
  ASSUME NEW r \in 0 .. Q, NEW i \in 0 .. Q, NEW w \in 0 .. Q,
         Distance(r, i) < Distance(r, w), Distance(r, w) =< N
  PROVE  Distance(i, w) = Distance(r, w) - Distance(r, i)
BY DEF Distance

(* What is written behind the published bytes touches none of them.        *)
LEMMA WriterApart ==
  ASSUME read \in 0 .. Q, write \in 0 .. Q, NEW i \in 0 .. Q, NEW a \in Nat \ {0}, NEW p \in Nat,
         D(i) + a =< Unread, Unread + p =< N, NEW x \in Int, InSpan(x, write, p), InSpan(x, i, a)
  PROVE  FALSE
<1>1. Distance(read, i) \in Nat /\ Distance(read, write) \in Nat
  BY DistanceIsNat
<1>2. Distance(i, write) = Distance(read, write) - Distance(read, i)
  BY <1>1, DistanceFrom DEF D, Unread
<1>3. Distance(i, write) + p =< N /\ a =< Distance(i, write)
  BY <1>1, <1>2 DEF D, Unread
<1> QED BY <1>3, SpansDisjoint

(* What is given back in front touches nothing that lies behind it.        *)
LEMMA ReaderApart ==
  ASSUME read \in 0 .. Q, NEW i \in 0 .. Q, NEW a \in Nat, NEW c \in Nat,
         c =< D(i), D(i) + a =< N, NEW x \in Int, InSpan(x, read, c), InSpan(x, i, a)
  PROVE  FALSE
BY SpansDisjoint DEF D

(* The cells of a header and of a body.                                    *)
LEMMA PieceCells ==
  ASSUME NEW i \in 0 .. Q, NEW n \in 0 .. Q
  PROVE  /\ \A x \in HeaderCells(i) : x \in 0 .. Q /\ x \in Int /\ InSpan(x, i, H)
         /\ \A x \in BodyCells(i, n) : x \in 0 .. Q /\ x \in Int /\ InSpan(x, i, n)
<1>1. ASSUME NEW x \in HeaderCells(i) PROVE x \in 0 .. Q /\ InSpan(x, i, H)
  <2>1. PICK k \in 1 .. H : x = HeaderCell(i, k)
    BY DEF HeaderCells
  <2> QED BY <2>1 DEF HeaderCell, InRing, InSpan
<1>2. ASSUME NEW x \in BodyCells(i, n) PROVE x \in 0 .. Q
  <2>1. PICK k \in 1 .. n : x = BodyCell(i, k)
    BY DEF BodyCells
  <2> QED BY <2>1 DEF BodyCell, InRing
<1> QED BY <1>1, <1>2, CellsInSpan

(* A header or body that is stored can be read back, and changes no other  *)
(* cell.                                                                   *)
LEMMA HeaderStored ==
  ASSUME NEW i \in 0 .. Q, NEW m \in Msg, cells' = WithHeader(i, m)
  PROVE  HeaderHolds(i, m)' /\ \A c \in (0 .. Q) \ HeaderCells(i) : cells'[c] = cells[c]
<1>1. ASSUME NEW k \in 1 .. H, NEW j \in 1 .. H, HeaderCell(i, j) = HeaderCell(i, k) PROVE j = k
  BY <1>1 DEF HeaderCell, InRing
<1>2. ASSUME NEW k \in 1 .. H PROVE cells'[HeaderCell(i, k)] = <<"header", m, k>>
  <2>1. HeaderCell(i, k) \in HeaderCells(i) /\ HeaderCell(i, k) \in 0 .. Q
    <3>1. HeaderCell(i, k) \in HeaderCells(i)
      BY DEF HeaderCells
    <3> QED BY <3>1, PieceCells
  <2>2. (CHOOSE j \in 1 .. H : HeaderCell(i, j) = HeaderCell(i, k)) = k
    BY <1>1
  <2> QED BY <2>1, <2>2 DEF WithHeader
<1>3. \A c \in (0 .. Q) \ HeaderCells(i) : cells'[c] = cells[c]
  BY DEF WithHeader
<1> QED BY <1>2, <1>3 DEF HeaderHolds

LEMMA BodyStored ==
  ASSUME NEW i \in 0 .. Q, NEW m \in Msg, cells' = WithBody(i, m)
  PROVE  BodyHolds(i, m.len, m)' /\ \A c \in (0 .. Q) \ BodyCells(i, m.len) : cells'[c] = cells[c]
<1>0. m.len \in 1 .. N /\ m.len \in 0 .. Q
  BY MessageLength
<1>1. ASSUME NEW k \in 1 .. m.len, NEW j \in 1 .. m.len, BodyCell(i, j) = BodyCell(i, k) PROVE j = k
  BY <1>0, <1>1 DEF BodyCell, InRing
<1>2. ASSUME NEW k \in 1 .. m.len PROVE cells'[BodyCell(i, k)] = <<"body", m, k>>
  <2>1. BodyCell(i, k) \in BodyCells(i, m.len) /\ BodyCell(i, k) \in 0 .. Q
    <3>1. BodyCell(i, k) \in BodyCells(i, m.len)
      BY DEF BodyCells
    <3> QED BY <1>0, <3>1, PieceCells
  <2>2. (CHOOSE j \in 1 .. m.len : BodyCell(i, j) = BodyCell(i, k)) = k
    BY <1>1
  <2> QED BY <2>1, <2>2 DEF WithBody
<1>3. \A c \in (0 .. Q) \ BodyCells(i, m.len) : cells'[c] = cells[c]
  BY DEF WithBody
<1> QED BY <1>2, <1>3 DEF BodyHolds

(* A header or body stays that no change touches.                          *)
LEMMA HeaderStays ==
  ASSUME NEW i \in 0 .. Q, NEW m, HeaderHolds(i, m), NEW S, HeaderCells(i) \cap S = {},
         \A c \in (0 .. Q) \ S : cells'[c] = cells[c]
  PROVE  HeaderHolds(i, m)'
<1> SUFFICES ASSUME NEW k \in 1 .. H PROVE cells'[HeaderCell(i, k)] = <<"header", m, k>>
  BY DEF HeaderHolds
<1>1. HeaderCell(i, k) \in HeaderCells(i)
  BY DEF HeaderCells
<1>2. HeaderCell(i, k) \in 0 .. Q
  BY <1>1, PieceCells
<1> QED BY <1>1, <1>2 DEF HeaderHolds

LEMMA BodyStays ==
  ASSUME NEW i \in 0 .. Q, NEW n \in 0 .. Q, NEW m, BodyHolds(i, n, m), NEW S,
         BodyCells(i, n) \cap S = {}, \A c \in (0 .. Q) \ S : cells'[c] = cells[c]
  PROVE  BodyHolds(i, n, m)'
<1> SUFFICES ASSUME NEW k \in 1 .. n PROVE cells'[BodyCell(i, k)] = <<"body", m, k>>
  BY DEF BodyHolds
<1>1. BodyCell(i, k) \in BodyCells(i, n)
  BY DEF BodyCells
<1>2. BodyCell(i, k) \in 0 .. Q
  BY <1>1, PieceCells
<1> QED BY <1>1, <1>2 DEF BodyHolds

(* What pop reads where a message is stored.                               *)
LEMMA ReadBack ==
  ASSUME NEW i, NEW m \in Msg
  PROVE  /\ HeaderHolds(i, m) => LengthsAt(i) = {m.len}
         /\ BodyHolds(i, m.len, m) => BodyAt(i, m.len) = m
<1>0. m.len \in 1 .. N
  BY MessageLength
<1>1. ASSUME HeaderHolds(i, m) PROVE LengthsAt(i) = {m.len}
  <2>1. ASSUME NEW x \in Msg, HeaderHolds(i, x) PROVE x = m
    <3>1. 1 \in 1 .. H
      OBVIOUS
    <3>2. <<"header", x, 1>> = <<"header", m, 1>>
      BY <1>1, <2>1, <3>1 DEF HeaderHolds
    <3> QED BY <3>2
  <2> QED BY <1>1, <2>1 DEF LengthsAt
<1>2. ASSUME BodyHolds(i, m.len, m) PROVE BodyAt(i, m.len) = m
  <2>1. ASSUME NEW x \in Msg, BodyHolds(i, m.len, x) PROVE x = m
    <3>1. 1 \in 1 .. m.len
      BY <1>0
    <3>2. <<"body", x, 1>> = <<"body", m, 1>>
      BY <1>2, <2>1, <3>1 DEF BodyHolds
    <3> QED BY <3>2
  <2> QED BY <1>2, <2>1 DEF BodyAt
<1> QED BY <1>1, <1>2

(* Sizes and places of what is stored.                                     *)
LEMMA LayoutBounds ==
  ASSUME UntornInv, NEW idx, NEW off, Layout(idx, off)
  PROVE  /\ Len(queue) \in Nat /\ read \in 0 .. Q /\ write \in 0 .. Q /\ Unread \in Nat /\ Unread =< N
         /\ Last \in 1 .. Last /\ idx[Last] \in 0 .. Q /\ off[Last] \in Nat /\ off[Last] =< Unread
         /\ D(idx[Last]) = off[Last]
         /\ \A i \in 1 .. Len(queue) :
              /\ queue[i] \in Msg /\ queue[i].len \in 1 .. N /\ queue[i].len \in 0 .. Q
              /\ i \in 1 .. Last /\ i + 1 \in 1 .. Last
              /\ idx[i] \in 0 .. Q /\ AfterHeader(idx[i]) \in 0 .. Q
              /\ off[i] \in Int /\ off[i] + H \in Nat /\ off[i] + H + queue[i].len =< Unread
              /\ D(AfterHeader(idx[i])) = off[i] + H
              /\ off[i] >= 0 => D(idx[i]) = off[i]
              /\ off[i] < 0 => i = 1 /\ cpc = "body"
<1>1. /\ queue \in Seq(Msg) /\ read \in 0 .. Q /\ write \in 0 .. Q /\ clen \in 0 .. Q
  BY DEF UntornInv, TypeOK, Indexes
<1>2. Len(queue) \in Nat /\ Last \in 1 .. Last /\ Last \in Nat /\ Last = Len(queue) + 1
      /\ \A i \in 1 .. Len(queue) : i \in 1 .. Last /\ i + 1 \in 1 .. Last /\ i < Last
  BY <1>1 DEF Last
<1>3. \A i \in 1 .. Len(queue) : queue[i] \in Msg
  BY <1>1
<1>4. \A i \in 1 .. Len(queue) : queue[i].len \in 1 .. N /\ queue[i].len \in 0 .. Q
  BY <1>3, MessageLength
<1>5. Unread \in Nat
  BY <1>1, DistanceIsNat DEF Unread
<1>6. Unread =< N
  <2>1. ppc # "idle" => pmsg.len \in 1 .. N
    BY MessageLength DEF UntornInv, TypeOK
  <2>2. Reserved \in Nat
    BY <2>1 DEF Reserved
  <2> QED BY <1>5, <2>2 DEF UntornInv, RoomInv
<1>7. /\ idx \in [1 .. Last -> 0 .. Q] /\ off \in [1 .. Last -> Int]
      /\ \A i \in 1 .. Len(queue) :
           /\ off[i + 1] = off[i] + Span(queue[i])
           /\ \A j \in 1 .. Last : i < j => off[i] + Span(queue[i]) =< off[j]
  BY DEF Layout, Chain
<1>8. \A i \in 1 .. Last : idx[i] \in 0 .. Q /\ off[i] \in Int
  BY <1>7
<1>9. 1 \in 1 .. Last
  BY <1>2
<1>10. off[1] >= -H /\ (off[1] < 0 => cpc = "body")
  BY <1>1 DEF Layout, Front
<1>11. ASSUME NEW i \in 1 .. Last, i # 1
       PROVE  off[i] >= 0
  <2>1. 1 \in 1 .. Len(queue) /\ 1 < i
    BY <1>2, <1>11
  <2>2. off[1] + Span(queue[1]) =< off[i] /\ queue[1].len \in 1 .. N
    BY <1>4, <1>7, <2>1
  <2> QED BY <1>8, <1>9, <1>10, <2>2 DEF Span
<1>12. off[Last] >= 0
  <2>1. CASE Last = 1
    <3>1. queue = <<>>
      BY <1>1, <1>2, <2>1
    <3>2. cpc # "body"
      BY <3>1 DEF Layout, Front
    <3> QED BY <1>8, <1>9, <1>10, <2>1, <3>2
  <2>2. CASE Last # 1
    BY <1>2, <1>11, <2>2
  <2> QED BY <2>1, <2>2
<1>13. off[Last] =< Unread
  BY <1>2, <1>8 DEF Layout, Back
<1>14. D(idx[Last]) = off[Last]
  BY <1>2, <1>12 DEF Layout, Placed
<1>15. ASSUME NEW i \in 1 .. Len(queue)
       PROVE  /\ off[i] + H \in Nat /\ off[i] + H + queue[i].len =< Unread
              /\ D(AfterHeader(idx[i])) = off[i] + H
              /\ off[i] >= 0 => D(idx[i]) = off[i]
              /\ off[i] < 0 => i = 1 /\ cpc = "body"
  <2>1. off[i] \in Int /\ off[Last] \in Int /\ off[1] \in Int /\ i \in 1 .. Last /\ i < Last
    BY <1>2, <1>8, <1>9
  <2>2. off[i] + Span(queue[i]) =< off[Last]
    BY <1>2, <1>7, <2>1
  <2>3. D(AfterHeader(idx[i])) = off[i] + H /\ (off[i] >= 0 => D(idx[i]) = off[i])
    BY <2>1 DEF Layout, Placed
  <2>4. off[i] >= -H /\ (off[i] < 0 => i = 1 /\ cpc = "body")
    BY <1>10, <1>11, <2>1
  <2>5. queue[i].len \in 1 .. N
    BY <1>4
  <2>6. off[i] + (H + queue[i].len) =< off[Last]
    BY <2>2 DEF Span
  <2>7. off[i] + H \in Nat
    BY <2>1, <2>4
  <2>8. off[i] + H + queue[i].len =< Unread
    <3>1. \A a, h, b, c, u \in Int : a + (h + b) =< c /\ c =< u => a + h + b =< u
      OBVIOUS
    <3>2. queue[i].len \in Int /\ H \in Int /\ Unread \in Int
      BY <1>5, <2>5
    <3> QED BY <1>13, <2>1, <2>6, <3>1, <3>2, Zenon
  <2> QED BY <2>3, <2>4, <2>7, <2>8
<1>16. \A i \in 1 .. Len(queue) : AfterHeader(idx[i]) \in 0 .. Q
  BY <1>2, <1>8, StepsStayOnRing
<1> QED BY <1>1, <1>2, <1>3, <1>4, <1>5, <1>6, <1>8, <1>12, <1>13, <1>14, <1>15, <1>16

(* Of it, what is asked of one message.                                    *)
LEMMA MessageAt ==
  ASSUME UntornInv, NEW idx, NEW off, Layout(idx, off), NEW k \in 1 .. Len(queue)
  PROVE  /\ read \in 0 .. Q /\ write \in 0 .. Q /\ Unread \in Nat /\ Unread =< N
         /\ queue[k] \in Msg /\ queue[k].len \in 1 .. N /\ queue[k].len \in 0 .. Q
         /\ idx[k] \in 0 .. Q /\ AfterHeader(idx[k]) \in 0 .. Q
         /\ off[k] \in Int /\ off[k] + H + queue[k].len =< Unread
         /\ D(AfterHeader(idx[k])) = off[k] + H
         /\ off[k] >= 0 => D(idx[k]) = off[k]
<1>1. read \in 0 .. Q /\ write \in 0 .. Q /\ Unread \in Nat /\ Unread =< N
  BY LayoutBounds
<1>2. queue[k] \in Msg /\ queue[k].len \in 1 .. N /\ queue[k].len \in 0 .. Q
  BY LayoutBounds
<1>3. idx[k] \in 0 .. Q /\ AfterHeader(idx[k]) \in 0 .. Q
  BY LayoutBounds
<1>4. off[k] \in Int /\ off[k] + H + queue[k].len =< Unread
  BY LayoutBounds
<1>5. D(AfterHeader(idx[k])) = off[k] + H /\ (off[k] >= 0 => D(idx[k]) = off[k])
  BY LayoutBounds
<1> QED BY <1>1, <1>2, <1>3, <1>4, <1>5

(* Writing behind what is published leaves the messages as they are.       *)
LEMMA WriterKeeps ==
  ASSUME UntornInv, NEW idx, NEW off, Layout(idx, off), queue' = queue,
         NEW S, NEW p \in Nat, Unread + p =< N, \A x \in S : x \in Int /\ InSpan(x, write, p),
         \A c \in (0 .. Q) \ S : cells'[c] = cells[c]
  PROVE  Holding(idx, off)'
<1> SUFFICES ASSUME NEW i \in 1 .. Len(queue)
             PROVE  /\ off[i] >= 0 => HeaderHolds(idx[i], queue[i])'
                    /\ BodyHolds(AfterHeader(idx[i]), queue[i].len, queue[i])'
  BY DEF Holding
<1>0. PICK m, o, j, b : m = queue[i] /\ o = off[i] /\ j = idx[i] /\ b = AfterHeader(idx[i])
  OBVIOUS
<1> SUFFICES (off[i] >= 0 => HeaderHolds(j, m)') /\ BodyHolds(b, m.len, m)'
  BY <1>0, Zenon DEF HeaderHolds, BodyHolds
<1>1. /\ read \in 0 .. Q /\ write \in 0 .. Q /\ m \in Msg /\ m.len \in 1 .. N /\ m.len \in 0 .. Q
      /\ j \in 0 .. Q /\ b \in 0 .. Q /\ o \in Int /\ o + H + m.len =< Unread
      /\ Unread \in Nat /\ Unread =< N /\ D(b) = o + H
      /\ o >= 0 => D(j) = o
  <2>1. /\ read \in 0 .. Q /\ write \in 0 .. Q /\ Unread \in Nat /\ Unread =< N
        /\ queue[i] \in Msg /\ queue[i].len \in 1 .. N /\ queue[i].len \in 0 .. Q
        /\ idx[i] \in 0 .. Q /\ AfterHeader(idx[i]) \in 0 .. Q
        /\ off[i] \in Int /\ off[i] + H + queue[i].len =< Unread
        /\ D(AfterHeader(idx[i])) = off[i] + H
        /\ off[i] >= 0 => D(idx[i]) = off[i]
    BY MessageAt, Zenon
  <2> QED BY <1>0, <2>1, Zenon
<1>2. ASSUME off[i] >= 0 PROVE HeaderHolds(j, m)'
  <2>1. o >= 0
    BY <1>0, <1>1, <1>2
  <2>2. HeaderHolds(j, m)
    BY <1>0, <2>1 DEF Layout, Holding
  <2>3. D(j) + H =< Unread
    <3>1. \A a, l, u \in Int : 1 =< l /\ a + H + l =< u => a + H =< u
      OBVIOUS
    <3>2. m.len \in Int /\ 1 =< m.len /\ Unread \in Int
      BY <1>1, Positive, Zenon
    <3> QED BY <1>1, <2>1, <3>1, <3>2, Zenon
  <2>4. HeaderCells(j) \cap S = {}
    <3> SUFFICES ASSUME NEW x \in HeaderCells(j), x \in S PROVE FALSE
      OBVIOUS
    <3>1. x \in Int /\ InSpan(x, j, H)
      BY <1>1, PieceCells
    <3>2. InSpan(x, write, p) /\ H \in Nat \ {0} /\ H \in Nat
      OBVIOUS
    <3> QED BY <1>1, <2>3, <3>1, <3>2, WriterApart
  <2> QED BY <1>1, <2>2, <2>4, HeaderStays
<1>3. BodyHolds(b, m.len, m)'
  <2>1. BodyHolds(b, m.len, m)
    BY <1>0 DEF Layout, Holding
  <2>2. D(b) + m.len =< Unread
    BY <1>1
  <2>3. BodyCells(b, m.len) \cap S = {}
    <3> SUFFICES ASSUME NEW x \in BodyCells(b, m.len), x \in S PROVE FALSE
      OBVIOUS
    <3>1. x \in Int /\ InSpan(x, b, m.len)
      BY <1>1, PieceCells
    <3>2. InSpan(x, write, p)
      BY Zenon
    <3>3. m.len \in Nat \ {0} /\ m.len \in Nat
      BY <1>1, Positive, Zenon
    <3> QED BY <1>1, <2>2, <3>1, <3>2, <3>3, WriterApart
  <2> QED BY <1>1, <2>1, <2>3, BodyStays
<1> QED BY <1>2, <1>3

(* Giving c bytes back in front leaves what lies behind them.              *)
LEMMA ReaderKeeps ==
  ASSUME UntornInv, NEW idx, NEW off, Layout(idx, off), queue' = queue,
         NEW S, NEW c \in Nat, \A x \in S : x \in Int /\ InSpan(x, read, c),
         \A x \in (0 .. Q) \ S : cells'[x] = cells[x],
         NEW off2, \A i \in 1 .. Len(queue) : off2[i] = off[i] - c /\ c =< off[i] + H
  PROVE  Holding(idx, off2)'
<1> SUFFICES ASSUME NEW i \in 1 .. Len(queue)
             PROVE  /\ off2[i] >= 0 => HeaderHolds(idx[i], queue[i])'
                    /\ BodyHolds(AfterHeader(idx[i]), queue[i].len, queue[i])'
  BY DEF Holding
<1>0. PICK m, o, j, b : m = queue[i] /\ o = off[i] /\ j = idx[i] /\ b = AfterHeader(idx[i])
  OBVIOUS
<1> SUFFICES (off2[i] >= 0 => HeaderHolds(j, m)') /\ BodyHolds(b, m.len, m)'
  BY <1>0, Zenon DEF HeaderHolds, BodyHolds
<1>1. /\ read \in 0 .. Q /\ write \in 0 .. Q /\ m \in Msg /\ m.len \in 1 .. N /\ m.len \in 0 .. Q
      /\ j \in 0 .. Q /\ b \in 0 .. Q /\ o \in Int /\ o + H + m.len =< Unread
      /\ Unread \in Nat /\ Unread =< N /\ D(b) = o + H
      /\ o >= 0 => D(j) = o
  <2>1. /\ read \in 0 .. Q /\ write \in 0 .. Q /\ Unread \in Nat /\ Unread =< N
        /\ queue[i] \in Msg /\ queue[i].len \in 1 .. N /\ queue[i].len \in 0 .. Q
        /\ idx[i] \in 0 .. Q /\ AfterHeader(idx[i]) \in 0 .. Q
        /\ off[i] \in Int /\ off[i] + H + queue[i].len =< Unread
        /\ D(AfterHeader(idx[i])) = off[i] + H
        /\ off[i] >= 0 => D(idx[i]) = off[i]
    BY MessageAt, Zenon
  <2> QED BY <1>0, <2>1, Zenon
<1>4. off2[i] = o - c /\ c =< o + H
  BY <1>0, Zenon
<1>2. ASSUME off2[i] >= 0 PROVE HeaderHolds(j, m)'
  <2>1. o >= 0 /\ c =< o
    BY <1>0, <1>1, <1>2, <1>4
  <2>2. HeaderHolds(j, m)
    BY <1>0, <2>1 DEF Layout, Holding
  <2>3. c =< D(j) /\ D(j) + H =< N
    <3>1. D(j) = o
      BY <1>1, <2>1, Zenon
    <3>2. o + H =< N
      <4>1. \A a, l, u \in Int : 1 =< l /\ a + H + l =< u /\ u =< N => a + H =< N
        OBVIOUS
      <4>2. m.len \in Int /\ 1 =< m.len /\ Unread \in Int
        BY <1>1, Positive, Zenon
      <4> QED BY <1>1, <4>1, <4>2, Zenon
    <3> QED BY <2>1, <3>1, <3>2, Zenon
  <2>4. HeaderCells(j) \cap S = {}
    <3> SUFFICES ASSUME NEW x \in HeaderCells(j), x \in S PROVE FALSE
      OBVIOUS
    <3>1. x \in Int /\ InSpan(x, j, H)
      BY <1>1, PieceCells
    <3>2. InSpan(x, read, c) /\ H \in Nat \ {0} /\ H \in Nat
      OBVIOUS
    <3> QED BY <1>1, <2>3, <3>1, <3>2, ReaderApart
  <2> QED BY <1>1, <2>2, <2>4, HeaderStays
<1>3. BodyHolds(b, m.len, m)'
  <2>1. BodyHolds(b, m.len, m)
    BY <1>0 DEF Layout, Holding
  <2>2. c =< D(b) /\ D(b) + m.len =< N
    BY <1>1, <1>4
  <2>3. BodyCells(b, m.len) \cap S = {}
    <3> SUFFICES ASSUME NEW x \in BodyCells(b, m.len), x \in S PROVE FALSE
      OBVIOUS
    <3>1. x \in Int /\ InSpan(x, b, m.len)
      BY <1>1, PieceCells
    <3>2. InSpan(x, read, c)
      BY Zenon
    <3>3. m.len \in Nat \ {0} /\ m.len \in Nat
      BY <1>1, Positive, Zenon
    <3> QED BY <1>1, <2>2, <3>1, <3>2, <3>3, ReaderApart
  <2> QED BY <1>1, <2>1, <2>3, BodyStays
<1> QED BY <1>2, <1>3

-----------------------------------------------------------------------------
(* The producer's steps.                                                   *)

LEMMA SameCells ==
  ASSUME NEW idx, NEW off, Layout(idx, off), read' = read, cells' = cells, queue' = queue
  PROVE  Chain(idx, off)' /\ Placed(idx, off)' /\ Holding(idx, off)'
<1>1. Chain(idx, off)'
  BY Zenon DEF Layout, Chain, Last
<1>2. Placed(idx, off)'
  BY Zenon DEF Layout, Placed, Last, D, Distance
<1>3. Holding(idx, off)'
  BY Zenon DEF Layout, Holding, HeaderHolds, BodyHolds
<1> QED BY <1>1, <1>2, <1>3

LEMMA SameFront ==
  ASSUME NEW idx, NEW off, Layout(idx, off), read' = read, queue' = queue, cpc' = cpc, clen' = clen
  PROVE  Front(idx, off)'
BY Zenon DEF Layout, Front

LEMMA SameBack ==
  ASSUME NEW idx, NEW off, Layout(idx, off), read' = read, write' = write, cells' = cells,
         queue' = queue, ppc' = ppc, pmsg' = pmsg
  PROVE  Back(idx, off)'
BY Zenon DEF Layout, Back, HalfIn, Unread, Distance, Last, HeaderHolds, BodyHolds

(* Before the header is stored and after append has returned there is      *)
(* nothing half done.                                                      *)
LEMMA RestingBack ==
  ASSUME NEW idx, NEW off, Layout(idx, off), ~HalfIn, read' = read, write' = write, queue' = queue,
         ppc' \in {"idle", "room", "header"}
  PROVE  Back(idx, off)'
<1>1. ~HalfIn' /\ ppc' # "pubheader" /\ ppc' # "pubbody"
  BY DEF HalfIn
<1>2. write' = idx[Last'] /\ Unread' = off[Last']
  BY Zenon DEF Layout, Back, Unread, Distance, Last
<1> QED BY <1>1, <1>2, Zenon DEF Back

LEMMA AppendBeginLayout ==
  ASSUME LayoutInv, NEW m \in Msg, AppendBegin(m)
  PROVE  LayoutInv'
<1>1. PICK idx, off : Layout(idx, off)
  BY DEF LayoutInv
<1>2. /\ read' = read /\ write' = write /\ cells' = cells /\ queue' = queue
      /\ cpc' = cpc /\ clen' = clen /\ ppc' = "room" /\ ~HalfIn
  BY DEF AppendBegin, shared, cons, hist, HalfIn
<1> QED BY <1>1, <1>2, SameCells, SameFront, RestingBack DEF LayoutInv, Layout

LEMMA AppendCheckLayout ==
  ASSUME LayoutInv, AppendCheck
  PROVE  LayoutInv'
<1>1. PICK idx, off : Layout(idx, off)
  BY DEF LayoutInv
<1>2. /\ read' = read /\ write' = write /\ cells' = cells /\ queue' = queue
      /\ cpc' = cpc /\ clen' = clen /\ ppc' \in {"idle", "room", "header"} /\ ~HalfIn
  BY DEF AppendCheck, AppendReturns, shared, cons, hist, HalfIn
<1> QED BY <1>1, <1>2, SameCells, SameFront, RestingBack DEF LayoutInv, Layout

(* What the message being appended takes.                                  *)
LEMMA RoomFor ==
  ASSUME UntornInv, ppc \in {"header", "pubheader", "body", "pubbody"}
  PROVE  /\ pmsg \in Msg /\ pmsg.len \in 1 .. N /\ pmsg.len \in 0 .. Q /\ pmsg.len \in Nat
         /\ ppc \in {"header", "pubheader"} => Unread + H + pmsg.len =< N /\ Unread + H =< N
         /\ ppc \in {"body", "pubbody"} => Unread + pmsg.len =< N
<1>1. pmsg \in Msg /\ pmsg.len \in 1 .. N /\ pmsg.len \in 0 .. Q /\ pmsg.len \in Nat
  <2>1. pmsg \in Msg
    BY DEF UntornInv, TypeOK
  <2> QED BY <2>1, MessageLength
<1>2. Unread + Reserved =< N
  BY DEF UntornInv, RoomInv
<1>3. Unread \in Nat
  BY DistanceIsNat DEF Unread, UntornInv, TypeOK, Indexes
<1>4. ppc \in {"header", "pubheader"} => Unread + H + pmsg.len =< N /\ Unread + H =< N
  BY <1>1, <1>2, <1>3 DEF Reserved
<1>5. ppc \in {"body", "pubbody"} => Unread + pmsg.len =< N
  BY <1>1, <1>2, <1>3 DEF Reserved
<1> QED BY <1>1, <1>4, <1>5

LEMMA AppendHeaderLayout ==
  ASSUME UntornInv, LayoutInv, AppendHeader
  PROVE  LayoutInv'
<1>1. PICK idx, off : Layout(idx, off)
  BY DEF LayoutInv
<1>2. /\ read' = read /\ write' = write /\ cells' = WithHeader(write, pmsg) /\ queue' = queue
      /\ cpc' = cpc /\ clen' = clen /\ ppc = "header" /\ ppc' = "pubheader" /\ pmsg' = pmsg
  BY DEF AppendHeader, cons, hist
<1>3. write \in 0 .. Q /\ pmsg \in Msg /\ Unread + H =< N /\ H \in Nat
  BY <1>2, RoomFor DEF UntornInv, TypeOK, Indexes
<1>4. /\ HeaderHolds(write, pmsg)'
      /\ \A c \in (0 .. Q) \ HeaderCells(write) : cells'[c] = cells[c]
  <2>1. PICK w, m : w = write /\ m = pmsg
    OBVIOUS
  <2>2. HeaderHolds(w, m)' /\ \A c \in (0 .. Q) \ HeaderCells(w) : cells'[c] = cells[c]
    BY <1>2, <1>3, <2>1, HeaderStored
  <2> QED BY <1>2, <2>1, <2>2, Zenon DEF HeaderHolds
<1>5. \A x \in HeaderCells(write) : x \in Int /\ InSpan(x, write, H)
  BY <1>3, PieceCells
<1>6. Holding(idx, off)'
  BY <1>1, <1>2, <1>3, <1>4, <1>5, WriterKeeps
<1>7. Chain(idx, off)' /\ Placed(idx, off)'
  BY <1>1, <1>2, Zenon DEF Layout, Chain, Placed, Last, D, Distance
<1>8. ~HalfIn' /\ ~HalfIn /\ ppc' # "pubbody"
  BY <1>2 DEF HalfIn
<1>9. Back(idx, off)'
  <2>1. write' = idx[Last'] /\ Unread' = off[Last']
    BY <1>1, <1>2, <1>8, Zenon DEF Layout, Back, Unread, Distance, Last
  <2> QED BY <1>4, <1>8, <2>1, Zenon DEF Back
<1> QED BY <1>1, <1>2, <1>6, <1>7, <1>9, SameFront DEF LayoutInv, Layout

LEMMA AppendPublishHeaderLayout ==
  ASSUME UntornInv, LayoutInv, AppendPublishHeader
  PROVE  LayoutInv'
<1>1. PICK idx, off : Layout(idx, off)
  BY DEF LayoutInv
<1>2. /\ read' = read /\ write' = AfterHeader(write) /\ cells' = cells /\ queue' = queue
      /\ cpc' = cpc /\ clen' = clen /\ ppc = "pubheader" /\ ppc' = "body" /\ pmsg' = pmsg
  BY DEF AppendPublishHeader, cons, hist
<1>3. Unread' = Unread + H
  <2>1. read \in 0 .. Q /\ write \in 0 .. Q /\ Unread + H =< N /\ Unread \in Nat
    BY <1>1, <1>2, RoomFor, LayoutBounds
  <2>2. Distance(read, AfterHeader(write)) = Distance(read, write) + H
    BY <2>1, IndexMovesByLength DEF Unread
  <2> QED BY <1>2, <2>2 DEF Unread
<1>4. ~HalfIn /\ HalfIn' /\ ppc' # "pubheader" /\ ppc' # "pubbody"
  BY <1>2 DEF HalfIn
<1>5. Last' = Last
  BY <1>2 DEF Last
<1>6. write = idx[Last] /\ Unread = off[Last] /\ HeaderHolds(write, pmsg)
  BY <1>1, <1>2, <1>4 DEF Layout, Back
<1>7. HeaderHolds(idx[Last], pmsg)'
  BY <1>2, <1>5, <1>6, Zenon DEF HeaderHolds
<1>8. write' = AfterHeader(idx[Last']) /\ Unread' = off[Last'] + H
  BY <1>2, <1>3, <1>5, <1>6, Zenon
<1>9. Back(idx, off)'
  BY <1>4, <1>7, <1>8, Zenon DEF Back
<1> QED BY <1>1, <1>2, <1>9, SameCells, SameFront DEF LayoutInv, Layout

LEMMA AppendBodyLayout ==
  ASSUME UntornInv, LayoutInv, AppendBody
  PROVE  LayoutInv'
<1>1. PICK idx, off : Layout(idx, off)
  BY DEF LayoutInv
<1>2. /\ read' = read /\ write' = write /\ cells' = WithBody(write, pmsg) /\ queue' = queue
      /\ cpc' = cpc /\ clen' = clen /\ ppc = "body" /\ ppc' = "pubbody" /\ pmsg' = pmsg
  BY DEF AppendBody, cons, hist
<1>3. /\ write \in 0 .. Q /\ read \in 0 .. Q /\ pmsg \in Msg
      /\ pmsg.len \in 0 .. Q /\ pmsg.len \in Nat /\ Unread + pmsg.len =< N
  BY <1>2, RoomFor DEF UntornInv, TypeOK, Indexes
<1>4. /\ BodyHolds(write, pmsg.len, pmsg)'
      /\ \A c \in (0 .. Q) \ BodyCells(write, pmsg.len) : cells'[c] = cells[c]
  <2>1. PICK w, m : w = write /\ m = pmsg
    OBVIOUS
  <2>2. BodyHolds(w, m.len, m)' /\ \A c \in (0 .. Q) \ BodyCells(w, m.len) : cells'[c] = cells[c]
    BY <1>2, <1>3, <2>1, BodyStored
  <2> QED BY <1>2, <2>1, <2>2, Zenon DEF BodyHolds
<1>5. \A x \in BodyCells(write, pmsg.len) : x \in Int /\ InSpan(x, write, pmsg.len)
  BY <1>3, PieceCells
<1>6. Holding(idx, off)'
  BY <1>1, <1>2, <1>3, <1>4, <1>5, WriterKeeps
<1>7. Chain(idx, off)' /\ Placed(idx, off)'
  BY <1>1, <1>2, Zenon DEF Layout, Chain, Placed, Last, D, Distance
<1>8. HalfIn' /\ HalfIn /\ ppc' # "pubheader"
  BY <1>2 DEF HalfIn
<1>9. /\ write = AfterHeader(idx[Last]) /\ Unread = off[Last] + H /\ HeaderHolds(idx[Last], pmsg)
      /\ idx[Last] \in 0 .. Q /\ D(idx[Last]) = off[Last] /\ off[Last] \in Nat
  BY <1>1, <1>8, LayoutBounds DEF Layout, Back
<1>10. HeaderHolds(idx[Last], pmsg)'
  <2>1. PICK j, m : j = idx[Last] /\ m = pmsg
    OBVIOUS
  <2>2. j \in 0 .. Q /\ D(j) + H =< Unread /\ HeaderHolds(j, m)
    BY <1>9, <2>1
  <2>3. HeaderCells(j) \cap BodyCells(write, pmsg.len) = {}
    <3> SUFFICES ASSUME NEW x \in HeaderCells(j), x \in BodyCells(write, pmsg.len) PROVE FALSE
      OBVIOUS
    <3>1. x \in Int /\ InSpan(x, j, H) /\ InSpan(x, write, pmsg.len) /\ H \in Nat \ {0}
      BY <1>5, <2>2, PieceCells
    <3> QED BY <1>3, <2>2, <3>1, WriterApart
  <2>4. HeaderHolds(j, m)'
    BY <1>4, <2>2, <2>3, HeaderStays
  <2>5. j = idx[Last'] /\ m = pmsg'
    BY <1>2, <2>1 DEF Last
  <2> QED BY <2>4, <2>5, Zenon DEF HeaderHolds
<1>11. write' = AfterHeader(idx[Last']) /\ Unread' = off[Last'] + H
  BY <1>2, <1>9, Zenon DEF Last, Unread, Distance
<1>12. Back(idx, off)'
  BY <1>4, <1>8, <1>10, <1>11, Zenon DEF Back
<1> QED BY <1>1, <1>2, <1>6, <1>7, <1>12, SameFront DEF LayoutInv, Layout

(* The message joins the queue, and the next goes where it ends.           *)
LEMMA AppendPublishBodyLayout ==
  ASSUME UntornInv, LayoutInv, AppendPublishBody
  PROVE  LayoutInv'
<1>1. PICK idx, off : Layout(idx, off)
  BY DEF LayoutInv
<1>2. /\ read' = read /\ write' = AfterBody(write, pmsg.len) /\ cells' = cells
      /\ queue' = Append(queue, pmsg)
      /\ cpc' = cpc /\ clen' = clen /\ ppc = "pubbody" /\ ppc' = "idle"
  BY DEF AppendPublishBody, AppendReturns, cons, hist
<1>3. /\ write \in 0 .. Q /\ read \in 0 .. Q /\ pmsg \in Msg /\ pmsg.len \in 1 .. N
      /\ pmsg.len \in 0 .. Q /\ pmsg.len \in Nat /\ Unread + pmsg.len =< N
  BY <1>2, RoomFor DEF UntornInv, TypeOK, Indexes
<1>4. /\ write = AfterHeader(idx[Last]) /\ Unread = off[Last] + H /\ HeaderHolds(idx[Last], pmsg)
      /\ BodyHolds(write, pmsg.len, pmsg)
      /\ idx[Last] \in 0 .. Q /\ D(idx[Last]) = off[Last] /\ off[Last] \in Nat
      /\ Len(queue) \in Nat /\ Unread \in Nat /\ Unread =< N
  <2>1. HalfIn
    BY <1>2 DEF HalfIn
  <2> QED BY <1>1, <1>2, <2>1, LayoutBounds DEF Layout, Back
<1>5. write' \in 0 .. Q /\ D(write') = off[Last] + Span(pmsg) /\ Unread' = off[Last] + Span(pmsg)
  <2>1. write' \in 0 .. Q
    BY <1>2, <1>3, StepsStayOnRing
  <2>2. Distance(read, AfterBody(write, pmsg.len)) = Distance(read, write) + pmsg.len
    BY <1>3, <1>4, IndexMovesByLength DEF Unread
  <2>3. D(write') = Unread + pmsg.len /\ Unread' = Unread + pmsg.len
    BY <1>2, <2>2 DEF D, Unread
  <2> QED BY <1>3, <1>4, <2>1, <2>3, SMTT(30) DEF Span
<1> DEFINE n == Len(queue)
<1>6. PICK m, w, l, o : m = pmsg /\ w = write' /\ l = n + 1 /\ o = off[Last] + Span(pmsg)
  OBVIOUS
<1>7. /\ queue \in Seq(Msg) /\ n \in Nat /\ l \in Nat /\ l = Last /\ Last' = l + 1
      /\ Len(queue') = l /\ queue'[l] = m /\ \A i \in 1 .. n : queue'[i] = queue[i]
  <2>1. queue \in Seq(Msg)
    BY DEF UntornInv, TypeOK
  <2> QED BY <1>2, <1>3, <1>6, <2>1 DEF Last
<1>8. PICK idx2, off2 : /\ idx2 = [i \in 1 .. l + 1 |-> IF i = l + 1 THEN w ELSE idx[i]]
                        /\ off2 = [i \in 1 .. l + 1 |-> IF i = l + 1 THEN o ELSE off[i]]
  OBVIOUS
<1>9. /\ idx2[l + 1] = w /\ off2[l + 1] = o
      /\ \A i \in 1 .. l : idx2[i] = idx[i] /\ off2[i] = off[i]
  BY <1>7, <1>8
<1>10. /\ idx \in [1 .. l -> 0 .. Q] /\ off \in [1 .. l -> Int]
       /\ \A i \in 1 .. n :
            /\ idx[i + 1] = AfterBody(AfterHeader(idx[i]), queue[i].len)
            /\ off[i + 1] = off[i] + Span(queue[i])
            /\ \A j \in 1 .. l : i < j => off[i] + Span(queue[i]) =< off[j]
  BY <1>1, <1>7 DEF Layout, Chain
<1>11. o = off[l] + Span(m) /\ w = AfterBody(AfterHeader(idx[l]), m.len) /\ Span(m) \in Nat /\ o \in Int
  <2>1. o = off[l] + Span(m)
    BY <1>6, <1>7, Zenon
  <2>2. w = AfterBody(AfterHeader(idx[l]), m.len)
    BY <1>2, <1>4, <1>6, <1>7, Zenon
  <2>3. Span(m) \in Nat
    BY <1>3, <1>6 DEF Span
  <2>4. off[l] \in Nat
    BY <1>4, <1>7, Zenon
  <2> QED BY <2>1, <2>2, <2>3, <2>4
<1> HIDE DEF n
<1>12. Chain(idx2, off2)'
  <2>1. idx2 \in [1 .. l + 1 -> 0 .. Q] /\ off2 \in [1 .. l + 1 -> Int]
    <3>1. w \in 0 .. Q /\ o \in Int
      BY <1>5, <1>6, <1>11
    <3>2. \A i \in 1 .. l + 1 : i # l + 1 => i \in 1 .. l
      BY <1>7
    <3>3. idx2 \in [1 .. l + 1 -> 0 .. Q]
      BY <1>8, <1>10, <3>1, <3>2, Zenon
    <3>4. off2 \in [1 .. l + 1 -> Int]
      BY <1>8, <1>10, <3>1, <3>2, Zenon
    <3> QED BY <3>3, <3>4
  <2>2. ASSUME NEW i \in 1 .. l
        PROVE  /\ idx2[i + 1] = AfterBody(AfterHeader(idx2[i]), queue'[i].len)
               /\ off2[i + 1] = off2[i] + Span(queue'[i])
               /\ \A j \in 1 .. l + 1 : i < j => off2[i] + Span(queue'[i]) =< off2[j]
    <3>1. CASE i = l
      <4>1. idx2[i + 1] = w /\ off2[i + 1] = o /\ idx2[i] = idx[l] /\ off2[i] = off[l] /\ queue'[i] = m
        BY <1>7, <1>9, <3>1
      <4>2. \A j \in 1 .. l + 1 : i < j => j = l + 1
        BY <1>7, <3>1
      <4>3. off2[i] + Span(queue'[i]) = o /\ o =< o
        BY <1>11, <4>1
      <4> QED BY <1>9, <1>11, <4>1, <4>2, <4>3, Zenon
    <3>2. CASE i # l
      <4>1. i \in 1 .. n /\ i + 1 \in 1 .. l /\ i < l /\ l \in 1 .. l
        BY <1>6, <1>7, <3>2
      <4>2. /\ idx2[i + 1] = idx[i + 1] /\ idx2[i] = idx[i] /\ off2[i + 1] = off[i + 1]
            /\ off2[i] = off[i] /\ queue'[i] = queue[i]
        BY <1>7, <1>9, <4>1
      <4>3. ASSUME NEW j \in 1 .. l + 1, i < j PROVE off[i] + Span(queue[i]) =< off2[j]
        <5>1. CASE j = l + 1
          <6>1. off[i] + Span(queue[i]) =< off[l]
            BY <1>10, <4>1
          <6>2. off2[j] = off[l] + Span(m) /\ Span(m) \in Nat /\ off[l] \in Int
            BY <1>9, <1>10, <1>11, <4>1, <5>1
          <6>3. off[i] + Span(queue[i]) \in Int
            <7>1. off[i] + Span(queue[i]) = off[i + 1] /\ off[i + 1] \in Int
              BY <1>10, <4>1
            <7> QED BY <7>1, Zenon
          <6> QED BY <6>1, <6>2, <6>3
        <5>2. CASE j # l + 1
          <6>1. j \in 1 .. l
            BY <1>7, <5>2
          <6> QED BY <1>9, <1>10, <4>1, <4>3, <6>1, Zenon
        <5> QED BY <5>1, <5>2
      <4> QED BY <1>10, <4>1, <4>2, <4>3, Zenon
    <3> QED BY <3>1, <3>2
  <2>3. (1 .. Last)' = 1 .. l + 1 /\ (1 .. Len(queue))' = 1 .. l
    BY <1>7
  <2> QED BY <2>1, <2>2, <2>3, Zenon DEF Chain, Span
<1>13. Placed(idx2, off2)'
  <2>1. ASSUME NEW i \in 1 .. l PROVE D(AfterHeader(idx2[i])) = off2[i] + H
    <3>1. CASE i = l
      <4>1. D(write) = Unread
        BY DEF D, Unread
      <4> QED BY <1>4, <1>7, <1>9, <3>1, <4>1
    <3>2. CASE i # l
      <4>1. i \in 1 .. Len(queue)
        BY <1>6, <1>7, <3>2 DEF n
      <4>2. D(AfterHeader(idx[i])) = off[i] + H
        BY <1>1, <4>1, Zenon DEF Layout, Placed
      <4> QED BY <1>9, <4>2
    <3> QED BY <3>1, <3>2
  <2>2. ASSUME NEW i \in 1 .. l + 1, off2[i] >= 0 PROVE D(idx2[i]) = off2[i]
    <3>1. CASE i = l + 1
      BY <1>5, <1>6, <1>9, <3>1
    <3>2. CASE i # l + 1
      <4>1. i \in 1 .. l
        BY <1>7, <3>2
      <4>2. i \in 1 .. Last /\ off[i] >= 0 /\ idx2[i] = idx[i] /\ off2[i] = off[i]
        BY <1>7, <1>9, <2>2, <4>1
      <4> QED BY <1>1, <4>2 DEF Layout, Placed
    <3> QED BY <3>1, <3>2
  <2>3. (1 .. Last)' = 1 .. l + 1 /\ (1 .. Len(queue))' = 1 .. l
    BY <1>7
  <2>4. \A i : D(i)' = D(i)
    BY <1>2 DEF D
  <2> QED BY <2>1, <2>2, <2>3, <2>4, Zenon DEF Placed
<1>14. Holding(idx2, off2)'
  <2>1. ASSUME NEW i \in 1 .. l
        PROVE  /\ off2[i] >= 0 => HeaderHolds(idx2[i], queue'[i])
               /\ BodyHolds(AfterHeader(idx2[i]), queue'[i].len, queue'[i])
    <3>1. CASE i = l
      <4>1. queue'[i] = pmsg /\ idx2[i] = idx[Last]
        BY <1>6, <1>7, <1>9, <3>1
      <4> QED BY <1>4, <4>1
    <3>2. CASE i # l
      <4>1. i \in 1 .. Len(queue)
        BY <1>6, <1>7, <3>2 DEF n
      <4>2. queue'[i] = queue[i] /\ idx2[i] = idx[i] /\ off2[i] = off[i]
        BY <1>7, <1>9, <4>1 DEF n
      <4> QED BY <1>1, <4>1, <4>2, Zenon DEF Layout, Holding
    <3> QED BY <3>1, <3>2
  <2>2. (1 .. Len(queue))' = 1 .. l
    BY <1>7
  <2> QED BY <1>2, <2>1, <2>2, Zenon DEF Holding, HeaderHolds, BodyHolds
<1>15. Front(idx2, off2)'
  <2>1. 1 \in 1 .. l
    BY <1>6, <1>7
  <2>2. idx2[1] = idx[1] /\ off2[1] = off[1]
    BY <1>9, <2>1
  <2>3. queue # <<>> => queue' # <<>> /\ queue'[1] = queue[1]
    <3>1. queue # <<>> => 1 \in 1 .. n
      BY <1>7 DEF n
    <3>2. queue' # <<>>
      BY <1>6, <1>7
    <3> QED BY <1>7, <3>1, <3>2
  <2> QED BY <1>1, <1>2, <2>2, <2>3, Zenon DEF Layout, Front
<1>16. Back(idx2, off2)'
  <2>1. ~HalfIn' /\ ppc' # "pubheader" /\ ppc' # "pubbody"
    BY <1>2 DEF HalfIn
  <2>2. write' = idx2[Last'] /\ Unread' = off2[Last']
    BY <1>5, <1>6, <1>7, <1>9
  <2> QED BY <2>1, <2>2, Zenon DEF Back
<1> QED BY <1>12, <1>13, <1>14, <1>15, <1>16, Zenon DEF LayoutInv, Layout

-----------------------------------------------------------------------------
(* The consumer's steps.                                                   *)

(* What the producer has stored and not published yet stays when c bytes   *)
(* in front of it are given back.                                          *)
LEMMA ReaderKeepsBack ==
  ASSUME UntornInv, NEW idx, NEW off, Layout(idx, off),
         write' = write, queue' = queue, ppc' = ppc, pmsg' = pmsg,
         NEW S, NEW c \in Nat, \A x \in S : x \in Int /\ InSpan(x, read, c),
         \A x \in (0 .. Q) \ S : cells'[x] = cells[x],
         c =< off[Last], Unread' = Unread - c,
         NEW off2, off2[Last] = off[Last] - c
  PROVE  Back(idx, off2)'
<1>1. /\ read \in 0 .. Q /\ write \in 0 .. Q /\ Unread \in Nat /\ off[Last] \in Nat
      /\ idx[Last] \in 0 .. Q /\ D(idx[Last]) = off[Last] /\ off[Last] =< Unread
  BY LayoutBounds
<1>2. Last' = Last /\ HalfIn' = HalfIn /\ D(write) = Unread
  BY DEF Last, HalfIn, D, Unread
<1>3. ASSUME NEW i \in 0 .. Q, NEW m, HeaderHolds(i, m), c =< D(i), D(i) + H =< N
      PROVE  HeaderHolds(i, m)'
  <2>1. HeaderCells(i) \cap S = {}
    <3> SUFFICES ASSUME NEW x \in HeaderCells(i), x \in S PROVE FALSE
      OBVIOUS
    <3>1. x \in Int /\ InSpan(x, i, H) /\ H \in Nat
      BY PieceCells
    <3> QED BY <1>1, <1>3, <3>1, ReaderApart
  <2> QED BY <1>3, <2>1, HeaderStays
<1>4. ASSUME HalfIn
      PROVE  write' = AfterHeader(idx[Last]) /\ Unread' = off2[Last] + H /\ HeaderHolds(idx[Last], pmsg)'
  <2>1. write = AfterHeader(idx[Last]) /\ Unread = off[Last] + H /\ HeaderHolds(idx[Last], pmsg)
    BY <1>4 DEF Layout, Back
  <2>2. Unread =< N
    BY LayoutBounds
  <2>3. PICK j, m : j = idx[Last] /\ m = pmsg
    OBVIOUS
  <2>4. HeaderHolds(j, m)'
    BY <1>1, <1>3, <2>1, <2>2, <2>3
  <2>5. j = idx[Last'] /\ m = pmsg'
    BY <1>2, <2>3
  <2>6. HeaderHolds(idx[Last], pmsg)'
    BY <2>4, <2>5, Zenon DEF HeaderHolds
  <2>7. Unread' = off2[Last] + H
    BY <1>1, <2>1
  <2> QED BY <2>1, <2>6, <2>7
<1>5. ASSUME ~HalfIn PROVE write' = idx[Last] /\ Unread' = off2[Last]
  BY <1>1, <1>5 DEF Layout, Back
<1>6. ASSUME ppc = "pubheader" PROVE HeaderHolds(write, pmsg)'
  <2>1. HeaderHolds(write, pmsg) /\ Unread + H =< N
    BY <1>6, RoomFor DEF Layout, Back
  <2>2. PICK j, m : j = write /\ m = pmsg
    OBVIOUS
  <2>3. HeaderHolds(j, m)'
    BY <1>1, <1>2, <1>3, <2>1, <2>2
  <2>4. j = write' /\ m = pmsg'
    BY <2>2
  <2> QED BY <2>3, <2>4, Zenon DEF HeaderHolds
<1>7. ASSUME ppc = "pubbody" PROVE BodyHolds(write, pmsg.len, pmsg)'
  <2>1. PICK j, m : j = write /\ m = pmsg
    OBVIOUS
  <2>2. BodyHolds(j, m.len, m) /\ m.len \in 0 .. Q /\ m.len \in Nat /\ Unread + m.len =< N
    BY <1>7, <2>1, RoomFor DEF Layout, Back
  <2>3. BodyCells(j, m.len) \cap S = {}
    <3> SUFFICES ASSUME NEW x \in BodyCells(j, m.len), x \in S PROVE FALSE
      OBVIOUS
    <3>1. x \in Int /\ InSpan(x, j, m.len)
      BY <1>1, <2>1, <2>2, PieceCells
    <3> QED BY <1>1, <1>2, <2>1, <2>2, <3>1, ReaderApart
  <2>4. BodyHolds(j, m.len, m)'
    BY <1>1, <2>1, <2>2, <2>3, BodyStays
  <2>5. j = write' /\ m = pmsg'
    BY <2>1
  <2> QED BY <2>4, <2>5, Zenon DEF BodyHolds
<1> QED BY <1>2, <1>4, <1>5, <1>6, <1>7, Zenon DEF Back

(* When read moves on by c bytes, everything behind them is c nearer.      *)
LEMMA ReaderMoves ==
  ASSUME UntornInv, NEW idx, NEW off, Layout(idx, off),
         write' = write, queue' = queue, ppc' = ppc, pmsg' = pmsg,
         NEW S, NEW c \in Nat, \A x \in S : x \in Int /\ InSpan(x, read, c),
         \A x \in (0 .. Q) \ S : cells'[x] = cells[x],
         c =< off[Last], Unread' = Unread - c,
         \A i \in 1 .. Len(queue) :
           c =< off[i] + H /\ Distance(read', AfterHeader(idx[i])) = off[i] + H - c,
         \A i \in 1 .. Last : off[i] - c >= 0 => Distance(read', idx[i]) = off[i] - c,
         NEW off2, off2 = [i \in 1 .. Last |-> off[i] - c]
  PROVE  Chain(idx, off2)' /\ Placed(idx, off2)' /\ Holding(idx, off2)' /\ Back(idx, off2)'
<1>1. /\ Len(queue) \in Nat /\ Last \in 1 .. Last
      /\ \A i \in 1 .. Len(queue) : i \in 1 .. Last /\ i + 1 \in 1 .. Last /\ queue[i].len \in 1 .. N
  BY LayoutBounds
<1>2. /\ idx \in [1 .. Last -> 0 .. Q] /\ off \in [1 .. Last -> Int]
      /\ \A i \in 1 .. Len(queue) :
           /\ idx[i + 1] = AfterBody(AfterHeader(idx[i]), queue[i].len)
           /\ off[i + 1] = off[i] + Span(queue[i])
           /\ \A j \in 1 .. Last : i < j => off[i] + Span(queue[i]) =< off[j]
  BY DEF Layout, Chain
<1>3. \A i \in 1 .. Last : off2[i] = off[i] - c /\ off[i] \in Int /\ off2[i] \in Int
  BY <1>2
<1>4. Last' = Last /\ (1 .. Last)' = 1 .. Last /\ (1 .. Len(queue))' = 1 .. Len(queue)
  BY DEF Last
<1>5. Chain(idx, off2)'
  <2>1. off2 \in [1 .. Last -> Int]
    BY <1>2
  <2>2. ASSUME NEW i \in 1 .. Len(queue)
        PROVE  /\ off2[i + 1] = off2[i] + Span(queue[i])
               /\ \A j \in 1 .. Last : i < j => off2[i] + Span(queue[i]) =< off2[j]
    <3>1. PICK s : s = Span(queue[i])
      OBVIOUS
    <3>2. s \in Int
      BY <1>1, <3>1 DEF Span
    <3>3. /\ off2[i + 1] = off[i + 1] - c /\ off2[i] = off[i] - c /\ off[i] \in Int /\ off[i + 1] \in Int
          /\ off[i + 1] = off[i] + s
      BY <1>1, <1>2, <1>3, <3>1, Zenon
    <3>4. off2[i + 1] = off2[i] + s
      BY <3>2, <3>3
    <3>5. ASSUME NEW j \in 1 .. Last, i < j PROVE off2[i] + s =< off2[j]
      <4>1. off2[j] = off[j] - c /\ off[j] \in Int
        BY <1>3
      <4>2. off[i] + s =< off[j]
        BY <1>2, <3>1, <3>5, Zenon
      <4>3. \A x, y, z, d \in Int : x + z =< y => x - d + z =< y - d
        OBVIOUS
      <4>4. c \in Int
        OBVIOUS
      <4> QED BY <3>2, <3>3, <4>1, <4>2, <4>3, <4>4, Zenon
    <3> QED BY <3>1, <3>4, <3>5, Zenon
  <2> QED BY <1>2, <1>4, <2>1, <2>2, Zenon DEF Chain
<1>6. Placed(idx, off2)'
  <2>1. \A i : D(i)' = Distance(read', i)
    BY Zenon DEF D, Distance
  <2>2. ASSUME NEW i \in 1 .. Len(queue) PROVE Distance(read', AfterHeader(idx[i])) = off2[i] + H
    <3>1. Distance(read', AfterHeader(idx[i])) = off[i] + H - c
      OBVIOUS
    <3>2. off2[i] = off[i] - c /\ off[i] \in Int
      BY <1>1, <1>3
    <3>3. off[i] + H - c = off2[i] + H
      BY <3>2
    <3> QED BY <3>1, <3>3, Zenon
  <2>3. ASSUME NEW i \in 1 .. Last, off2[i] >= 0 PROVE Distance(read', idx[i]) = off2[i]
    BY <1>3, <2>3
  <2> QED BY <1>4, <2>1, <2>2, <2>3, Zenon DEF Placed
<1>7. Holding(idx, off2)'
  <2>1. \A i \in 1 .. Len(queue) : off2[i] = off[i] - c /\ c =< off[i] + H
    BY <1>1, <1>3
  <2>2. PICK o : o = off2
    OBVIOUS
  <2>3. \A i \in 1 .. Len(queue) : o[i] = off[i] - c /\ c =< off[i] + H
    BY <2>1, <2>2, Zenon
  <2>4. Holding(idx, o)'
    BY <2>3, ReaderKeeps, Zenon
  <2> QED BY <2>2, <2>4, Zenon
<1>8. Back(idx, off2)'
  <2>1. off2[Last] = off[Last] - c
    BY <1>1, <1>3
  <2> QED BY <2>1, ReaderKeepsBack
<1> QED BY <1>5, <1>6, <1>7, <1>8

(* What pop passes over while it compares and reads the length.            *)
LEMMA PopWaitsLayout ==
  ASSUME LayoutInv, UNCHANGED <<read, write, cells, queue, ppc, pmsg>>,
         cpc \notin {"header", "body", "release"}, cpc' \notin {"header", "body", "release"}
  PROVE  LayoutInv'
<1>1. PICK idx, off : Layout(idx, off)
  BY DEF LayoutInv
<1>2. idx[1] = read /\ off[1] = 0
  BY <1>1 DEF Layout, Front
<1>3. Front(idx, off)'
  BY <1>2 DEF Front
<1> QED BY <1>1, <1>3, SameCells, SameBack DEF LayoutInv, Layout

LEMMA PopLengthLayout ==
  ASSUME UntornInv, LayoutInv, PopLength
  PROVE  LayoutInv'
<1>1. PICK idx, off : Layout(idx, off)
  BY DEF LayoutInv
<1>2. /\ UNCHANGED <<read, write, cells, queue, ppc, pmsg>> /\ cpc = "length"
  BY DEF PopLength, shared, prod, hist
<1>3. idx[1] = read /\ off[1] = 0
  BY <1>1, <1>2 DEF Layout, Front
<1>4. PICK n \in LengthsAt(read) :
        IF H + 1 > cused \/ H + n > cused \/ n > ccap
        THEN PopReturns
        ELSE cpc' = "header" /\ clen' = n /\ ccap' = 0 /\ cused' = 0
                             /\ UNCHANGED cwrapped
  BY DEF PopLength
<1>5. CASE H + 1 > cused \/ H + n > cused \/ n > ccap
  BY <1>2, <1>4, <1>5, PopWaitsLayout DEF PopReturns
<1>6. CASE ~(H + 1 > cused \/ H + n > cused \/ n > ccap)
  <2>1. cpc' = "header" /\ clen' = n
    BY <1>4, <1>6
  <2>2. H + 1 =< Unread
    <3>1. cused =< Unread /\ cused \in Nat
      BY <1>2 DEF UntornInv, RoomInv, TypeOK
    <3>2. Unread \in Nat
      BY <1>1, LayoutBounds
    <3> QED BY <1>6, <3>1, <3>2
  <2>3. queue # <<>>
    <3> SUFFICES ASSUME queue = <<>> PROVE FALSE
      OBVIOUS
    <3>1. Last = 1
      BY DEF Last
    <3>2. Unread = off[1] \/ Unread = off[1] + H
      BY <1>1, <3>1 DEF Layout, Back
    <3> QED BY <1>3, <2>2, <3>2
  <2>4. 1 \in 1 .. Len(queue) /\ queue[1] \in Msg
    <3>1. queue \in Seq(Msg)
      BY DEF UntornInv, TypeOK
    <3> QED BY <2>3, <3>1
  <2>5. HeaderHolds(read, queue[1])
    BY <1>1, <1>3, <2>4 DEF Layout, Holding
  <2>6. n = queue[1].len
    BY <1>4, <2>4, <2>5, ReadBack
  <2>7. Front(idx, off)'
    BY <1>2, <1>3, <2>1, <2>3, <2>6 DEF Front
  <2> QED BY <1>1, <1>2, <2>7, SameCells, SameBack DEF LayoutInv, Layout
<1> QED BY <1>5, <1>6

(* The header is given back: the first message starts H bytes behind read. *)
LEMMA PopHeaderLayout ==
  ASSUME UntornInv, LayoutInv, PopHeader
  PROVE  LayoutInv'
<1>1. PICK idx, off : Layout(idx, off)
  BY DEF LayoutInv
<1>2. /\ cpc = "header" /\ cpc' = "body" /\ clen' = clen /\ read' = AfterHeader(read)
      /\ cells' = Forget(HeaderCells(read))
      /\ write' = write /\ queue' = queue /\ ppc' = ppc /\ pmsg' = pmsg
  BY DEF PopHeader, prod, hist
<1>3. idx[1] = read /\ off[1] = 0 /\ queue # <<>> /\ clen = queue[1].len
  BY <1>1, <1>2 DEF Layout, Front
<1>4. /\ read \in 0 .. Q /\ write \in 0 .. Q /\ Unread \in Nat /\ Unread =< N /\ H + 1 =< Unread
      /\ Len(queue) \in Nat /\ Last \in 1 .. Last /\ off[Last] \in Nat /\ off[Last] =< Unread
      /\ idx[Last] \in 0 .. Q /\ D(idx[Last]) = off[Last]
  BY <1>1, <1>2, LayoutBounds DEF UntornInv, RoomInv
<1>5. \A i \in 0 .. Q : H + 1 =< D(i) /\ D(i) =< N => Distance(read', i) = D(i) - H
  BY <1>2, <1>4, IndexMovesByLength DEF D
<1>6. Unread' = Unread - H
  <2>1. H + 1 =< Distance(read, write) /\ Distance(read, write) =< N
    BY <1>4 DEF Unread
  <2> QED BY <1>2, <1>4, <2>1, IndexMovesByLength DEF Unread
<1>7. ASSUME NEW i \in 1 .. Last, i # 1 PROVE H + 1 =< off[i] /\ off[i] \in Int /\ off[i] =< N
  <2>1. 1 \in 1 .. Len(queue) /\ 1 < i /\ Last = Len(queue) + 1
    BY <1>4, <1>7 DEF Last
  <2>2. off[1] + Span(queue[1]) =< off[i] /\ off[i] \in Int
    BY <1>1, <2>1 DEF Layout, Chain
  <2>3. queue[1].len \in 1 .. N
    BY <1>1, <2>1, LayoutBounds
  <2>4. H + 1 =< off[i]
    BY <1>3, <2>2, <2>3 DEF Span
  <2>5. off[i] =< N
    <3>1. CASE i = Last
      BY <1>4, <2>2, <3>1
    <3>2. CASE i # Last
      <4>1. i \in 1 .. Len(queue)
        BY <2>1, <3>2
      <4>2. off[i] + H + queue[i].len =< Unread /\ queue[i].len \in 1 .. N
        BY <1>1, <4>1, LayoutBounds
      <4>3. \A x, l, u \in Int : x + H + l =< u /\ 1 =< l /\ u =< N => x =< N
        OBVIOUS
      <4>4. queue[i].len \in Int /\ 1 =< queue[i].len /\ Unread \in Int
        BY <1>4, <4>2
      <4> QED BY <1>4, <2>2, <4>2, <4>3, <4>4, Zenon
    <3> QED BY <3>1, <3>2
  <2> QED BY <2>2, <2>4, <2>5
<1>8. ASSUME NEW i \in 1 .. Len(queue)
      PROVE  H =< off[i] + H /\ Distance(read', AfterHeader(idx[i])) = off[i] + H - H
  <2>1. /\ off[i] \in Int /\ AfterHeader(idx[i]) \in 0 .. Q /\ D(AfterHeader(idx[i])) = off[i] + H
        /\ off[i] + H + queue[i].len =< Unread /\ queue[i].len \in 1 .. N /\ i \in 1 .. Last
    BY <1>1, LayoutBounds
  <2>2. CASE i = 1
    <3>1. Distance(read', AfterHeader(idx[i])) = 0
      <4>1. read' = AfterHeader(idx[i]) /\ AfterHeader(idx[i]) \in 0 .. Q
        BY <1>2, <1>3, <2>1, <2>2
      <4> QED BY <4>1 DEF Distance
    <3> QED BY <1>3, <2>2, <3>1
  <2>3. CASE i # 1
    <3>1. H + 1 =< off[i]
      BY <1>7, <2>1, <2>3
    <3>2. PICK o, l, b : o = off[i] /\ l = queue[i].len /\ b = AfterHeader(idx[i])
      OBVIOUS
    <3>3. o \in Int /\ b \in 0 .. Q /\ D(b) = o + H /\ o + H + l =< Unread /\ l \in 1 .. N /\ H + 1 =< o
      BY <2>1, <3>1, <3>2
    <3>4. H + 1 =< D(b) /\ D(b) =< N
      BY <1>4, <3>3
    <3>5. Distance(read', b) = o + H - H /\ H =< o + H
      BY <1>5, <3>3, <3>4
    <3> QED BY <3>2, <3>5
  <2> QED BY <2>2, <2>3
<1>9. ASSUME NEW i \in 1 .. Last, off[i] - H >= 0
      PROVE  Distance(read', idx[i]) = off[i] - H
  <2>1. i # 1
    BY <1>3, <1>9
  <2>2. H + 1 =< off[i] /\ off[i] \in Int /\ off[i] =< N
    BY <1>7, <2>1
  <2>3. D(idx[i]) = off[i] /\ idx[i] \in 0 .. Q
    BY <1>1, <2>2 DEF Layout, Placed, Chain
  <2> QED BY <1>5, <2>2, <2>3
<1>10. Last # 1
  BY <1>3, <1>4 DEF Last, UntornInv, TypeOK
<1>11. H =< off[Last]
  BY <1>4, <1>7, <1>10
<1>12. /\ \A x \in HeaderCells(read) : x \in Int /\ InSpan(x, read, H)
       /\ \A x \in (0 .. Q) \ HeaderCells(read) : cells'[x] = cells[x]
  BY <1>2, <1>4, PieceCells DEF Forget
<1>13. PICK off2 : off2 = [i \in 1 .. Last |-> off[i] - H]
  OBVIOUS
<1>14. Chain(idx, off2)' /\ Placed(idx, off2)' /\ Holding(idx, off2)' /\ Back(idx, off2)'
  <2>1. H \in Nat
    OBVIOUS
  <2> QED BY <1>1, <1>2, <1>6, <1>8, <1>9, <1>11, <1>12, <1>13, <2>1, ReaderMoves
<1>15. Front(idx, off2)'
  <2>1. off2[1] = -H
    <3>1. 1 \in 1 .. Last
      BY <1>4 DEF Last
    <3> QED BY <1>3, <1>13, <3>1
  <2> QED BY <1>2, <1>3, <2>1 DEF Front
<1> QED BY <1>14, <1>15 DEF LayoutInv, Layout

(* The body is copied: what pop delivers is the head of the queue.         *)
LEMMA PopBodyDelivers ==
  ASSUME UntornInv, LayoutInv, PopBody
  PROVE  queue # <<>> /\ delivered' = Head(queue) /\ queue' = Tail(queue)
<1>1. PICK idx, off : Layout(idx, off)
  BY DEF LayoutInv
<1>2. read = AfterHeader(idx[1]) /\ queue # <<>> /\ clen = queue[1].len
  BY <1>1 DEF Layout, Front, PopBody
<1>3. 1 \in 1 .. Len(queue) /\ queue[1] \in Msg /\ queue[1] = Head(queue)
  <2>1. queue \in Seq(Msg)
    BY DEF UntornInv, TypeOK
  <2> QED BY <1>2, <2>1
<1>4. BodyHolds(read, queue[1].len, queue[1])
  BY <1>1, <1>2, <1>3 DEF Layout, Holding
<1>5. BodyAt(read, clen) = queue[1]
  BY <1>2, <1>3, <1>4, ReadBack
<1> QED BY <1>2, <1>3, <1>5 DEF PopBody

(* The message leaves the queue, and what is left of it is a body that is  *)
(* no longer needed.                                                       *)
LEMMA PopBodyLayout ==
  ASSUME UntornInv, LayoutInv, PopBody
  PROVE  LayoutInv'
<1>1. PICK idx, off : Layout(idx, off)
  BY DEF LayoutInv
<1>2. /\ cpc = "body" /\ cpc' = "release" /\ clen' = clen /\ read' = read /\ write' = write
      /\ cells' = cells /\ ppc' = ppc /\ pmsg' = pmsg
  BY DEF PopBody, shared, prod
<1>3. read = AfterHeader(idx[1]) /\ off[1] = -H /\ queue # <<>> /\ clen = queue[1].len
  BY <1>1, <1>2 DEF Layout, Front
<1>4. PICK n : n = Len(queue)
  OBVIOUS
<1>5. /\ n \in Nat \ {0} /\ 1 \in 1 .. n /\ n \in 1 .. n /\ Last = n + 1 /\ Last' = n
      /\ (1 .. Last)' = 1 .. n /\ (1 .. Len(queue))' = 1 .. n - 1
      /\ \A i \in 1 .. n - 1 : queue'[i] = queue[i + 1] /\ i \in 1 .. n /\ i + 1 \in 1 .. n
      /\ \A i \in 1 .. n : i \in 1 .. n + 1 /\ i + 1 \in 1 .. n + 1
  <2>1. queue \in Seq(Msg) /\ queue' = Tail(queue)
    BY PopBodyDelivers DEF UntornInv, TypeOK
  <2>2. Len(queue') = n - 1 /\ \A i \in 1 .. n - 1 : queue'[i] = queue[i + 1]
    BY <1>3, <1>4, <2>1
  <2>3. n \in Nat \ {0}
    BY <1>3, <1>4, <2>1
  <2>4. Last = n + 1 /\ Last' = n
    BY <1>4, <2>2, <2>3 DEF Last
  <2> QED BY <2>2, <2>3, <2>4
<1>6. /\ idx \in [1 .. n + 1 -> 0 .. Q] /\ off \in [1 .. n + 1 -> Int]
      /\ \A i \in 1 .. n :
           /\ idx[i + 1] = AfterBody(AfterHeader(idx[i]), queue[i].len)
           /\ off[i + 1] = off[i] + Span(queue[i])
           /\ \A j \in 1 .. n + 1 : i < j => off[i] + Span(queue[i]) =< off[j]
  BY <1>1, <1>4, <1>5 DEF Layout, Chain
<1>7. PICK idx2, off2 : idx2 = [i \in 1 .. n |-> idx[i + 1]] /\ off2 = [i \in 1 .. n |-> off[i + 1]]
  OBVIOUS
<1>8. \A i \in 1 .. n : idx2[i] = idx[i + 1] /\ off2[i] = off[i + 1]
  BY <1>7
<1>9. Chain(idx2, off2)'
  <2>1. idx2 \in [1 .. n -> 0 .. Q] /\ off2 \in [1 .. n -> Int]
    BY <1>5, <1>6, <1>7
  <2>2. ASSUME NEW i \in 1 .. n - 1
        PROVE  /\ idx2[i + 1] = AfterBody(AfterHeader(idx2[i]), queue'[i].len)
               /\ off2[i + 1] = off2[i] + Span(queue'[i])
               /\ \A j \in 1 .. n : i < j => off2[i] + Span(queue'[i]) =< off2[j]
    <3>1. /\ idx2[i + 1] = idx[i + 1 + 1] /\ idx2[i] = idx[i + 1] /\ off2[i + 1] = off[i + 1 + 1]
          /\ off2[i] = off[i + 1] /\ queue'[i] = queue[i + 1] /\ i + 1 \in 1 .. n
      BY <1>5, <1>8, Zenon
    <3>2. ASSUME NEW j \in 1 .. n, i < j PROVE off2[i] + Span(queue'[i]) =< off2[j]
      <4>1. i + 1 < j + 1 /\ j + 1 \in 1 .. n + 1
        BY <1>5, <3>2
      <4>2. off2[j] = off[j + 1]
        BY <1>8
      <4> QED BY <1>6, <3>1, <4>1, <4>2, Zenon
    <3> QED BY <1>6, <3>1, <3>2, Zenon
  <2> QED BY <1>5, <2>1, <2>2, Zenon DEF Chain, Span
<1>10. Placed(idx2, off2)'
  <2>1. \A i : D(i)' = D(i)
    BY <1>2, Zenon DEF D, Distance
  <2>2. ASSUME NEW i \in 1 .. n - 1 PROVE D(AfterHeader(idx2[i])) = off2[i] + H
    <3>1. idx2[i] = idx[i + 1] /\ off2[i] = off[i + 1] /\ i + 1 \in 1 .. Len(queue)
      BY <1>4, <1>5, <1>8, Zenon
    <3> QED BY <1>1, <3>1, Zenon DEF Layout, Placed
  <2>3. ASSUME NEW i \in 1 .. n, off2[i] >= 0 PROVE D(idx2[i]) = off2[i]
    <3>1. idx2[i] = idx[i + 1] /\ off2[i] = off[i + 1] /\ i + 1 \in 1 .. Last
      BY <1>5, <1>8, Zenon
    <3> QED BY <1>1, <2>3, <3>1, Zenon DEF Layout, Placed
  <2> QED BY <1>5, <2>1, <2>2, <2>3, Zenon DEF Placed
<1>11. Holding(idx2, off2)'
  <2>1. ASSUME NEW i \in 1 .. n - 1
        PROVE  /\ off2[i] >= 0 => HeaderHolds(idx2[i], queue'[i])
               /\ BodyHolds(AfterHeader(idx2[i]), queue'[i].len, queue'[i])
    <3>1. /\ idx2[i] = idx[i + 1] /\ off2[i] = off[i + 1] /\ queue'[i] = queue[i + 1]
          /\ i + 1 \in 1 .. Len(queue)
      BY <1>4, <1>5, <1>8, Zenon
    <3> QED BY <1>1, <3>1, Zenon DEF Layout, Holding
  <2> QED BY <1>2, <1>5, <2>1, Zenon DEF Holding, HeaderHolds, BodyHolds
<1>12. Front(idx2, off2)'
  <2>1. idx2[1] = AfterBody(read, clen) /\ off2[1] = off[1] + Span(queue[1])
    <3>1. idx2[1] = idx[1 + 1] /\ off2[1] = off[1 + 1]
      BY <1>5, <1>8, Zenon
    <3> QED BY <1>3, <1>5, <1>6, <3>1, Zenon
  <2>2. queue[1].len \in 1 .. N
    BY <1>1, <1>4, <1>5, LayoutBounds
  <2>3. off2[1] = clen
    BY <1>3, <2>1, <2>2 DEF Span
  <2> QED BY <1>2, <2>1, <2>3, Zenon DEF Front
<1>13. Back(idx2, off2)'
  <2>1. idx2[n] = idx[n + 1] /\ off2[n] = off[n + 1]
    BY <1>5, <1>8, Zenon
  <2>2. HalfIn' = HalfIn /\ Unread' = Unread
    BY <1>2 DEF HalfIn, Unread
  <2>3. ASSUME HalfIn
        PROVE  write = AfterHeader(idx2[n]) /\ Unread = off2[n] + H /\ HeaderHolds(idx2[n], pmsg)
    BY <1>1, <1>5, <2>1, <2>3, Zenon DEF Layout, Back
  <2>4. ASSUME ~HalfIn PROVE write = idx2[n] /\ Unread = off2[n]
    BY <1>1, <1>5, <2>1, <2>4, Zenon DEF Layout, Back
  <2>5. /\ ppc = "pubheader" => HeaderHolds(write, pmsg)
        /\ ppc = "pubbody" => BodyHolds(write, pmsg.len, pmsg)
    BY <1>1 DEF Layout, Back
  <2> QED BY <1>2, <1>5, <2>2, <2>3, <2>4, <2>5, Zenon DEF Back, HeaderHolds, BodyHolds
<1> QED BY <1>9, <1>10, <1>11, <1>12, <1>13, Zenon DEF LayoutInv, Layout

(* The body is given back: the next message starts where read stands.      *)
LEMMA PopReleaseLayout ==
  ASSUME UntornInv, LayoutInv, PopRelease
  PROVE  LayoutInv'
<1>1. PICK idx, off : Layout(idx, off)
  BY DEF LayoutInv
<1>2. /\ cpc = "release" /\ cpc' = "idle" /\ read' = AfterBody(read, clen)
      /\ cells' = Forget(BodyCells(read, clen))
      /\ write' = write /\ queue' = queue /\ ppc' = ppc /\ pmsg' = pmsg
  BY DEF PopRelease, PopReturns, prod, hist
<1>3. idx[1] = AfterBody(read, clen) /\ off[1] = clen
  BY <1>1, <1>2 DEF Layout, Front
<1>4. /\ read \in 0 .. Q /\ write \in 0 .. Q /\ Unread \in Nat /\ Unread =< N
      /\ clen \in 0 .. Q /\ clen \in Nat /\ Len(queue) \in Nat /\ Last = Len(queue) + 1
      /\ off[Last] \in Nat /\ off[Last] =< Unread
  BY <1>1, LayoutBounds DEF UntornInv, TypeOK, Last
<1>5. ASSUME NEW i \in 1 .. Last PROVE clen =< off[i] /\ off[i] \in Int /\ off[i] =< Unread /\ idx[i] \in 0 .. Q
  <2>1. off[i] \in Int /\ idx[i] \in 0 .. Q
    BY <1>1 DEF Layout, Chain
  <2>2. clen =< off[i]
    <3>1. CASE i = 1
      BY <1>3, <1>4, <3>1
    <3>2. CASE i # 1
      <4>1. 1 \in 1 .. Len(queue) /\ 1 < i
        BY <1>4, <3>2
      <4>2. off[1] + Span(queue[1]) =< off[i]
        BY <1>1, <4>1 DEF Layout, Chain
      <4>3. Span(queue[1]) \in Nat
        <5>1. queue[1].len \in 1 .. N
          BY <1>1, <4>1, LayoutBounds
        <5> QED BY <5>1 DEF Span
      <4> QED BY <1>3, <1>4, <2>1, <4>2, <4>3
    <3> QED BY <3>1, <3>2
  <2>3. off[i] =< Unread
    <3>1. CASE i = Last
      BY <1>4, <3>1
    <3>2. CASE i # Last
      <4>1. i \in 1 .. Len(queue)
        BY <1>4, <3>2
      <4>2. off[i] + H + queue[i].len =< Unread /\ queue[i].len \in 1 .. N
        BY <1>1, <4>1, LayoutBounds
      <4>3. \A x, l, u \in Int : x + H + l =< u /\ 1 =< l => x =< u
        OBVIOUS
      <4>4. queue[i].len \in Int /\ 1 =< queue[i].len /\ Unread \in Int
        BY <1>4, <4>2
      <4> QED BY <2>1, <4>2, <4>3, <4>4, Zenon
    <3> QED BY <3>1, <3>2
  <2> QED BY <2>1, <2>2, <2>3
<1>6. \A i \in 0 .. Q : clen =< D(i) /\ D(i) =< N => Distance(read', i) = D(i) - clen
  BY <1>2, <1>4, IndexMovesByLength DEF D
<1>7. clen =< off[Last] /\ clen =< Unread
  <2>1. Last \in 1 .. Last
    BY <1>4
  <2> QED BY <1>4, <1>5, <2>1
<1>8. Unread' = Unread - clen
  <2>1. clen =< Distance(read, write) /\ Distance(read, write) =< N
    BY <1>4, <1>7 DEF Unread
  <2> QED BY <1>2, <1>4, <2>1, IndexMovesByLength DEF Unread
<1>9. ASSUME NEW i \in 1 .. Len(queue)
      PROVE  clen =< off[i] + H /\ Distance(read', AfterHeader(idx[i])) = off[i] + H - clen
  <2>1. PICK o, l, b : o = off[i] /\ l = queue[i].len /\ b = AfterHeader(idx[i])
    OBVIOUS
  <2>2. b \in 0 .. Q /\ D(b) = o + H /\ o + H + l =< Unread /\ l \in 1 .. N /\ o \in Int
    BY <1>1, <2>1, LayoutBounds
  <2>3. clen =< o
    <3>1. i \in 1 .. Last
      BY <1>4
    <3> QED BY <1>5, <2>1, <3>1
  <2>4. clen =< D(b) /\ D(b) =< N
    BY <1>4, <2>2, <2>3
  <2>5. clen =< o + H
    BY <1>4, <2>2, <2>3
  <2>6. Distance(read', b) = o + H - clen
    <3>1. Distance(read', b) = D(b) - clen
      BY <1>6, <2>2, <2>4, Zenon
    <3>2. D(b) - clen = o + H - clen
      BY <1>4, <2>2
    <3> QED BY <3>1, <3>2
  <2> QED BY <2>1, <2>5, <2>6, Zenon
<1>10. ASSUME NEW i \in 1 .. Last, off[i] - clen >= 0
       PROVE  Distance(read', idx[i]) = off[i] - clen
  <2>1. clen =< off[i] /\ off[i] \in Int /\ off[i] =< N /\ idx[i] \in 0 .. Q
    BY <1>4, <1>5
  <2>2. D(idx[i]) = off[i]
    BY <1>1, <1>4, <2>1 DEF Layout, Placed
  <2> QED BY <1>6, <2>1, <2>2
<1>11. /\ \A x \in BodyCells(read, clen) : x \in Int /\ InSpan(x, read, clen)
       /\ \A x \in (0 .. Q) \ BodyCells(read, clen) : cells'[x] = cells[x]
  BY <1>2, <1>4, PieceCells DEF Forget
<1>12. PICK off2 : off2 = [i \in 1 .. Last |-> off[i] - clen]
  OBVIOUS
<1>13. Chain(idx, off2)' /\ Placed(idx, off2)' /\ Holding(idx, off2)' /\ Back(idx, off2)'
  <2>1. PICK c, S : c = clen /\ S = BodyCells(read, clen)
    OBVIOUS
  <2>2. /\ c \in Nat /\ c =< off[Last] /\ Unread' = Unread - c
        /\ \A x \in S : x \in Int /\ InSpan(x, read, c)
        /\ \A x \in (0 .. Q) \ S : cells'[x] = cells[x]
        /\ off2 = [i \in 1 .. Last |-> off[i] - c]
    BY <1>4, <1>7, <1>8, <1>11, <1>12, <2>1, Zenon
  <2>3. \A i \in 1 .. Len(queue) :
          c =< off[i] + H /\ Distance(read', AfterHeader(idx[i])) = off[i] + H - c
    BY <1>9, <2>1, Zenon
  <2>4. \A i \in 1 .. Last : off[i] - c >= 0 => Distance(read', idx[i]) = off[i] - c
    BY <1>10, <2>1, Zenon
  <2> QED BY <1>1, <1>2, <2>2, <2>3, <2>4, ReaderMoves
<1>14. Front(idx, off2)'
  <2>1. off2[1] = 0
    <3>1. 1 \in 1 .. Last
      BY <1>4
    <3> QED BY <1>3, <1>4, <1>12, <3>1
  <2> QED BY <1>2, <1>3, <2>1 DEF Front
<1> QED BY <1>13, <1>14 DEF LayoutInv, Layout

LEMMA LayoutStart == Init => LayoutInv
<1> SUFFICES ASSUME Init PROVE LayoutInv
  OBVIOUS
<1>1. /\ read = 0 /\ write = 0 /\ ppc = "idle" /\ cpc = "idle" /\ queue = <<>>
      /\ Len(queue) = 0 /\ Last = 1 /\ Unread = 0
  BY DEF Init, Last, Unread, Distance
<1>2. PICK idx, off : idx = [i \in 1 .. 1 |-> 0] /\ off = [i \in 1 .. 1 |-> 0]
  OBVIOUS
<1>3. idx[1] = 0 /\ off[1] = 0 /\ \A i \in 1 .. 1 : i = 1
  BY <1>2
<1>4. Chain(idx, off)
  BY <1>1, <1>2 DEF Chain
<1>5. Placed(idx, off)
  BY <1>1, <1>3 DEF Placed, D, Distance
<1>6. Holding(idx, off)
  BY <1>1 DEF Holding
<1>7. Front(idx, off)
  BY <1>1, <1>3 DEF Front
<1>8. Back(idx, off)
  BY <1>1, <1>3 DEF Back, HalfIn
<1> QED BY <1>4, <1>5, <1>6, <1>7, <1>8 DEF LayoutInv, Layout

(* Every step of the two ends keeps the layout.                            *)
LEMMA LayoutStep == UntornInv /\ LayoutInv /\ [Next]_vars => LayoutInv'
<1> SUFFICES ASSUME UntornInv, LayoutInv, [Next]_vars PROVE LayoutInv'
  OBVIOUS
<1>1. ASSUME NEW m \in Msg, AppendBegin(m) PROVE LayoutInv'
  BY <1>1, AppendBeginLayout
<1>2. CASE AppendCheck
  BY <1>2, AppendCheckLayout
<1>3. CASE AppendHeader
  BY <1>3, AppendHeaderLayout
<1>4. CASE AppendPublishHeader
  BY <1>4, AppendPublishHeaderLayout
<1>5. CASE AppendBody
  BY <1>5, AppendBodyLayout
<1>6. CASE AppendPublishBody
  BY <1>6, AppendPublishBodyLayout
<1>7. ASSUME NEW cap \in Caps, PopBegin(cap) PROVE LayoutInv'
  BY <1>7, PopWaitsLayout DEF PopBegin, shared, prod, hist
<1>8. CASE PopUsed
  BY <1>8, PopWaitsLayout DEF PopUsed, shared, prod, hist
<1>9. CASE PopLength
  BY <1>9, PopLengthLayout
<1>10. CASE PopHeader
  BY <1>10, PopHeaderLayout
<1>11. CASE PopBody
  BY <1>11, PopBodyLayout
<1>12. CASE PopRelease
  BY <1>12, PopReleaseLayout
<1>13. CASE UNCHANGED vars
  <2>1. PICK idx, off : Layout(idx, off)
    BY DEF LayoutInv
  <2>2. /\ read' = read /\ write' = write /\ cells' = cells /\ queue' = queue
        /\ ppc' = ppc /\ pmsg' = pmsg /\ cpc' = cpc /\ clen' = clen
    BY <1>13 DEF vars, shared, prod, cons, hist
  <2> QED BY <2>1, <2>2, SameCells, SameFront, SameBack DEF LayoutInv, Layout
<1> QED
  BY <1>1, <1>2, <1>3, <1>4, <1>5, <1>6, <1>7, <1>8, <1>9, <1>10, <1>11, <1>12, <1>13
  DEF Next, Producer, Consumer

(* A step of the ring is a step of the channel: the message is sent when   *)
(* its body is published and received when it has been copied out.         *)
LEMMA FifoStep ==
  UntornInv /\ LayoutInv /\ [Next]_vars => [Channel!Next]_<<queue, delivered>>
<1> SUFFICES ASSUME UntornInv, LayoutInv, [Next]_vars PROVE [Channel!Next]_<<queue, delivered>>
  OBVIOUS
<1>1. CASE AppendPublishBody
  <2>1. pmsg \in Msg
    BY <1>1 DEF AppendPublishBody, UntornInv, TypeOK
  <2>2. Channel!Send(pmsg)
    BY <1>1 DEF AppendPublishBody, Channel!Send
  <2> QED BY <2>1, <2>2 DEF Channel!Next
<1>2. CASE PopBody
  <2>1. Channel!Receive
    BY <1>2, PopBodyDelivers DEF Channel!Receive
  <2> QED BY <2>1 DEF Channel!Next
<1>3. CASE UNCHANGED <<queue, delivered>>
  BY <1>3
<1>4. \/ AppendPublishBody \/ PopBody \/ UNCHANGED <<queue, delivered>>
  BY DEF Next, Producer, Consumer, vars, hist, AppendBegin, AppendCheck, AppendHeader,
     AppendPublishHeader, AppendBody, PopBegin, PopUsed, PopLength, PopHeader, PopRelease
<1> QED BY <1>1, <1>2, <1>3, <1>4

(* On the behaviours without a torn comparison the layout always exists.   *)
LEMMA UntornLayout == UntornSpec => Spec /\ []UntornInv /\ []LayoutInv
<1>1. UntornSpec => Spec
  <2>1. [Next /\ torn' = {}]_vars => [Next]_vars
    OBVIOUS
  <2> QED BY <2>1, PTL DEF UntornSpec, Spec
<1>2. UntornSpec => [](torn = {})
  <2>1. Init => torn = {}
    BY DEF Init
  <2>2. torn = {} /\ [Next /\ torn' = {}]_vars => (torn = {})'
    BY DEF vars
  <2> QED BY <2>1, <2>2, PTL DEF UntornSpec
<1>3. UntornSpec => []UntornInv
  BY <1>1, <1>2, TypeCorrect, RoomKept, PTL DEF UntornInv
<1>4. UntornInv /\ LayoutInv /\ [Next]_vars => LayoutInv'
  BY LayoutStep
<1> QED BY <1>1, <1>3, <1>4, LayoutStart, PTL DEF Spec

(* A torn comparison is remembered.                                        *)
LEMMA TornStays == [Next]_vars /\ torn' = {} => torn = {}
BY DEF Next, vars, Producer, Consumer, AppendBegin, AppendCheck, AppendHeader,
   AppendPublishHeader, AppendBody, AppendPublishBody, PopBegin, PopUsed, PopLength,
   PopHeader, PopBody, PopRelease

(* As long as no comparison is out of date when it is used, pop hands out  *)
(* the messages append took: whole, each once and in order, for every ring *)
(* size, wherever the wraps fall, and however the two ends interleave.     *)
LEMMA FifoImplemented == UntornSpec => ImplementsFifo
<1>1. Init => Channel!Init
  BY DEF Init, Channel!Init
<1> QED
  BY <1>1, UntornLayout, FifoStep, PTL DEF Spec, ImplementsFifo, Channel!Spec

(* In any behaviour, whatever becomes of it later, every step up to the    *)
(* first torn comparison is one of a FIFO or leaves it as it is.           *)
THEOREM FifoUntilTorn ==
  Spec => Channel!Init /\ [][torn' = {} => [Channel!Next]_<<queue, delivered>>]_vars
<1>1. Init => Channel!Init
  BY DEF Init, Channel!Init
<1>2. Init => LayoutInv
  BY LayoutStart
<1>3. TypeOK /\ RoomInv /\ torn = {} => UntornInv
  BY DEF UntornInv
<1>4. TypeOK /\ RoomInv /\ (torn = {} => LayoutInv) /\ [Next]_vars => (torn = {} => LayoutInv)'
  <2>1. [Next]_vars /\ torn' = {} => torn = {}
    BY TornStays
  <2> QED BY <1>3, <2>1, LayoutStep
<1>5. TypeOK /\ RoomInv /\ (torn = {} => LayoutInv) /\ [Next]_vars =>
        [torn' = {} => [Channel!Next]_<<queue, delivered>>]_vars
  <2>1. [Next]_vars /\ torn' = {} => torn = {} /\ [Next /\ torn' = {}]_vars
    BY TornStays
  <2> QED BY <1>3, <2>1, FifoStep
<1> QED BY <1>1, <1>2, <1>4, <1>5, TypeCorrect, RoomKept, PTL DEF Spec

(* A pool with one worker has no torn comparison.                          *)
LEMMA OneWorkerUntorn == ASSUME Threads = 1 PROVE Spec => UntornSpec
<1>1. NeverTorn => torn = {}
  BY DEF NeverTorn
<1>2. Spec => [](torn = {})
  BY <1>1, OneWorkerNeverTears, PTL
<1>3. [Next]_vars /\ (torn = {})' => [Next /\ torn' = {}]_vars
  OBVIOUS
<1> QED BY <1>2, <1>3, PTL DEF Spec, UntornSpec

(* There the queue is a FIFO in every behaviour.                           *)
THEOREM OneWorkerFifo == ASSUME Threads = 1 PROVE Spec => ImplementsFifo
BY OneWorkerUntorn, FifoImplemented, PTL

-----------------------------------------------------------------------------
(* append takes exactly what fits: the bytes between the indexes are those *)
(* of the queued messages and of the one an end is in the middle of.       *)

(* The bytes of message i, and how many they are.                          *)
Row(i, n) == {i} \X (1 .. n)

LEMMA RowCount ==
  ASSUME NEW i, NEW n \in Nat
  PROVE  IsFiniteSet(Row(i, n)) /\ Cardinality(Row(i, n)) = n
<1> DEFINE f == [k \in 1 .. n |-> <<i, k>>]
<1>1. f \in [1 .. n -> Row(i, n)]
  BY DEF Row
<1>2. \A a, b \in 1 .. n : f[a] = f[b] => a = b
  OBVIOUS
<1>3. ASSUME NEW x \in Row(i, n) PROVE \E k \in 1 .. n : f[k] = x
  BY DEF Row
<1>4. IsFiniteSet(1 .. n) /\ Cardinality(1 .. n) = n
  <2>1. IsFiniteSet(1 .. n) /\ Cardinality(1 .. n) = IF 1 > n THEN 0 ELSE n - 1 + 1
    BY FS_Interval
  <2> QED BY <2>1
<1>5. f \in Bijection(1 .. n, Row(i, n))
  <2> HIDE DEF f
  <2> QED BY <1>1, <1>2, <1>3, Fun_IsBij
<1>6. ExistsBijection(1 .. n, Row(i, n))
  BY <1>5, Fun_ExistsBij
<1> QED BY <1>4, <1>6, FS_Bijection

LEMMA BytesFinite ==
  ASSUME NEW q \in Seq(Msg)
  PROVE  IsFiniteSet(BytesOf(q)) /\ Cardinality(BytesOf(q)) \in Nat
<1>1. Len(q) \in Nat
  OBVIOUS
<1>2. IsFiniteSet(1 .. Len(q)) /\ IsFiniteSet(1 .. H + N)
  BY <1>1, FS_Interval
<1>3. IsFiniteSet((1 .. Len(q)) \X (1 .. H + N))
  BY <1>2, FS_Product
<1>4. BytesOf(q) \in SUBSET ((1 .. Len(q)) \X (1 .. H + N))
  BY DEF BytesOf
<1> QED BY <1>3, <1>4, FS_Subset, FS_CardinalityType

(* Which bytes are a queue's.                                              *)
LEMMA ByteOf ==
  ASSUME NEW q \in Seq(Msg), NEW i \in Int, NEW k \in Int
  PROVE  <<i, k>> \in BytesOf(q) <=> i \in 1 .. Len(q) /\ k \in 1 .. H + q[i].len
<1>1. ASSUME i \in 1 .. Len(q)
      PROVE  k \in 1 .. H + N /\ k =< H + q[i].len <=> k \in 1 .. H + q[i].len
  <2>1. q[i] \in Msg
    BY <1>1
  <2>2. PICK l \in 1 .. N : l = q[i].len
    BY <2>1, MessageLength
  <2> QED BY <2>2
<1>2. <<i, k>> \in BytesOf(q) <=> i \in 1 .. Len(q) /\ k \in 1 .. H + N /\ k =< H + q[i].len
  BY DEF BytesOf
<1> QED BY <1>1, <1>2

LEMMA BytesAppend ==
  ASSUME NEW q \in Seq(Msg), NEW m \in Msg
  PROVE  Cardinality(BytesOf(Append(q, m))) = Cardinality(BytesOf(q)) + Span(m)
<1>1. PICK q2, n : q2 = Append(q, m) /\ n = Len(q) + 1
  OBVIOUS
<1>2. /\ q2 \in Seq(Msg) /\ Len(q2) = n /\ n \in Nat /\ q2[n] = m /\ Len(q) \in Nat
      /\ \A i \in 1 .. Len(q) : q2[i] = q[i]
  BY <1>1
<1>3. Span(m) \in Nat
  BY MessageLength DEF Span
<1>4. \A x : x \in BytesOf(q) \/ x \in BytesOf(q2) \/ x \in Row(n, Span(m))
             => \E i, k \in Int : x = <<i, k>>
  BY <1>2, <1>3 DEF BytesOf, Row
<1>5. ASSUME NEW i \in Int, NEW k \in Int
      PROVE  <<i, k>> \in BytesOf(q2) <=> <<i, k>> \in BytesOf(q) \cup Row(n, Span(m))
  <2>1. <<i, k>> \in Row(n, Span(m)) <=> i = n /\ k \in 1 .. Span(m)
    BY DEF Row
  <2>2. <<i, k>> \in BytesOf(q) <=> i \in 1 .. Len(q) /\ k \in 1 .. H + q[i].len
    BY ByteOf
  <2>3. <<i, k>> \in BytesOf(q2) <=> i \in 1 .. n /\ k \in 1 .. H + q2[i].len
    BY <1>2, ByteOf
  <2>4. i \in 1 .. n <=> i \in 1 .. Len(q) \/ i = n
    BY <1>1, <1>2
  <2>5. CASE i = n
    <3>1. i \notin 1 .. Len(q) /\ Span(m) = H + q2[i].len
      BY <1>1, <1>2, <2>5 DEF Span
    <3> QED BY <2>1, <2>2, <2>3, <2>4, <2>5, <3>1, Zenon
  <2>6. CASE i # n
    BY <1>2, <2>1, <2>2, <2>3, <2>4, <2>6, Zenon
  <2> QED BY <2>5, <2>6
<1>6. BytesOf(q2) = BytesOf(q) \cup Row(n, Span(m))
  <2>1. ASSUME NEW x, x \in BytesOf(q) \/ x \in BytesOf(q2) \/ x \in Row(n, Span(m))
        PROVE  x \in BytesOf(q2) <=> x \in BytesOf(q) \cup Row(n, Span(m))
    <3>1. \E i, k \in Int : x = <<i, k>>
      BY <1>4, <2>1, Zenon
    <3>2. PICK i \in Int, k \in Int : x = <<i, k>>
      BY <3>1
    <3> QED BY <1>5, <3>2, Zenon
  <2>2. \A x \in BytesOf(q2) : x \in BytesOf(q) \cup Row(n, Span(m))
    BY <2>1, Zenon
  <2>3. \A x \in BytesOf(q) \cup Row(n, Span(m)) : x \in BytesOf(q2)
    <3>1. ASSUME NEW x \in BytesOf(q) \cup Row(n, Span(m)) PROVE x \in BytesOf(q2)
      <4>1. x \in BytesOf(q) \/ x \in Row(n, Span(m))
        BY Zenon
      <4> QED BY <2>1, <4>1, Zenon
    <3> QED BY <3>1
  <2> QED BY <2>2, <2>3
<1>7. BytesOf(q) \cap Row(n, Span(m)) = {}
  <2>1. ASSUME NEW i \in Int, NEW k \in Int, <<i, k>> \in BytesOf(q), <<i, k>> \in Row(n, Span(m))
        PROVE  FALSE
    <3>1. i \in 1 .. Len(q)
      BY <2>1, ByteOf
    <3>2. i = n
      BY <2>1 DEF Row
    <3> QED BY <1>1, <1>2, <3>1, <3>2
  <2>2. ASSUME NEW x, x \in BytesOf(q), x \in Row(n, Span(m)) PROVE FALSE
    <3>1. \E i, k \in Int : x = <<i, k>>
      BY <1>4, <2>2, Zenon
    <3>2. PICK i \in Int, k \in Int : x = <<i, k>>
      BY <3>1
    <3> QED BY <2>1, <2>2, <3>2, Zenon
  <2> QED BY <2>2
<1>8. Cardinality(BytesOf(q2)) = Cardinality(BytesOf(q)) + Cardinality(Row(n, Span(m))) - Cardinality({})
  <2>1. IsFiniteSet(BytesOf(q)) /\ IsFiniteSet(Row(n, Span(m)))
    BY <1>3, BytesFinite, RowCount
  <2> QED BY <1>6, <1>7, <2>1, FS_Union
<1> QED BY <1>1, <1>3, <1>8, BytesFinite, RowCount, FS_EmptySet

LEMMA BytesTail ==
  ASSUME NEW q \in Seq(Msg), q # <<>>
  PROVE  Cardinality(BytesOf(q)) = Cardinality(BytesOf(Tail(q))) + Span(Head(q))
<1>1. PICK q2, n, m : q2 = Tail(q) /\ n = Len(q) /\ m = Head(q)
  OBVIOUS
<1>2. /\ q2 \in Seq(Msg) /\ n \in Nat /\ n >= 1 /\ Len(q2) = n - 1 /\ m \in Msg /\ q[1] = m
      /\ \A i \in 1 .. n - 1 : q2[i] = q[i + 1]
  BY <1>1
<1>3. Span(m) \in Nat
  BY <1>2, MessageLength DEF Span
<1> DEFINE A == BytesOf(q2)
           B == BytesOf(q) \ Row(1, Span(m))
           f == [x \in A |-> <<x[1] + 1, x[2]>>]
<1>4. \A x : x \in BytesOf(q) \/ x \in A \/ x \in Row(1, Span(m)) => \E i, k \in Int : x = <<i, k>>
  BY <1>2, <1>3 DEF BytesOf, Row
<1>5. \A i, k \in Int : <<i, k>> \in A <=> i \in 1 .. n - 1 /\ k \in 1 .. H + q2[i].len
  BY <1>2, ByteOf
<1>6. \A i, k \in Int : <<i, k>> \in BytesOf(q) <=> i \in 1 .. n /\ k \in 1 .. H + q[i].len
  BY <1>1, ByteOf
<1>7. \A i, k \in Int : <<i, k>> \in Row(1, Span(m)) <=> i = 1 /\ k \in 1 .. H + q[1].len
  BY <1>2 DEF Row, Span
<1>8. \A i, k \in Int : <<i, k>> \in B <=> i \in 2 .. n /\ k \in 1 .. H + q[i].len
  <2>1. ASSUME NEW i \in Int, NEW k \in Int
        PROVE  <<i, k>> \in B <=> i \in 2 .. n /\ k \in 1 .. H + q[i].len
    <3>1. CASE i = 1
      <4>1. 1 \in 1 .. n /\ 1 \notin 2 .. n
        BY <1>2
      <4> QED BY <1>6, <1>7, <3>1, <4>1, Zenon
    <3>2. CASE i # 1
      <4>1. i \in 1 .. n <=> i \in 2 .. n
        BY <1>2, <3>2
      <4> QED BY <1>6, <1>7, <3>2, <4>1, Zenon
    <3> QED BY <3>1, <3>2
  <2> QED BY <2>1
<1>9. \A i, k \in Int : <<i, k>> \in A <=> <<i + 1, k>> \in B
  <2>1. ASSUME NEW i \in Int, NEW k \in Int
        PROVE  <<i, k>> \in A <=> <<i + 1, k>> \in B
    <3>1. i + 1 \in Int /\ (i \in 1 .. n - 1 <=> i + 1 \in 2 .. n)
      BY <1>2
    <3>2. i \in 1 .. n - 1 => q2[i] = q[i + 1]
      BY <1>2
    <3> QED BY <1>5, <1>8, <3>1, <3>2, Zenon
  <2> QED BY <2>1
<1>10. \A i, k : <<i, k>> \in A => f[<<i, k>>] = <<i + 1, k>>
  OBVIOUS
<1>11. \A x \in B : \E i, k \in Int : x = <<i, k>>
  BY <1>4
<1> HIDE DEF A, B
<1>12. f \in [A -> B]
  <2>1. ASSUME NEW x \in A PROVE <<x[1] + 1, x[2]>> \in B
    <3>1. PICK i \in Int, k \in Int : x = <<i, k>>
      BY <1>4
    <3> QED BY <1>9, <3>1
  <2> QED BY <2>1
<1> HIDE DEF f
<1>13. ASSUME NEW x \in A, NEW y \in A, f[x] = f[y] PROVE x = y
  <2>1. PICK i \in Int, k \in Int : x = <<i, k>>
    BY <1>4
  <2>2. PICK j \in Int, l \in Int : y = <<j, l>>
    BY <1>4
  <2>3. <<i + 1, k>> = <<j + 1, l>>
    BY <1>10, <1>13, <2>1, <2>2, Zenon
  <2>4. i + 1 = j + 1 /\ k = l
    BY <2>3
  <2>5. i = j
    BY <2>4
  <2> QED BY <2>1, <2>2, <2>4, <2>5
<1>14. ASSUME NEW y \in B PROVE \E x \in A : f[x] = y
  <2>1. PICK j \in Int, k \in Int : y = <<j, k>>
    BY <1>11
  <2>2. PICK i \in Int : i + 1 = j
    <3>1. j - 1 \in Int /\ (j - 1) + 1 = j
      OBVIOUS
    <3> QED BY <3>1
  <2>3. <<i, k>> \in A
    BY <1>9, <1>14, <2>1, <2>2
  <2> QED BY <1>10, <2>1, <2>2, <2>3
<1>15. f \in Bijection(A, B)
  BY <1>12, <1>13, <1>14, Fun_IsBij
<1>16. Cardinality(B) = Cardinality(A) /\ IsFiniteSet(B)
  <2>1. ExistsBijection(A, B)
    BY <1>15, Fun_ExistsBij
  <2>2. IsFiniteSet(A)
    BY <1>2, BytesFinite DEF A
  <2> QED BY <2>1, <2>2, FS_Bijection
<1>17. BytesOf(q) = B \cup Row(1, Span(m)) /\ B \cap Row(1, Span(m)) = {}
  <2>1. Row(1, Span(m)) \subseteq BytesOf(q)
    <3>1. 1 \in 1 .. n
      BY <1>2
    <3>2. ASSUME NEW x \in Row(1, Span(m)) PROVE x \in BytesOf(q)
      <4>1. \E i, k \in Int : x = <<i, k>>
        BY <1>4, <3>2, Zenon
      <4>2. PICK i \in Int, k \in Int : x = <<i, k>>
        BY <4>1
      <4>3. i = 1 /\ k \in 1 .. H + q[1].len
        BY <1>7, <3>2, <4>2, Zenon
      <4> QED BY <1>6, <3>1, <4>2, <4>3, Zenon
    <3> QED BY <3>2
  <2> QED BY <2>1 DEF B
<1>18. Cardinality(BytesOf(q)) = Cardinality(B) + Cardinality(Row(1, Span(m))) - Cardinality({})
  <2>1. IsFiniteSet(Row(1, Span(m)))
    BY <1>3, RowCount
  <2> QED BY <1>16, <1>17, <2>1, FS_Union
<1>19. Cardinality(A) \in Nat
  BY <1>2, BytesFinite DEF A
<1> QED BY <1>1, <1>3, <1>16, <1>18, <1>19, RowCount, FS_EmptySet DEF A

(* The bytes of a message an end is in the middle of: published and not    *)
(* yet counted in the queue, or counted and given back.                    *)
HalfSent == IF HalfIn THEN H ELSE 0
HalfRead == IF cpc = "release" THEN clen ELSE IF cpc = "body" THEN -H ELSE 0

StoredInv == Unread = Stored + HalfSent + HalfRead

LEMMA StoredStart == Init => StoredInv
<1> SUFFICES ASSUME Init PROVE StoredInv
  OBVIOUS
<1>1. Unread = 0 /\ HalfSent = 0 /\ HalfRead = 0
  BY DEF Init, Unread, Distance, HalfSent, HalfIn, HalfRead
<1>2. BytesOf(queue) = {}
  <2>1. Len(queue) = 0
    BY DEF Init
  <2> QED BY <2>1 DEF BytesOf
<1>3. Stored = 0
  BY <1>2, FS_EmptySet DEF Stored
<1> QED BY <1>1, <1>3 DEF StoredInv

(* What the steps start from.                                              *)
LEMMA StoredBounds ==
  ASSUME UntornInv, LayoutInv
  PROVE  /\ Stored \in Nat /\ Unread \in Nat /\ Unread =< N /\ read \in 0 .. Q /\ write \in 0 .. Q
         /\ clen \in 0 .. Q /\ clen \in Nat /\ HalfSent \in Int /\ HalfRead \in Int
         /\ cpc = "body" => queue # <<>> /\ Span(Head(queue)) = H + clen
         /\ cpc = "release" => clen =< Unread
<1>1. PICK idx, off : Layout(idx, off)
  BY DEF LayoutInv
<1>2. /\ Unread \in Nat /\ Unread =< N /\ read \in 0 .. Q /\ write \in 0 .. Q
  BY <1>1, LayoutBounds
<1>3. clen \in 0 .. Q /\ clen \in Nat
  BY DEF UntornInv, TypeOK
<1>4. Stored \in Nat
  BY BytesFinite DEF UntornInv, TypeOK, Stored
<1>5. HalfSent \in Int /\ HalfRead \in Int
  BY <1>3 DEF HalfSent, HalfRead
<1>6. cpc = "body" => queue # <<>> /\ Span(Head(queue)) = H + clen
  <2>1. cpc = "body" => queue # <<>> /\ clen = queue[1].len
    BY <1>1 DEF Layout, Front
  <2>2. queue # <<>> => Head(queue) = queue[1]
    BY DEF UntornInv, TypeOK
  <2> QED BY <2>1, <2>2 DEF Span
<1>7. cpc = "release" => clen =< Unread
  BY DEF UntornInv, RoomInv, Claimed
<1> QED BY <1>2, <1>3, <1>4, <1>5, <1>6, <1>7

(* A step that moves no index and takes no message in or out.              *)
LEMMA StoredStays ==
  ASSUME StoredInv, UNCHANGED <<read, write, queue>>,
         HalfIn' = HalfIn, HalfRead' = HalfRead
  PROVE  StoredInv'
<1>1. Unread' = Unread /\ Stored' = Stored
  BY DEF Unread, Stored
<1>2. HalfSent' = HalfSent
  BY DEF HalfSent
<1> QED BY <1>1, <1>2 DEF StoredInv

LEMMA StoredStep == UntornInv /\ LayoutInv /\ StoredInv /\ [Next]_vars => StoredInv'
<1> SUFFICES ASSUME UntornInv, LayoutInv, StoredInv, [Next]_vars PROVE StoredInv'
  OBVIOUS
<1>0. /\ Stored \in Nat /\ Unread \in Nat /\ Unread =< N /\ read \in 0 .. Q /\ write \in 0 .. Q
      /\ clen \in 0 .. Q /\ clen \in Nat /\ HalfSent \in Int /\ HalfRead \in Int
      /\ Unread = Stored + HalfSent + HalfRead
  BY StoredBounds DEF StoredInv
<1>1. ASSUME NEW m \in Msg, AppendBegin(m) PROVE StoredInv'
  BY <1>1, StoredStays DEF AppendBegin, shared, cons, hist, HalfIn, HalfRead
<1>2. CASE AppendCheck
  BY <1>2, StoredStays DEF AppendCheck, AppendReturns, shared, cons, hist, HalfIn, HalfRead
<1>3. CASE AppendHeader
  BY <1>3, StoredStays DEF AppendHeader, cons, hist, HalfIn, HalfRead
<1>4. CASE AppendPublishHeader
  <2>1. Unread' = Unread + H
    <3>1. Unread + H =< N
      BY <1>4, RoomFor DEF AppendPublishHeader
    <3> QED BY <1>0, <1>4, <3>1, IndexMovesByLength DEF AppendPublishHeader, Unread
  <2>2. HalfSent = 0 /\ HalfSent' = H /\ HalfRead' = HalfRead /\ Stored' = Stored
    BY <1>4 DEF AppendPublishHeader, cons, hist, HalfSent, HalfIn, HalfRead, Stored
  <2> QED BY <1>0, <2>1, <2>2 DEF StoredInv
<1>5. CASE AppendBody
  BY <1>5, StoredStays DEF AppendBody, cons, hist, HalfIn, HalfRead
<1>6. CASE AppendPublishBody
  <2>1. pmsg \in Msg /\ pmsg.len \in 0 .. Q /\ pmsg.len \in Nat /\ Unread + pmsg.len =< N
    BY <1>6, RoomFor DEF AppendPublishBody
  <2>2. Unread' = Unread + pmsg.len
    BY <1>0, <1>6, <2>1, IndexMovesByLength DEF AppendPublishBody, Unread
  <2>3. HalfSent = H /\ HalfSent' = 0 /\ HalfRead' = HalfRead
    BY <1>6 DEF AppendPublishBody, AppendReturns, cons, HalfSent, HalfIn, HalfRead
  <2>4. Stored' = Stored + Span(pmsg)
    <3>1. queue \in Seq(Msg) /\ queue' = Append(queue, pmsg)
      BY <1>6 DEF AppendPublishBody, UntornInv, TypeOK
    <3>2. Cardinality(BytesOf(Append(queue, pmsg))) = Cardinality(BytesOf(queue)) + Span(pmsg)
      BY <2>1, <3>1, BytesAppend
    <3> QED BY <3>1, <3>2 DEF Stored
  <2> QED BY <1>0, <2>1, <2>2, <2>3, <2>4 DEF StoredInv, Span
<1>7. ASSUME NEW cap \in Caps, PopBegin(cap) PROVE StoredInv'
  BY <1>7, StoredStays DEF PopBegin, shared, prod, hist, HalfIn, HalfRead
<1>8. CASE PopUsed
  BY <1>8, StoredStays DEF PopUsed, shared, prod, hist, HalfIn, HalfRead
<1>9. CASE PopLength
  <2>1. cpc = "length" /\ cpc' \in {"idle", "header"} /\ UNCHANGED <<shared, prod, torn, hist>>
    BY <1>9 DEF PopLength, PopReturns
  <2> QED BY <2>1, StoredStays DEF shared, prod, hist, HalfIn, HalfRead
<1>10. CASE PopHeader
  <2>1. Unread' = Unread - H
    <3>1. H + 1 =< Unread
      BY <1>10 DEF PopHeader, UntornInv, RoomInv
    <3> QED BY <1>0, <1>10, <3>1, IndexMovesByLength DEF PopHeader, Unread
  <2>2. HalfRead = 0 /\ HalfRead' = -H /\ HalfSent' = HalfSent /\ Stored' = Stored
    BY <1>10 DEF PopHeader, prod, hist, HalfSent, HalfIn, HalfRead, Stored
  <2> QED BY <1>0, <2>1, <2>2 DEF StoredInv
<1>11. CASE PopBody
  <2>1. Unread' = Unread /\ HalfSent' = HalfSent /\ HalfRead = -H /\ HalfRead' = clen
    BY <1>11 DEF PopBody, shared, prod, Unread, HalfSent, HalfIn, HalfRead
  <2>2. Stored = Stored' + H + clen
    <3>1. queue # <<>> /\ queue' = Tail(queue) /\ queue \in Seq(Msg)
      BY <1>11, PopBodyDelivers DEF UntornInv, TypeOK
    <3>2. Cardinality(BytesOf(queue)) = Cardinality(BytesOf(Tail(queue))) + Span(Head(queue))
      BY <3>1, BytesTail
    <3>3. Span(Head(queue)) = H + clen
      BY <1>11, StoredBounds DEF PopBody
    <3>4. Cardinality(BytesOf(Tail(queue))) \in Nat
      <4>1. Tail(queue) \in Seq(Msg)
        BY <3>1
      <4> QED BY <4>1, BytesFinite
    <3>5. Stored' = Cardinality(BytesOf(Tail(queue))) /\ Stored = Cardinality(BytesOf(queue))
      BY <3>1 DEF Stored
    <3> QED BY <1>0, <3>2, <3>3, <3>4, <3>5
  <2>3. Stored' \in Int
    <3>1. Tail(queue) \in Seq(Msg) /\ queue' = Tail(queue)
      BY <1>11, PopBodyDelivers DEF UntornInv, TypeOK
    <3>2. Cardinality(BytesOf(Tail(queue))) \in Nat
      BY <3>1, BytesFinite
    <3> QED BY <3>1, <3>2 DEF Stored
  <2> QED BY <1>0, <2>1, <2>2, <2>3 DEF StoredInv
<1>12. CASE PopRelease
  <2>1. Unread' = Unread - clen
    <3>1. clen =< Unread
      BY <1>12, StoredBounds DEF PopRelease
    <3> QED BY <1>0, <1>12, <3>1, IndexMovesByLength DEF PopRelease, Unread
  <2>2. HalfRead = clen /\ HalfRead' = 0 /\ HalfSent' = HalfSent /\ Stored' = Stored
    BY <1>12 DEF PopRelease, PopReturns, prod, hist, HalfSent, HalfIn, HalfRead, Stored
  <2> QED BY <1>0, <2>1, <2>2 DEF StoredInv
<1>13. CASE UNCHANGED vars
  BY <1>13, StoredStays DEF vars, shared, prod, cons, hist, HalfIn, HalfRead
<1> QED
  BY <1>1, <1>2, <1>3, <1>4, <1>5, <1>6, <1>7, <1>8, <1>9, <1>10, <1>11, <1>12, <1>13
  DEF Next, Producer, Consumer

(* Where append decides: with a comparison that is not out of date and no  *)
(* pop under way, the free size is what queue_size leaves beside the queue.*)
LEMMA CheckIsExact ==
  ASSUME UntornInv, LayoutInv, StoredInv, [Next]_vars, torn' = {},
         ppc = "room", ppc' # "room", cpc = "idle"
  PROVE  ppc' = "header" <=> Stored + H + pmsg.len =< N
<1>1. AppendCheck
  BY DEF Next, Producer, Consumer, vars, prod, AppendBegin, AppendHeader, AppendPublishHeader,
     AppendBody, AppendPublishBody, PopBegin, PopUsed, PopLength, PopHeader, PopBody, PopRelease
<1>2. pwrapped = (read > write)
  BY <1>1 DEF AppendCheck, UntornInv, TypeOK
<1>3. /\ Stored \in Nat /\ Unread \in Nat /\ Unread =< N /\ read \in 0 .. Q /\ write \in 0 .. Q
  BY StoredBounds
<1>4. Unread = Stored
  BY <1>3 DEF StoredInv, HalfSent, HalfIn, HalfRead
<1>5. FreeSize(pwrapped, read, write) = N - Stored
  BY <1>2, <1>3, <1>4, UntornSizes
<1>6. pmsg.len \in 1 .. N
  BY MessageLength DEF UntornInv, TypeOK
<1>7. ppc' = "header" <=> ~(FreeSize(pwrapped, read, write) < pmsg.len + H)
  BY <1>1 DEF AppendCheck, AppendReturns
<1> QED BY <1>3, <1>5, <1>6, <1>7

(* While no comparison is torn append neither refuses a message there is   *)
(* room for, nor takes one that does not fit beside what is queued: for    *)
(* every ring and every mix of lengths, the wraps waste no byte.           *)
LEMMA TakesExactlyKept == UntornSpec => TakesExactlyWhatFits
<1>1. UntornSpec => []UntornInv /\ []LayoutInv
  BY UntornLayout
<1>2. UntornInv /\ LayoutInv /\ StoredInv /\ [Next /\ torn' = {}]_vars => StoredInv'
  BY StoredStep
<1>3. UntornSpec => []StoredInv
  BY <1>1, <1>2, StoredStart, PTL DEF UntornSpec
<1>4. UntornInv /\ LayoutInv /\ StoredInv /\ [Next /\ torn' = {}]_vars =>
        [ppc = "room" /\ ppc' # "room" /\ cpc = "idle" =>
           (ppc' = "header" <=> Stored + H + pmsg.len <= N)]_vars
  BY CheckIsExact
<1> QED BY <1>1, <1>3, <1>4, PTL DEF UntornSpec, TakesExactlyWhatFits

(* With one worker this is so in every behaviour.                          *)
THEOREM OneWorkerTakesExactly == ASSUME Threads = 1 PROVE Spec => TakesExactlyWhatFits
BY OneWorkerUntorn, TakesExactlyKept, PTL
=============================================================================
