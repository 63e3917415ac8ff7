------------------------------ MODULE MsgQueue ------------------------------
(***************************************************************************)
(* Msg_Queue: a byte ring in shared memory with one producer (append) and  *)
(* one consumer (pop), no lock, and two indexes that both sides load and   *)
(* one side each stores.  The two ends belong to two services, and a       *)
(* service runs on any worker of the thread pool: with Threads workers, an *)
(* append and a pop overlap when Threads >= 2 and never when Threads = 1.  *)
(*                                                                         *)
(* A message is stored as a header of H bytes (its length) and a body.     *)
(* Each is written first and published, by moving write, afterwards; the   *)
(* consumer gives back the header, copies the body and gives that back.    *)
(* Every load of the other side's index is a step of its own: the          *)
(* expression of get_free_size compares read with write and then loads     *)
(* them again, so the comparison can be out of date when its branch is     *)
(* evaluated.  The history variable torn records in which operations.      *)
(*                                                                         *)
(* Bytes are abstracted to what a reader can tell apart: which byte of     *)
(* which message a cell holds, or that it holds none of a message now in   *)
(* the ring (Stale).  Memory is sequentially consistent: the indexes are   *)
(* volatile and the targets are x86 builds.                                *)
(*                                                                         *)
(* X_How is X with a plausible mistake in it, to try the properties on.    *)
(***************************************************************************)
EXTENDS Integers, Sequences, FiniteSets

CONSTANTS
  H,        (* queue_message_head_length, sizeof(size_t)                   *)
  N,        (* queue_size asked of init; head_->queue_size_ is N + 2H      *)
  SizeMod,  (* 2 to the width of size_t                                    *)
  Lens,     (* lengths of the messages appended                            *)
  Vals,     (* contents of the messages appended                           *)
  Caps,     (* msg_length passed to pop: room in the caller's buffer       *)
  Threads   (* worker threads of the service manager's pool                *)

R == 2 * H
Q == N + R

(* The callers never append an empty message (a MessageHead precedes every *)
(* body), ask for a ring that holds more than a header, and size_t is much *)
(* wider than any ring.                                                    *)
ASSUME RingAssumption ==
  /\ H \in Nat \ {0}
  /\ N \in Nat /\ N > H
  /\ SizeMod \in Nat /\ SizeMod > 4 * Q
  /\ Lens \subseteq 1 .. N
  /\ Caps \subseteq Nat
  /\ Threads \in Nat \ {0}

Msg == [val : Vals, len : Lens]

Stale   == <<>>
Garbled == [val |-> Stale, len |-> 0]
Nothing == [val |-> Stale, len |-> -1]

VARIABLES
  read,       (* head_->read_                                              *)
  write,      (* head_->write_                                             *)
  cells,      (* msg_base_[0 .. Q]; cell Q lies behind the block           *)
  ppc,        (* where the producer is in append                           *)
  pmsg,       (* the message it appends                                    *)
  pwrapped,   (* its comparison read_ > write_                             *)
  cpc,        (* where the consumer is in pop                              *)
  ccap,       (* the room in its buffer                                    *)
  cwrapped,   (* its comparison read_ > write_                             *)
  cused,      (* its used_size                                             *)
  clen,       (* its body_size                                             *)
  torn,       (* history: operations whose comparison was out of date      *)
  queue,      (* history: the messages appended and not popped             *)
  delivered   (* the message the last pop copied out                       *)

shared == <<read, write, cells>>
prod   == <<ppc, pmsg, pwrapped>>
cons   == <<cpc, ccap, cwrapped, cused, clen>>
hist   == <<queue, delivered>>
vars   == <<shared, prod, cons, torn, hist>>

-----------------------------------------------------------------------------
(* Index arithmetic.                                                       *)

(* size_t: a difference below zero comes out at the top of the range.      *)
SizeT(x) == IF x < 0 THEN x + SizeMod ELSE x

(* i % Q, for the values i below 2Q that occur.                            *)
InRing(i) == IF i >= Q THEN i - Q ELSE i

(* The k-th byte of a header at i is reached by stepping (write + 1) % Q,  *)
(* but the first is stored at i itself, which may be Q.                    *)
HeaderCell(i, k) == IF k = 1 THEN i ELSE InRing(i + k - 1)
BodyCell(i, k)   == InRing(i + k - 1)

(* Faulty: the index is not reduced                                        *)
AfterHeader_NotReduced(i) == i + H

AfterHeader(i) == InRing(i + H)

(* Faulty: what lies behind the wrap is lost                               *)
AfterBody_DropsRest(i, n) == IF i + n > Q THEN 0 ELSE i + n

(* The index behind a body: not reduced when the body ends exactly at Q.   *)
AfterBody(i, n) == IF i + n > Q THEN i + n - Q ELSE i + n

(* Faulty: the reserve is not subtracted                                   *)
FreeSize_NoReserve(wrapped, r, w) ==
  IF wrapped THEN SizeT(r - w) ELSE SizeT(Q - w + r)

(* get_free_size, once its comparison has chosen a branch.                 *)
FreeSize(wrapped, r, w) ==
  IF wrapped THEN SizeT(r - w - R) ELSE SizeT(Q - w + r - R)

(* get_used_size.                                                          *)
UsedSize(wrapped, r, w) == SizeT(N - FreeSize(wrapped, r, w))

(* get_msg_length: the length stored at i, anything when the bytes there   *)
(* are not those of one header.                                            *)
HeaderHolds(i, m) == \A k \in 1 .. H : cells[HeaderCell(i, k)] = <<"header", m, k>>
LengthsAt(i) ==
  IF \E m \in Msg : HeaderHolds(i, m)
  THEN {m.len : m \in {x \in Msg : HeaderHolds(i, x)}}
  ELSE 0 .. Q

(* The message whose n bytes are at i.                                     *)
BodyHolds(i, n, m) ==
  /\ m.len = n
  /\ \A k \in 1 .. n : cells[BodyCell(i, k)] = <<"body", m, k>>
BodyAt(i, n) ==
  IF \E m \in Msg : BodyHolds(i, n, m)
  THEN CHOOSE m \in Msg : BodyHolds(i, n, m)
  ELSE Garbled

HeaderCells(i)  == {HeaderCell(i, k) : k \in 1 .. H}
BodyCells(i, n) == {BodyCell(i, k) : k \in 1 .. n}

(* The cells after a header or a body of m is stored at i.                 *)
WithHeader(i, m) ==
  [c \in 0 .. Q |-> IF c \in HeaderCells(i)
                    THEN <<"header", m, CHOOSE k \in 1 .. H : HeaderCell(i, k) = c>>
                    ELSE cells[c]]
WithBody(i, m) ==
  [c \in 0 .. Q |-> IF c \in BodyCells(i, m.len)
                    THEN <<"body", m, CHOOSE k \in 1 .. m.len : BodyCell(i, k) = c>>
                    ELSE cells[c]]

(* Bytes the consumer has given back belong to no message any more.        *)
Forget(S) == [c \in 0 .. Q |-> IF c \in S THEN Stale ELSE cells[c]]

-----------------------------------------------------------------------------
Init ==
  /\ read = 0 /\ write = 0
  /\ cells = [c \in 0 .. Q |-> Stale]
  /\ ppc = "idle" /\ pmsg = Garbled /\ pwrapped = FALSE
  /\ cpc = "idle" /\ ccap = 0 /\ cwrapped = FALSE /\ cused = 0 /\ clen = 0
  /\ torn = {}
  /\ queue = <<>> /\ delivered = Nothing

-----------------------------------------------------------------------------
(* append: its locals live until it returns.                               *)

AppendReturns == ppc' = "idle" /\ pmsg' = Garbled /\ pwrapped' = FALSE

AppendBegin(m) ==
  /\ ppc = "idle"
  /\ Threads > 1 \/ cpc = "idle"
  /\ pmsg' = m
  /\ pwrapped' = (read > write)
  /\ ppc' = "room"
  /\ UNCHANGED <<shared, cons, torn, hist>>

AppendCheck ==
  /\ ppc = "room"
  /\ torn' = torn \cup (IF pwrapped # (read > write) THEN {"append"} ELSE {})
  /\ IF FreeSize(pwrapped, read, write) < pmsg.len + H
     THEN AppendReturns
     ELSE ppc' = "header" /\ pwrapped' = FALSE /\ UNCHANGED pmsg
  /\ UNCHANGED <<shared, cons, hist>>

AppendHeader ==
  /\ ppc = "header"
  /\ cells' = WithHeader(write, pmsg)
  /\ ppc' = "pubheader"
  /\ UNCHANGED <<read, write, pmsg, pwrapped, cons, torn, hist>>

AppendPublishHeader ==
  /\ ppc = "pubheader"
  /\ write' = AfterHeader(write)
  /\ ppc' = "body"
  /\ UNCHANGED <<read, cells, pmsg, pwrapped, cons, torn, hist>>

AppendBody ==
  /\ ppc = "body"
  /\ cells' = WithBody(write, pmsg)
  /\ ppc' = "pubbody"
  /\ UNCHANGED <<read, write, pmsg, pwrapped, cons, torn, hist>>

AppendPublishBody ==
  /\ ppc = "pubbody"
  /\ write' = AfterBody(write, pmsg.len)
  /\ queue' = Append(queue, pmsg)
  /\ AppendReturns
  /\ UNCHANGED <<read, cells, cons, torn, delivered>>

Producer ==
  \/ \E m \in Msg : AppendBegin(m)
  \/ AppendCheck
  \/ AppendHeader
  \/ AppendPublishHeader
  \/ AppendBody
  \/ AppendPublishBody

-----------------------------------------------------------------------------
(* pop: its locals live until it returns, the comparison and used_size     *)
(* until they have been used.                                              *)

PopReturns ==
  cpc' = "idle" /\ ccap' = 0 /\ cwrapped' = FALSE /\ cused' = 0 /\ clen' = 0

PopBegin(cap) ==
  /\ cpc = "idle"
  /\ Threads > 1 \/ ppc = "idle"
  /\ ccap' = cap
  /\ cwrapped' = (read > write)
  /\ cpc' = "used"
  /\ UNCHANGED <<shared, prod, cused, clen, torn, hist>>

PopUsed ==
  /\ cpc = "used"
  /\ torn' = torn \cup (IF cwrapped # (read > write) THEN {"pop"} ELSE {})
  /\ cused' = UsedSize(cwrapped, read, write)
  /\ cpc' = "length"
  /\ cwrapped' = FALSE
  /\ UNCHANGED <<shared, prod, ccap, clen, hist>>

(* Faulty: the body may be missing                                         *)
PopLength_HeaderOnly ==
  /\ cpc = "length"
  /\ \E n \in LengthsAt(read) :
       IF H > cused \/ n > ccap
       THEN PopReturns
       ELSE cpc' = "header" /\ clen' = n /\ ccap' = 0 /\ cused' = 0
                            /\ UNCHANGED cwrapped
  /\ UNCHANGED <<shared, prod, torn, hist>>

(* Faulty: a message of one byte is never taken                            *)
PopLength_LeavesMinimum ==
  /\ cpc = "length"
  /\ \E n \in LengthsAt(read) :
       IF H + 1 >= cused \/ H + n > cused \/ n > ccap
       THEN PopReturns
       ELSE cpc' = "header" /\ clen' = n /\ ccap' = 0 /\ cused' = 0
                            /\ UNCHANGED cwrapped
  /\ UNCHANGED <<shared, prod, torn, hist>>

PopLength ==
  /\ cpc = "length"
  /\ \E n \in LengthsAt(read) :
       IF H + 1 > cused \/ H + n > cused \/ n > ccap
       THEN PopReturns
       ELSE cpc' = "header" /\ clen' = n /\ ccap' = 0 /\ cused' = 0
                            /\ UNCHANGED cwrapped
  /\ UNCHANGED <<shared, prod, torn, hist>>

PopHeader ==
  /\ cpc = "header"
  /\ read' = AfterHeader(read)
  /\ cells' = Forget(HeaderCells(read))
  /\ cpc' = "body"
  /\ UNCHANGED <<write, prod, ccap, cwrapped, cused, clen, torn, hist>>

PopBody ==
  /\ cpc = "body"
  /\ delivered' = BodyAt(read, clen)
  /\ queue' = IF queue = <<>> THEN queue ELSE Tail(queue)
  /\ cpc' = "release"
  /\ UNCHANGED <<shared, prod, ccap, cwrapped, cused, clen, torn>>

PopRelease ==
  /\ cpc = "release"
  /\ read' = AfterBody(read, clen)
  /\ cells' = Forget(BodyCells(read, clen))
  /\ PopReturns
  /\ UNCHANGED <<write, prod, torn, hist>>

Consumer ==
  \/ \E cap \in Caps : PopBegin(cap)
  \/ PopUsed
  \/ PopLength
  \/ PopHeader
  \/ PopBody
  \/ PopRelease

-----------------------------------------------------------------------------
Next == Producer \/ Consumer

Spec == Init /\ [][Next]_vars

(* The behaviours in which no comparison goes out of date before it is     *)
(* used; all of them when Threads = 1.                                     *)
UntornSpec == Init /\ [][Next /\ torn' = {}]_vars

(* Each service is scheduled again and again: an append or a pop once      *)
(* begun runs to its end, and pop is called with room for any message,     *)
(* although with one worker it has to find the moment when no append runs. *)
Fairness ==
  /\ WF_vars(AppendCheck \/ AppendHeader \/ AppendPublishHeader
             \/ AppendBody \/ AppendPublishBody)
  /\ WF_vars(PopUsed \/ PopLength \/ PopHeader \/ PopBody \/ PopRelease)
  /\ \A cap \in Caps : (\A n \in Lens : n =< cap) => SF_vars(PopBegin(cap))

FairUntornSpec == UntornSpec /\ Fairness

-----------------------------------------------------------------------------
(* Properties.                                                             *)

Indexes == 0 .. Q

Token == {Stale} \cup ({"header", "body"} \X Msg \X (1 .. Q))

(* The state of the two ends and of the ring stays in its types: in        *)
(* particular both indexes stay in 0 .. Q, across every wrap of append and *)
(* pop and even when a torn comparison let them cross.                     *)
TypeOK ==
  /\ read \in Indexes /\ write \in Indexes
  /\ cells \in [Indexes -> Token]
  /\ ppc \in {"idle", "room", "header", "pubheader", "body", "pubbody"}
  /\ pmsg \in Msg \cup {Garbled}
  /\ ppc # "idle" => pmsg \in Msg
  /\ pwrapped \in BOOLEAN
  /\ cpc \in {"idle", "used", "length", "header", "body", "release"}
  /\ ccap \in Caps \cup {0} /\ cwrapped \in BOOLEAN
  /\ cused \in Nat /\ clen \in 0 .. Q
  /\ torn \subseteq {"append", "pop"}
  /\ queue \in Seq(Msg)
  /\ delivered \in Msg \cup {Garbled, Nothing}

(* The bytes from read up to write, whichever way round they lie.          *)
Distance(r, w) == IF r > w THEN Q - r + w ELSE w - r
Unread == Distance(read, write)

(* What the producer has still to publish, the consumer still to copy.     *)
Reserved ==
  CASE ppc \in {"header", "pubheader"} -> H + pmsg.len
    [] ppc \in {"body", "pubbody"}     -> pmsg.len
    [] OTHER                           -> 0
Claimed ==
  CASE cpc = "header"               -> H + clen
    [] cpc \in {"body", "release"}  -> clen
    [] OTHER                        -> 0

(* append goes past its check only when header and body fit in what is     *)
(* free: "not enough room for one message" (msg_queue.cpp:44) returns      *)
(* false.  Stated of behaviours in which no pop went wrong before.         *)
AppendFits == "pop" \notin torn => Unread + Reserved <= N

(* pop goes past its check only when a whole message is published: "not    *)
(* enough to make up one message" (msg_queue.cpp:86) returns false.        *)
(* Stated of behaviours in which no append went wrong before.              *)
PopWhole == "append" \notin torn => Claimed <= Unread

(* The cells each end may touch from its check to its last publication.    *)
WriterCells ==
  CASE ppc \in {"header", "pubheader"} ->
         HeaderCells(write) \cup BodyCells(AfterHeader(write), pmsg.len)
    [] ppc \in {"body", "pubbody"} -> BodyCells(write, pmsg.len)
    [] OTHER -> {}
ReaderCells ==
  CASE cpc = "header" -> HeaderCells(read) \cup BodyCells(AfterHeader(read), clen)
    [] cpc \in {"body", "release"} -> BodyCells(read, clen)
    [] OTHER -> {}

(* The two memcpys never touch the same byte at the same time, although    *)
(* nothing locks the ring: what the room check of append, the size check   *)
(* of pop and the reserve of 2H ("to keep read and write from              *)
(* overlapping", msg_queue.h:26) are there for.                            *)
NoOverlap == torn = {} => WriterCells \cap ReaderCells = {}

(* The same with no such condition: the reserve is there "to keep read and *)
(* write from overlapping".  False with two workers.                       *)
ReserveKeepsApart == WriterCells \cap ReaderCells = {}

(* The strengthening that makes NoOverlap inductive: what both ends have   *)
(* claimed lies within the published bytes and the room, and the used_size *)
(* the consumer computed can only have grown since.  The last conjunct,    *)
(* from the test against min_message_chunk_size, keeps read from reaching  *)
(* 0 while write stands at Q.                                              *)
RoomInv ==
  (torn = {}) => /\ Unread + Reserved <= N
                 /\ Claimed <= Unread
                 /\ (cpc = "length" => cused <= Unread)
                 /\ (cpc = "header" => H + 1 <= Unread)

(* The bytes, header and body, of every message in the queue.              *)
BytesOf(q) == {x \in (1 .. Len(q)) \X (1 .. H + N) : x[2] =< H + q[x[1]].len}
Stored     == Cardinality(BytesOf(queue))

(* append and pop stay inside the memory init was given, which             *)
(* create_segment allocated ("a memory block of size bytes",               *)
(* share_memory.h:26): the producer never writes behind cell Q - 1.        *)
InsideBlock == WriterCells \subseteq 0 .. Q - 1

(* As long as no comparison is torn, what pop copies out of the ring are   *)
(* the messages appended: whole, each once, in order.                      *)
Channel == INSTANCE Fifo
ImplementsFifo == Channel!Spec

(* A pool with one worker never overlaps append and pop, so no comparison  *)
(* is out of date when it is used.                                         *)
NeverTorn == Threads = 1 => torn = {}

(* While no comparison is torn append is exact, with a pop before, after   *)
(* or in the middle of its comparison: unless one is under way when it     *)
(* decides, it takes a message when header and body fit beside what is     *)
(* queued in the queue_size asked of init, and refuses it otherwise.       *)
TakesExactlyWhatFits ==
  [][ppc = "room" /\ ppc' # "room" /\ cpc = "idle" =>
       (ppc' = "header" <=> Stored + H + pmsg.len <= N)]_vars

(* And a receiver that keeps popping, with room for the largest message,   *)
(* gets every message: none is stuck behind a wrap of the ring.            *)
EveryMessagePopped == queue # <<>> ~> cpc = "release"

=============================================================================
