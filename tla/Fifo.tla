-------------------------------- MODULE Fifo --------------------------------
(***************************************************************************)
(* What a message channel promises its two ends, whatever the layout of    *)
(* the shared memory behind it: messages come out whole, once, and in the  *)
(* order they were put in.  An append that is refused and a pop that finds *)
(* nothing leave the channel as it is.                                     *)
(***************************************************************************)
EXTENDS Sequences

CONSTANTS
  Msg,       (* the messages a sender may put in                           *)
  Nothing    (* the value of delivered before the first message            *)

VARIABLES
  queue,     (* the messages put in and not taken out yet, oldest first    *)
  delivered  (* the message the receiver got last                          *)

Init == queue = <<>> /\ delivered = Nothing

Send(m) == queue' = Append(queue, m) /\ UNCHANGED delivered

Receive ==
  /\ queue # <<>>
  /\ delivered' = Head(queue)
  /\ queue' = Tail(queue)

Next == Receive \/ \E m \in Msg : Send(m)

Spec == Init /\ [][Next]_<<queue, delivered>>

=============================================================================
