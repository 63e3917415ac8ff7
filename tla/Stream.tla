------------------------------- MODULE Stream -------------------------------
(***************************************************************************)
(* What the sending side of a connection promises its caller: the bytes    *)
(* given to the kernel are those of the accepted messages, in order and    *)
(* each once.  A call accepts its message or refuses it, refuses it only   *)
(* when the buffer has no room for it, and loses what is pending only      *)
(* together with the connection.                                           *)
(***************************************************************************)
EXTENDS Naturals, Sequences, SequencesExt

CONSTANTS
  Messages,  (* what may be sent, as sequences of bytes                    *)
  Size       (* how many bytes may wait                                    *)

VARIABLES
  up,        (* the connection is established                              *)
  pending,   (* bytes accepted that the kernel has not taken               *)
  out,       (* bytes the kernel took during the last call                 *)
  ret        (* what the last call returned                                *)

Init == ~up /\ pending = <<>>

Accept(m) == /\ up /\ up' /\ ret' = "success"
             /\ pending \o m = out' \o pending'

Refuse(m) == /\ up /\ up' /\ ret' = "not_enough_buffer"
             /\ pending = out' \o pending'
             /\ Len(pending') + Len(m) > Size

Flush == /\ up /\ up'
         /\ pending = out' \o pending'
         /\ ret' = IF pending' = <<>> THEN "success" ELSE "not_smooth"

Break(m) == /\ up /\ ~up'
            /\ pending' = <<>>
            /\ IsPrefix(out', pending \o m)

Open == ~up /\ up' /\ pending' = <<>>

Next == \/ \E m \in Messages : Accept(m) \/ Refuse(m)
        \/ \E m \in Messages \union {<<>>} : Break(m)
        \/ Flush
        \/ Open

Spec == Init /\ [][Next]_<<up, pending, out, ret>>
=============================================================================
