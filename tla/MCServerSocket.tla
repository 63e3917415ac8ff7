--------------------------- MODULE MCServerSocket ---------------------------
(***************************************************************************)
(* Instances of ServerSocket for TLC: two connections and a peer or two    *)
(* more, so that the pool runs out and connections are reused.             *)
(***************************************************************************)
EXTENDS ServerSocket
=============================================================================
