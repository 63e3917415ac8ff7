-------------------------- MODULE MCMessageChannel --------------------------
(***************************************************************************)
(* Instances of MessageChannel for TLC.                                    *)
(***************************************************************************)
EXTENDS MessageChannel
=============================================================================
