---------------------------- MODULE MCSendBuffer ----------------------------
(***************************************************************************)
(* Instances of SendBuffer: a few bytes of buffer and of kernel.           *)
(***************************************************************************)
EXTENDS SendBuffer

CONSTANTS a, b
=============================================================================
