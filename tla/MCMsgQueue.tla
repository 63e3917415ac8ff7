----------------------------- MODULE MCMsgQueue -----------------------------
(***************************************************************************)
(* Instances of MsgQueue for TLC.  The configurations give the constants:  *)
(* a header of two bytes, so that it can be torn and wrap, messages that   *)
(* fit twice, once or not at all, and a ring a few bytes longer than the   *)
(* longest, so that header and body both wrap at every offset.             *)
(***************************************************************************)
EXTENDS MsgQueue
=============================================================================
