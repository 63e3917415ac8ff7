-------------------------- MODULE MCClientService --------------------------
(***************************************************************************)
(* Instances of ClientService for TLC: a client among other holders of     *)
(* descriptors, and two clients and one other holder.                      *)
(***************************************************************************)
EXTENDS ClientService
=============================================================================
