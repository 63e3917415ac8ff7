---------------------------- MODULE MCLoginFlow -----------------------------
(***************************************************************************)
(* Instances of LoginFlow for TLC; the configurations give the constants.  *)
(***************************************************************************)
EXTENDS LoginFlow
=============================================================================
