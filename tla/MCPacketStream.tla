--------------------------- MODULE MCPacketStream ---------------------------
(***************************************************************************)
(* Instances of PacketStream: packets as PacketEncoder makes them, bytes   *)
(* of 16 values, and a buffer that one packet fills exactly, by the size   *)
(* in its header, while the longest is decoded as longer than any buffer.  *)
(***************************************************************************)
EXTENDS PacketStream
=============================================================================
