----------------------------- MODULE MCSendPath -----------------------------
(* An instance of SendPath: two workers race in sendPacket with three       *)
(* packets, each of them offered in any of the three ways.                   *)
EXTENDS SendPath
=============================================================================
