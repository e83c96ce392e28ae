------------------------- MODULE MCSessionRegistry -------------------------
(* Instances of SessionRegistry: three connections, two accounts, and one   *)
(* temporary id, so that temporary ids collide as well.                     *)
EXTENDS SessionRegistry
============================================================================
