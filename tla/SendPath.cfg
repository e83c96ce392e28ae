SPECIFICATION Spec
CONSTANTS
  Workers = {w1, w2}
  Packets = {p1, p2, p3}
  NoPacket = none
INVARIANTS
  ExactlyOnce
  NoStall
  OneAtATime
PROPERTY
  Delivers
\* Everything may have been sent.
CHECK_DEADLOCK FALSE
