SPECIFICATION Spec
CONSTANTS
  Workers = {w1, w2}
  Slots = {x1, x2, x3, x4}
  NoSession = none
  TimerJob = timerjob
INVARIANTS TypeOK Serving Ticks NobodyLeft
PROPERTIES Ends
\* The server may end.
CHECK_DEADLOCK FALSE
