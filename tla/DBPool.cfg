SPECIFICATION Spec
CONSTANTS
  Threads = {t1, t2, t3}
  Connections = {c1, c2, c3}
  NoConnection = none
INVARIANTS
  ExclusiveUse
  PoolSuffices
PROPERTIES
  AcquireReturns
  Refines
\* A thread that got nullptr stops for good.
CHECK_DEADLOCK FALSE
