SPECIFICATION Spec
CONSTANTS
  Threads = {t1, t2, t3}
  Sessions = {s1, s2}
  Buffers = {b1}
  Server = server
  None = none
INVARIANT NoCircularWait
SYMMETRY Symmetry
