SPECIFICATION Spec
CONSTANTS
  a1 = a1  a2 = a2  a3 = a3  s1 = s1  s2 = s2  s3 = s3
  Accounts = {a1, a2, a3}
  Sessions = {s1, s2, s3}
  Owner <- OneEach
  Ids = {i1, i2, i3}
  Codes = {c1}
  None = None
  MaxFaults = 0
INVARIANT CodeSpent
\* The clients run out of request ids.
CHECK_DEADLOCK FALSE
