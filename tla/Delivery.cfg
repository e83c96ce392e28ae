SPECIFICATION Spec
CONSTANTS
  Sessions = {s1, s2}
  Accounts = {a, b, c}
  TempIds = {x}
  NoAccount = none
  Requests = {m}
  LoginRunner = login
  MaxLogins = 2
  MaxFaults = 2
INVARIANTS
  NoLoss
  Covered
  PostedOnce
PROPERTY
  KeepsMail
SYMMETRY Symmetry
CHECK_DEADLOCK FALSE
