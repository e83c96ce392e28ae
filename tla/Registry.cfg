SPECIFICATION RegistrySpec
CONSTANTS
  Sessions = {s1, s2, s3}
  Accounts = {a, b}
  TempIds = {x}
  NoAccount = none
INVARIANTS
  Findable
  NoGhost
PROPERTY
  Departs
CHECK_DEADLOCK FALSE
