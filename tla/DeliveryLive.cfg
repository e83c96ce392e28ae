SPECIFICATION Spec
CONSTANTS
  Sessions = {s1, s2}
  Accounts = {a, b}
  TempIds = {x}
  NoAccount = none
  Requests = {m}
  LoginRunner = login
  MaxLogins = 2
  MaxFaults = 1
PROPERTY
  Offered
CHECK_DEADLOCK FALSE
