SPECIFICATION Spec
CONSTANTS
  a1 = a1
  a2 = a2
  s1 = s1
  s2 = s2
  Accounts <- MCAccounts
  Sessions <- MCSessions
  TempIds = {t0}
  NoAccount = NoAccount
  Configs <- MCConfigs
  NoToken = NoToken
INVARIANTS TypeOK Introduced TokenOfUser
CHECK_DEADLOCK FALSE
SYMMETRY Sym
