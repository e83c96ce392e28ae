SPECIFICATION AccountsSpec
CONSTANTS
  mar = mar  marc = marc  eve = eve
  Registrations = {r1, r2, r3, r4}
  Names = {mar, marc, eve}
  Matches <- Found
  NumWorkers = 2
INVARIANTS AccountsTypeOK FreshAfterReply Collisions
SYMMETRY Symmetry
\* Every request is answered in the end.
CHECK_DEADLOCK FALSE
