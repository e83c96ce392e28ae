----------------------------- MODULE MCAccounts -----------------------------
(* Instances of Accounts: two workers and four registrations, so that two    *)
(* overlap and others follow them; "mar" is found in "marc", not the         *)
(* other way round.                                                          *)
EXTENDS Accounts, TLC

CONSTANTS mar, marc, eve

Found == {<<mar, mar>>, <<marc, marc>>, <<eve, eve>>, <<mar, marc>>}

Symmetry == Permutations(Registrations)
=============================================================================
