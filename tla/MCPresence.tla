----------------------------- MODULE MCPresence -----------------------------
(* Two clients that know each other. *)
EXTENDS Presence, TLC

CONSTANTS a1, a2, s1, s2

On == [hasContacts |-> TRUE, contacts |-> {a1, a2}, tell |-> {a1, a2}, notify |-> TRUE, hasToken |-> TRUE]
Off == [hasContacts |-> FALSE, contacts |-> {}, tell |-> {}, notify |-> FALSE, hasToken |-> FALSE]
MCConfigs == {On, Off}
MCAccounts == {a1, a2}
MCSessions == {s1, s2}
Sym == Permutations(MCAccounts) \cup Permutations(MCSessions)
=============================================================================
