---------------------------- MODULE MCLockOrder ----------------------------
(* Three threads, two sessions and one stream buffer. *)
EXTENDS LockOrder, TLC

Symmetry == Permutations(Threads) \cup Permutations(Sessions)
============================================================================
