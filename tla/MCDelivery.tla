----------------------------- MODULE MCDelivery -----------------------------
(* Instances of Delivery: a sender and a recipient, two devices of a        *)
(* recipient whose mail is in the database, or one connection that is used  *)
(* for two recipients of a message in turn, with crashes and failing calls; *)
(* and liveness.                                                            *)
EXTENDS Delivery, TLC

Symmetry == Permutations(Sessions) \cup Permutations(Accounts)
=============================================================================
