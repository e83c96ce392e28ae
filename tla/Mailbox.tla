------------------------------ MODULE Mailbox ------------------------------
(***************************************************************************)
(* What the server promises about a stored request, whatever connections,  *)
(* devices and restarts do: it stays in the store until its recipient      *)
(* confirms it or a party to it withdraws it.  A copy that a session took  *)
(* along to another account may be confirmed at the expense of that        *)
(* account's copy.                                                         *)
(***************************************************************************)
CONSTANTS Requests, Accounts

VARIABLES box, put, confirmed, withdrawn, taken

Docs == Requests \X Accounts
mail == <<box, put, confirmed, withdrawn, taken>>

Init ==
  /\ box \in SUBSET Docs /\ put = box
  /\ confirmed = {} /\ withdrawn = {} /\ taken = {}

Put(d) ==
  /\ d \notin put
  /\ put' = put \cup {d} /\ box' = box \cup {d}
  /\ UNCHANGED <<confirmed, withdrawn, taken>>

\* Take(D): a session that has the copies D in hand changes its account.
Take(D) ==
  /\ D \subseteq put
  /\ taken' = taken \cup D
  /\ UNCHANGED <<box, put, confirmed, withdrawn>>

\* A second device may confirm what is no longer there, and a confirmed copy
\* stays when its delete fails.
Confirm(d) ==
  /\ d \in put
  /\ confirmed' = confirmed \cup {d}
  /\ \/ box' \in {box, box \ {d}}
     \/ /\ d \in taken
        /\ \E a \in Accounts : box' = box \ {<<d[1], a>>}
  /\ UNCHANGED <<put, withdrawn, taken>>

Withdraw(d) ==
  /\ d \in box
  /\ box' = box \ {d}
  /\ withdrawn' = withdrawn \cup {d}
  /\ UNCHANGED <<put, confirmed, taken>>

Next ==
  \/ \E d \in Docs : Put(d) \/ Confirm(d) \/ Withdraw(d)
  \/ \E D \in SUBSET Docs : Take(D)

Spec == Init /\ [][Next]_mail
============================================================================
