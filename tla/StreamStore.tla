---------------------------- MODULE StreamStore ----------------------------
(***************************************************************************)
(* What the stream buffers promise: the parts of an upload are added to    *)
(* the end of its resource in their order, and a download is handed the    *)
(* parts of its resource one after another, from the first, none twice and *)
(* none before it is stored.  Neither ever loses a part.                   *)
(***************************************************************************)
EXTENDS Naturals, Sequences, FiniteSets

CONSTANTS Ids, Uploads, Downloads, Target, Parts

VARIABLES
  stored,  \* the parts of each resource, pairs <<upload, number>>
  got      \* the parts each download was handed

Init ==
  /\ stored = [id \in Ids |-> <<>>]
  /\ got = [d \in Downloads |-> <<>>]

PartsOf(u) == {i \in 1 .. Len(stored[Target[u]]) : stored[Target[u]][i][1] = u}

Store(u) ==
  LET k == Cardinality(PartsOf(u)) + 1
  IN /\ k <= Parts
     /\ stored' = [stored EXCEPT ![Target[u]] = Append(@, <<u, k>>)]
     /\ UNCHANGED got

Hand(d) ==
  LET source == stored[Target[d]]
      k == Len(got[d]) + 1
  IN /\ k <= Len(source)
     /\ got' = [got EXCEPT ![d] = Append(@, source[k])]
     /\ UNCHANGED stored

Next == (\E u \in Uploads : Store(u)) \/ (\E d \in Downloads : Hand(d))

Spec == Init /\ [][Next]_<<stored, got>>
=============================================================================
