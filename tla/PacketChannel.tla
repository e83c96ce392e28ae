--------------------------- MODULE PacketChannel ---------------------------
(***************************************************************************)
(* What the sending half of a session promises: a packet handed over is    *)
(* written to the socket once, and its write completes.                    *)
(***************************************************************************)
CONSTANT Packets

VARIABLE stage

Init == stage = [p \in Packets |-> "new"]

Move(p, from, to) ==
  /\ stage[p] = from
  /\ stage' = [stage EXCEPT ![p] = to]

\* A stream announced before its bytes have been uploaded is "awaited".
Announce(p) == Move(p, "new", "awaited")
Offer(p) == Move(p, "new", "pending") \/ Move(p, "awaited", "pending")
Begin(p) == Move(p, "pending", "inflight")
Finish(p) == Move(p, "inflight", "done")

Next == \E p \in Packets : Announce(p) \/ Offer(p) \/ Begin(p) \/ Finish(p)

Fairness == \A p \in Packets : WF_stage(Begin(p)) /\ WF_stage(Finish(p))

Safe == Init /\ [][Next]_stage
Spec == Safe /\ Fairness
============================================================================
