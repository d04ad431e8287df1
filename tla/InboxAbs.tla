------------------------------ MODULE InboxAbs ------------------------------
(***************************************************************************)
(* What the durable inbox promises for a webhook delivery: once accepted it *)
(* stays pending until it is settled, it is settled one way only, and it is *)
(* forgotten only after it was done.                                        *)
(***************************************************************************)
CONSTANT Delivery

VARIABLE outcome

Init == outcome = [d \in Delivery |-> "unknown"]

Move(S, from, to) ==
  /\ \A d \in S : outcome[d] = from
  /\ outcome' = [d \in Delivery |-> IF d \in S THEN to ELSE outcome[d]]

Accept(d)   == Move({d}, "unknown", "pending")
Complete(d) == Move({d}, "pending", "done")
GiveUp(d)   == Move({d}, "pending", "dead")
Forget(S)   == Move(S, "done", "unknown")

Next ==
  \/ \E d \in Delivery : Accept(d) \/ Complete(d) \/ GiveUp(d)
  \/ \E S \in SUBSET Delivery : Forget(S)

Spec == Init /\ [][Next]_outcome
=============================================================================
