---------------------------- MODULE MCEventInbox ----------------------------
(***************************************************************************)
(* Instances of EventInbox for TLC.  Deliveries, pool workers and replay     *)
(* slots are interchangeable.                                               *)
(***************************************************************************)
EXTENDS EventInbox, TLC

Symmetry == Permutations(Delivery) \cup Permutations(Worker) \cup Permutations(Slot)
=============================================================================
