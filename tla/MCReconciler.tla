---------------------------- MODULE MCReconciler ----------------------------
(* Instances of Reconciler for TLC. *)
EXTENDS Reconciler, TLC

Symmetry == Permutations(Task) \cup Permutations(Event) \cup Permutations(Artifact)
=============================================================================
