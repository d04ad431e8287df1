-------------------------- MODULE MCDNSOwnership ---------------------------
(* Instances of DNSOwnership for TLC; the branches are interchangeable. *)
EXTENDS DNSOwnership, TLC

Symmetry == Permutations(Owner)
=============================================================================
