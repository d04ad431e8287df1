---------------------------- MODULE MCCertCache ----------------------------
(* Instances of CertCache for TLC; goroutines and hosts are interchangeable. *)
EXTENDS CertCache, TLC

Symmetry == Permutations(Caller) \cup Permutations(Host)
=============================================================================
