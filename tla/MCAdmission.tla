---------------------------- MODULE MCAdmission ----------------------------
(* Instances of Admission for TLC.  Goroutines are interchangeable, and so are *)
(* the branches the policy lets through.                                      *)
EXTENDS Admission, TLC

Symmetry == Permutations(Worker) \cup Permutations(Allowed)
=============================================================================
