---------------------------- MODULE MCReviewCase ----------------------------
(* ReviewCase on small instances. *)
EXTENDS ReviewCase, TLC

Symmetry == Permutations(Coordinators) \cup Permutations(Checks)
=============================================================================
