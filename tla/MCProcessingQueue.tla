------------------------- MODULE MCProcessingQueue -------------------------
(* ProcessingQueue on small instances. *)
EXTENDS ProcessingQueue, TLC

Symmetry == Permutations(Workers)
=============================================================================
