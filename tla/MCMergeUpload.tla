--------------------------- MODULE MCMergeUpload ---------------------------
(* MergeUpload for TLC: handlers and brains are interchangeable.           *)
EXTENDS MergeUpload, TLC

Symmetry == Permutations(Requests) \cup Permutations(Brains)
=============================================================================
