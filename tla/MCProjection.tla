---------------------------- MODULE MCProjection ----------------------------
(* Projection for TLC: handlers and River workers are interchangeable.     *)
EXTENDS Projection, TLC

Symmetry == Permutations(Txs) \cup Permutations(Workers)
=============================================================================
