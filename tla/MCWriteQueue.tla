--------------------------- MODULE MCWriteQueue ----------------------------
(* WriteQueue for TLC: tool calls are interchangeable.                     *)
EXTENDS WriteQueue, TLC

Symmetry == Permutations(Writers)
=============================================================================
