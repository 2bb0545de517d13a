-------------------------- MODULE MCWorkingMemory --------------------------
(* WorkingMemory for TLC: processes, pids and calls are interchangeable.   *)
EXTENDS WorkingMemory, TLC

Symmetry == Permutations(Sessions) \cup Permutations(Pids) \cup Permutations(Calls)
=============================================================================
