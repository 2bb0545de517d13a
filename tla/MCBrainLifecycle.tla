-------------------------- MODULE MCBrainLifecycle --------------------------
EXTENDS BrainLifecycle, TLC

Symmetry == Permutations(Procs) \cup Permutations(Uuids)
=============================================================================
