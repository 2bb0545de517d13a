-------------------------- MODULE MCBindingReload ---------------------------
(* BindingReload for TLC: profiles, and vaults, are interchangeable.       *)
EXTENDS BindingReload, TLC

Symmetry == Permutations(Profiles) \cup Permutations(Vaults)
=============================================================================
