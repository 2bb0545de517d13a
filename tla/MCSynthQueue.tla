---------------------------- MODULE MCSynthQueue ----------------------------
(* SynthQueue for TLC.                                                     *)
EXTENDS SynthQueue, TLC
=============================================================================
