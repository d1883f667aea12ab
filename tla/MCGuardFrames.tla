---------------------------- MODULE MCGuardFrames ----------------------------
(* Small instances of GuardFrames for TLC.                                 *)
EXTENDS GuardFrames, TLC

Symmetry == Permutations(Frames) \cup Permutations(Signals)
=============================================================================
