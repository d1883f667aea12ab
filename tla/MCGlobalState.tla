---------------------------- MODULE MCGlobalState ----------------------------
(* A small instance of GlobalState for TLC.  Threads and objects are       *)
(* interchangeable where no liveness property is checked.                  *)
EXTENDS GlobalState, TLC

Symmetry == Permutations(Threads) \cup Permutations(Objects)
=============================================================================
