------------------------ MODULE MCTssAsyncSignalSafe -------------------------
(* Small instances of TssAsyncSignalSafe for TLC.                          *)
EXTENDS TssAsyncSignalSafe, TLC

Symmetry == Permutations(Threads) \cup Permutations(Items)
              \cup Permutations(States) \cup Permutations(Tids)
=============================================================================
