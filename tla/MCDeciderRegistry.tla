-------------------------- MODULE MCDeciderRegistry --------------------------
(* Small instances of DeciderRegistry for TLC.                             *)
EXTENDS DeciderRegistry, TLC

Symmetry == Permutations(Actors) \cup Permutations(Containers)
              \cup Permutations(Nodes) \cup Permutations(InstallHandles)
              \cup Permutations(DeciderHandles)

AllApp == [s \in Signals |-> "app"]
AllDefault == [s \in Signals |-> "SIG_DFL"]
AllIgnore == [s \in Signals |-> "ignore"]
StopOrIgnore == [s \in Signals |-> IF s = 1 THEN "stop" ELSE "ignore"]
AllTerminate == [s \in Signals |-> "terminate"]
=============================================================================
