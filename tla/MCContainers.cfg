CONSTANTS
  Actors = {a1, a2}
  Signals = {1, 2}
  Containers = {c1, c2, c3}
  Nodes = {n1}
  InstallHandles = {i1, i2}
  DeciderHandles = {d1}
  NULL = NULL
  InitialDisposition <- AllDefault
  DefaultAction <- StopOrIgnore
  TssCreateMayFail = TRUE
  MayAbandon = TRUE
  Discipline = "none"
SPECIFICATION Spec
INVARIANTS TypeOK InstallAccounting DispositionMatchesMap
           LifetimeAccounting LiveWhileHeld
SYMMETRY Symmetry
CHECK_DEADLOCK FALSE
