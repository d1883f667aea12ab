CONSTANTS
  Actors = {a1, a2, a3}
  Signals = {1}
  Containers = {c1, c2}
  Nodes = {n1, n2}
  InstallHandles = {i1}
  DeciderHandles = {d1, d2}
  NULL = NULL
  InitialDisposition <- AllApp
  DefaultAction <- AllIgnore
  TssCreateMayFail = FALSE
  MayAbandon = TRUE
  Discipline = "careful"
SPECIFICATION Spec
INVARIANTS NoUseAfterFree NoLeak NodeRefAccounting RaiseComplete
PROPERTY NoDeciderTwice
SYMMETRY Symmetry
