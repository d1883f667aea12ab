CONSTANTS
  Actors = {a1, a2}
  Signals = {1}
  Containers = {c1}
  Nodes = {n1, n2}
  InstallHandles = {i1}
  DeciderHandles = {d1, d2}
  NULL = NULL
  InitialDisposition <- AllApp
  DefaultAction <- AllTerminate
  TssCreateMayFail = FALSE
  MayAbandon = FALSE
  Discipline = "careful"
SPECIFICATION FairSpec
PROPERTY CallsReturn
CHECK_DEADLOCK FALSE
