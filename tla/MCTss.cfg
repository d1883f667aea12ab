CONSTANTS
  Threads = {t1, t2, t3}
  Tids = {k1, k2}
  GenerationMod = 8
  Items = {i1, i2, i3}
  States = {s1, s2}
  NULL = NULL
  AtexitMayFail = TRUE
  Contract = "quiet"
SPECIFICATION Spec
INVARIANTS TypeOK NoUseAfterFree OwnValue DestroyedOnce NothingLeft
SYMMETRY Symmetry
CHECK_DEADLOCK FALSE
