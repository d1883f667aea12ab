CONSTANTS
  Threads = {t1, t2}
  Objects = {o1, o2}
  NULL = NULL
  Strategies = {"tls"}
  MaxInstalls = 2
SPECIFICATION Spec
INVARIANT NoUninitialisedUse
CHECK_DEADLOCK FALSE
