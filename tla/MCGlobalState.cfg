CONSTANTS
  Threads = {t1, t2}
  Objects = {o1, o2}
  NULL = NULL
  Strategies = {"tls", "tss"}
  MaxInstalls = 2
SPECIFICATION FairSpec
INVARIANTS TypeOK StateWhileUsed InstalledHasState NothingLost InitialisedOnce
PROPERTY WaitersPass
CHECK_DEADLOCK FALSE
