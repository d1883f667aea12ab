CONSTANTS
  Threads = {t1, t2}
  MaxNesting = 3
  Deliverable = {"outside", "load", "cas", "held"}
SPECIFICATION FairSpec
INVARIANTS TypeOK MutualExclusion LockWord
PROPERTY LockTaken
CHECK_DEADLOCK FALSE
