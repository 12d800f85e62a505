CONSTANTS
  Threads = {t1, t2, t3, t4}
  MayBeNull = {"mutex", "spin", "rm"}
SPECIFICATION FairSpec
INVARIANTS OwnedIfLocked
PROPERTIES CallsReturn
CHECK_DEADLOCK FALSE
