CONSTANTS
  Threads = {t1, t2, t3, t4}
  Refs = {r1, r2, r3}
  NoThread = NoThread
  IntMax = 3
SPECIFICATION FairSpec
INVARIANTS ReleasedOnce CounterCounts StoresPrecedeRelease
PROPERTIES FinallyReleased
CHECK_DEADLOCK FALSE
