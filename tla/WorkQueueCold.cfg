CONSTANTS
  Threads = {t1, t2}
  Units = {u1}
  Queues = {q1, q2}
  NULL = NULL
  Initialized = FALSE
  CreateMayFail = TRUE
  MaxItems = 3
SPECIFICATION Spec
INVARIANTS ItemsConserved CrashNeedsFailure
PROPERTIES FlushSkipsNothing FlushClearsQueue WorkGetsDone
CHECK_DEADLOCK FALSE
