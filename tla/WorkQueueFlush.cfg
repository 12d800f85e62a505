CONSTANTS
  Threads = {t1}
  Units = {u1, u2}
  Queues = {q1, q2}
  NULL = NULL
  Initialized = FALSE
  CreateMayFail = FALSE
  MaxItems = 2
SPECIFICATION Spec
PROPERTIES FlushBarrier
CHECK_DEADLOCK FALSE
