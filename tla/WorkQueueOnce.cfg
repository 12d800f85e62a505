CONSTANTS
  Threads = {t1, t2}
  Units = {u1}
  Queues = {q1, q2}
  NULL = NULL
  Initialized = FALSE
  CreateMayFail = FALSE
  MaxItems = 2
SPECIFICATION Spec
PROPERTIES InitializedOnce
CHECK_DEADLOCK FALSE
