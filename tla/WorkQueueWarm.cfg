CONSTANTS
  Threads = {t1, t2}
  Units = {u1}
  Queues = {q1}
  NULL = NULL
  Initialized = TRUE
  CreateMayFail = TRUE
  MaxItems = 3
SPECIFICATION Spec
INVARIANTS TypeOK InOrder
PROPERTIES FlushBarrier FlushReturns ImplementsSerialWorkqueue
CHECK_DEADLOCK FALSE
