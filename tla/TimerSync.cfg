CONSTANTS
  Timers = {t1}
  Queues = {q1}
  NULL = NULL
  MaxAdds = 2
SPECIFICATION Spec
INVARIANTS DeletedIsDone
CHECK_DEADLOCK FALSE
