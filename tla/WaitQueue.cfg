CONSTANTS
  Waiters = {r1, r2}
  Wakers = {w1}
SPECIFICATION Spec
PROPERTIES WakesUp
CHECK_DEADLOCK FALSE
