CONSTANTS
  Timers = {t1, t2}
  Queues = {q1, q2}
  NULL = NULL
  MaxAdds = 2
SPECIFICATION FairSpec
INVARIANTS InitGivesSource SerialUnlessRaced FiresOncePerAdd
PROPERTIES QuietAfterDelete AddedFires
CHECK_DEADLOCK FALSE
