SPECIFICATION FairSpec
CONSTANTS
  N = 2
  p1 = p1
  p2 = p2
  Producer <- MCProducer
  Submitters <- MCAllSubmit
  Task = {t1, t2, t3, t4, t5}
  NoTask = NoTask
  maxQueue_ = 2
INVARIANTS
  NoLostWakeup
PROPERTIES
  AcceptedRuns
  CallerReturns
  StopReturns
  Implements
CHECK_DEADLOCK FALSE
