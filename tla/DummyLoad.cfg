SPECIFICATION MCSpec
CONSTANTS
  Worker = {w1, w2}
  Slots = 10
  Initial = 2
  Requests <- MCRequests
  Ints = 64
INVARIANTS
  EvenlySpread
  NobodySleepsWhenBusy
PROPERTIES
  ThreadsEnd
  Settles
CHECK_DEADLOCK FALSE
