SPECIFICATION Spec
CONSTANTS
  Addr = {1, 2}
  Offsets = {0, 2}
  Intervals = {1}
  MinDelay = 1
  Skews = {2}
  MaxTime = 3
INVARIANT
  ReadSucceeds
CHECK_DEADLOCK FALSE
