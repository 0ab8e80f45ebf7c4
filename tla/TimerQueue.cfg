SPECIFICATION MCSpec
CONSTANTS
  Addr = {1, 2}
  Offsets <- MCOffsets
  Intervals = {1}
  MinDelay = 1
  Skews = {2, 4}
  MaxTime = 2
INVARIANTS
  Punctual
  OwnedOnce
  NoDanglingHandle
  ArmedWhilePending
PROPERTIES
  DueIsServed
  Implements
CHECK_DEADLOCK FALSE
