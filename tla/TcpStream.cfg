SPECIFICATION FairSpec
CONSTANTS
  Lengths = {1, 3}
  KernelRoom = 2
  MaxBytes = 7
INVARIANTS
  StreamIntact
  ShutAfterOutput
PROPERTIES
  AcceptedArrives
  ShutdownEnds
CHECK_DEADLOCK FALSE
