SPECIFICATION Spec
CONSTANTS
  Lengths = {1, 3}
  KernelRoom = 2
  MaxBytes = 7
INVARIANT
  NothingDropped
CHECK_DEADLOCK FALSE
