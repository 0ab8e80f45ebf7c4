SPECIFICATION NumbersSpec
CONSTANTS
  Byte = {0, 1}
  Zero = 0
  kCheapPrepend = 2
  kInitialSize = 1
  ExtraSize = 2
  MaxReadable = 3
  Sizes = {1, 2}
INVARIANTS
  AssertsHold
  NumbersKept
PROPERTIES
  Implements
CHECK_DEADLOCK FALSE
