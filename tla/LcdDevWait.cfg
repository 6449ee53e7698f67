CONSTANTS
  Len = 4
  Depth = 2
SPECIFICATION Spec
INVARIANT WaitEndsWithTransfer
CHECK_DEADLOCK FALSE
