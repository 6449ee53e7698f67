CONSTANTS
  Len = 4
  Depth = 2
SPECIFICATION Spec
INVARIANTS BusExclusive FrameComplete RowsFitOrientation NoInterruptStorm
PROPERTY TransferEnds
CHECK_DEADLOCK FALSE
