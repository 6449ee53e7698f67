CONSTANTS
  MemSize = 6
  SegSiz = 2
  RomStart = 4
  NumSeg = 2
  Byte = {0, 1}
  Code <- MCCode
  SecSz = 2
  DmaMax = 3
  Selectable <- BanksThatExist
SPECIFICATION Spec
INVARIANTS PointerAgrees ReaderInside SectorNeverWraps
PROPERTY IsAddressSpace
