SPECIFICATION Spec
CONSTANTS
  Sectors = 4
  a = a
  b = b
  Data <- MCData
  Torn = Torn
  Bad = Bad
  MaxBatch = 2
INVARIANTS
  ContinuesInPlace
  ReadyIsSelected
PROPERTY IsBlockDevice
