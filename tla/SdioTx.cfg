SPECIFICATION FairSpec
CONSTANT MaxBlocks = 4
INVARIANTS
  WrittenWhenOk
  OwnChecksum
  QuietAfterReturn
PROPERTY RequestsEnd
