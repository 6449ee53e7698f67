CONSTANTS
  NumDisk = 2
  RequestDrives <- MCRequestDrives
  TRK = 1
  SPT = 2
  Names = {m, n}
  Images = {a, b}
  None = None
  ConfFile = ConfFile
  Data <- MCData
  Torn = Torn
  Absent = Absent
  Blank <- MCBlank
  CloseFails = TRUE
  MaxWrites = 2
SYMMETRY AnyNameAndImage
SPECIFICATION Spec
PROPERTY AcknowledgedIsOnCard
