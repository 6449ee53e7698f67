SPECIFICATION Spec
CONSTANTS
  Images = {img}
  Conf = conf
  NoFile = noFile
  LastCluster = 3
  PerFat = 1
  PerSector = 2
  Data = {a}
  Blank = blank
  MaxFaults = 1
INVARIANTS
  TypeOK
  VolumeSound
  FilesKept
  NoLostClusters
