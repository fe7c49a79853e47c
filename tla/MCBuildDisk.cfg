CONSTANTS
  Kernel = Kernel
  Extra = Extra
  Config = Config
  Readme = Readme
  Missing = Missing
  VolumeLabel = VolumeLabel
  NoName = NoName
  SizeBytes = 60
  SectorSize = 4
  SectorsPerCluster = 1
  ReservedSectors = 7
  FatCount = 2
  SectorsPerFat = 2
  FatEntrySize = 1
  DirEntrySize = 1
  MaxLocalBytes = 9
  Inputs <- MCInputs
  Local <- MCLocal
  LiteralSize <- MCLiteralSize

SPECIFICATION Spec

INVARIANT TypeOK
INVARIANT DirectoryListsAddedFiles
 
INVARIANT ClusterOwnership
PROPERTY WrittenStateStable

\* main() ends after save() or on the first exception.
CHECK_DEADLOCK FALSE
