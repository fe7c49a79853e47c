CONSTANTS
  NoArg = NoArg
  Missing = Missing
  NoFile = NoFile
  DiskSizeBytes = 100
  SectorSize = 4
  SectorsPerCluster = 2
  ReservedSectors = 7
  NumFats = 2
  BootFatSize = 3
  LayoutFatSize = 3
  FatEntrySize = 1
  DirEntrySize = 1
  MaxElfBytes <- MCMaxElfBytes

SPECIFICATION VSpec

PROPERTY VolumeRefinement

\* main() ends after the zero fill, on sys.exit(1) or on struct.error.
CHECK_DEADLOCK FALSE
