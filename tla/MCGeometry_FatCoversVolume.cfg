\* Fat32DiskBuilder(size_mb) for sizes past 128 MiB, with the
\* constants of build_disk.py lines 16-19 and 24.
CONSTANTS
  SizesMb <- MCSizesBeyond
  SectorSize = 512
  SectorsPerCluster = 8
  ReservedSectors = 32
  FatCount = 2
  SectorsPerFatFixed = 256
  FatEntryBytes = 4
  NoGeometry = NoGeometry
SPECIFICATION Spec
INVARIANT FatCoversVolume
\* __init__ runs once and returns.
CHECK_DEADLOCK FALSE
