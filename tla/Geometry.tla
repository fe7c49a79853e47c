------------------------------ MODULE Geometry ------------------------------
(***************************************************************************)
(* The constructor of Fat32DiskBuilder in src/tools/build_disk.py (lines   *)
(* 13-32): the geometry derived from size_mb, with sectors_per_fat        *)
(* hard-coded rather than computed from the volume, and fat_table sized    *)
(* from it.  Python integers do not overflow, and every value here stays   *)
(* below 2^31 for the sizes checked.                                       *)
(***************************************************************************)
EXTENDS Integers

CONSTANTS
  SizesMb,            \* the size_mb values a caller may pass
  SectorSize,         \* 512
  SectorsPerCluster,  \* 8
  ReservedSectors,    \* 32
  FatCount,           \* 2
  SectorsPerFatFixed, \* the literal 256 of line 24
  FatEntryBytes,      \* 4: one FAT32 entry
  NoGeometry          \* before __init__ has run

ASSUME SizesMb \subseteq Nat \ {0}

(* Mutation: fat_table sized as if each entry took 8 bytes. *)
FatTableLenWide(spf) == (spf * SectorSize) \div (2 * FatEntryBytes)

(* len(fat_table): [0] * (sectors_per_fat * sector_size // 4). *)
FatTableLen(spf) == (spf * SectorSize) \div FatEntryBytes

(* The fields __init__ assigns, for one size_mb. *)
Construct(mb) ==
  LET total == (mb * 1024 * 1024) \div SectorSize
      spf   == SectorsPerFatFixed
  IN [ totalSectors     |-> total,
       sectorsPerFat    |-> spf,
       fatStartSector   |-> ReservedSectors,
       dataStartSector  |-> ReservedSectors + FatCount * spf,
       bytesPerCluster  |-> SectorSize * SectorsPerCluster,
       fatTableLen      |-> FatTableLen(spf),
       nextFreeCluster  |-> 3 ]

VARIABLES
  sizeMb,  \* the argument of Fat32DiskBuilder(size_mb)
  geo      \* NoGeometry, or the fields set by __init__

vars == <<sizeMb, geo>>

Init ==
  /\ sizeMb \in SizesMb
  /\ geo = NoGeometry

New ==
  /\ geo = NoGeometry
  /\ geo' = Construct(sizeMb)
  /\ UNCHANGED sizeMb

Next == New

Spec == Init /\ [][Next]_vars

(* The whole clusters the data area holds, and the highest cluster number  *)
(* in the volume (clusters are numbered from 2).                           *)
DataClusters(g) == (g.totalSectors - g.dataStartSector) \div SectorsPerCluster
LastCluster(g)  == DataClusters(g) + 1

(***************************************************************************)
(* Properties.                                                             *)
(***************************************************************************)
(* Spec 4.1 and 9: sectors_per_fat must be large enough to address every   *)
(* cluster of the volume.  The hard-coded 256 sectors give fat_table one    *)
(* entry per cluster up to the last cluster of the data area, so            *)
(* allocate_cluster's IndexError never fires while the volume has room.    *)
FatCoversVolume ==
  geo # NoGeometry => LastCluster(geo) < geo.fatTableLen

=============================================================================
