----------------------------- MODULE BuildDisk -----------------------------
(***************************************************************************)
(* The in-memory FAT32 image builder of src/tools/build_disk.py: the class *)
(* Fat32DiskBuilder and the build sequence of its main().                  *)
(*                                                                         *)
(* The image is kept by region, each region in the unit the code writes it *)
(* in: the boot sector, the FSInfo sector and the backup boot sector       *)
(* (sector 6) as records of their fields, the FAT copies as functions from *)
(* cluster index to entry, the root directory cluster as a sequence of     *)
(* 32-byte slots, and the rest of the data area as a sequence of clusters, *)
(* each a sequence of bytes.  A payload byte is a number naming its file   *)
(* and its offset, so that a byte copied to the wrong place is seen; the   *)
(* code copies bytes without looking at them.  Timestamps and 8.3 name     *)
(* formatting are abstracted: a directory entry's name is the input's id.  *)
(***************************************************************************)
EXTENDS Integers, Sequences, SequencesExt

CONSTANTS
  SizeBytes,          \* size_mb * 1024 * 1024
  SectorSize,         \* 512
  SectorsPerCluster,  \* 8
  ReservedSectors,    \* 32
  FatCount,           \* 2
  SectorsPerFat,      \* 256, hard-coded in __init__
  FatEntrySize,       \* 4: a FAT entry is packed as "<L"
  DirEntrySize,       \* 32
  Inputs,             \* the files main() adds, in the order it adds them
  Local,              \* the inputs added by add_file from a local path
  LiteralSize,        \* byte counts of the payloads main() holds literally
  MaxLocalBytes,      \* bound on the size of a local file
  Missing,            \* a local path that does not exist
  VolumeLabel,        \* the name of the root's volume-label entry
  NoName              \* the name bytes of a zeroed slot

Files == {Inputs[i] : i \in DOMAIN Inputs}

ASSUME /\ Inputs \in Seq(Files) /\ IsInjective(Inputs)
       /\ Local \subseteq Files
       /\ LiteralSize \in [Files \ Local -> Nat]
       /\ MaxLocalBytes \in Nat
       /\ SizeBytes % SectorSize = 0

(* Geometry, computed once in __init__. *)
TotalSectors == SizeBytes \div SectorSize
FatStartSector == ReservedSectors
DataStartSector == FatStartSector + FatCount * SectorsPerFat
BytesPerCluster == SectorSize * SectorsPerCluster
FatEntries == (SectorsPerFat * SectorSize) \div FatEntrySize
RootCluster == 2
DirSlots == BytesPerCluster \div DirEntrySize

(* The last cluster that lies inside the volume. *)
LastCluster == RootCluster - 1 + (TotalSectors - DataStartSector) \div SectorsPerCluster

ASSUME (TotalSectors - DataStartSector) % SectorsPerCluster = 0
ASSUME \A f \in Files \ Local : LiteralSize[f] <= 15
ASSUME MaxLocalBytes <= 15

EOC == 268435455                \* 0x0FFFFFFF
MediaEntry == 268435200 + 248   \* 0x0FFFFF00 | 0xF8
Deleted == 229                  \* 0xE5
ArchiveAttr == 32               \* 0x20
LabelAttr == 8                  \* 0x08

(* Byte k of the payload of input f; 0 is a zero byte. *)
Byte(f, k) == (CHOOSE i \in DOMAIN Inputs : Inputs[i] = f) * 16 + k

(***************************************************************************)
(* Sectors and slots.                                                      *)
(***************************************************************************)
(* Media 0xF8, trail signature 0xAA55 at 510. *)
BootSector ==
  [bytesPerSector |-> SectorSize, sectorsPerCluster |-> SectorsPerCluster,
   reservedSectors |-> ReservedSectors, fatCount |-> FatCount, media |-> 248,
   totalSectors |-> TotalSectors, sectorsPerFat |-> SectorsPerFat,
   rootCluster |-> RootCluster, fsInfoSector |-> 1, backupBootSector |-> 6,
   signature |-> 43605]

(* Signatures 0x41615252 and 0x61417272; the free count 0xFFFFFFFF        *)
(* (unknown) is held as -1, its value read as a signed 32-bit field.      *)
FsInfoSector ==
  [lead |-> 1096897106, struc |-> 1631679090, freeCount |-> -1,
   nextFree |-> 3, trail |-> 43605]

(* A sector of zero bytes, read through the field layout of s. *)
Zeroed(s) == [fld \in DOMAIN s |-> 0]

EmptySlot == [lead |-> 0, name |-> NoName, attr |-> 0, hi |-> 0, lo |-> 0, size |-> 0]

LabelEntry == [EmptySlot EXCEPT !.lead = 1, !.name = VolumeLabel, !.attr = LabelAttr]

ZeroCluster == [j \in 1..BytesPerCluster |-> 0]

VARIABLES
  pc,         \* the step of main() being run
  next,       \* the index in Inputs of the next file to add
  localSize,  \* the size of each local file, or Missing
  fat,        \* self.fat_table
  nextFree,   \* self.next_free_cluster
  boot,       \* disk_image sector 0
  fsinfo,     \* disk_image sector 1
  backup,     \* disk_image sector 6
  fatCopies,  \* the FatCount FAT regions of disk_image
  root,       \* the root directory cluster of disk_image
  data        \* clusters 3.. of disk_image

vars == <<pc, next, localSize, fat, nextFree, boot, fsinfo, backup, fatCopies, root, data>>

SizeOf(f) == IF f \in Local THEN localSize[f] ELSE LiteralSize[f]

(***************************************************************************)
(* Helpers of add_file_to_directory.                                       *)
(***************************************************************************)
ClustersNeeded(sz) == (sz + BytesPerCluster - 1) \div BytesPerCluster

(* Mutation: the last index allowed one past the end of fat_table. *)
FitsInFatPastEnd(n) == nextFree + n - 1 <= FatEntries

(* allocate_cluster can index fat_table for all n clusters of a chain. *)
FitsInFat(n) == nextFree + n - 1 < FatEntries

(* Mutation: the loop links every cluster, the last one included, to the   *)
(* cluster after it.                                                       *)
LinkChainNoEnd(f, first, n) ==
  [c \in DOMAIN f |-> IF c \in first..(first + n - 1) THEN c + 1 ELSE f[c]]

(* The FAT after allocating n clusters from first on and linking each to   *)
(* the one allocated after it; the last keeps allocate_cluster's EOC.      *)
LinkChain(f, first, n) ==
  [c \in DOMAIN f |-> IF c \in first..(first + n - 1)
                        THEN IF c = first + n - 1 THEN EOC ELSE c + 1
                        ELSE f[c]]

Chunk(f, sz, i) ==
  [j \in 1..BytesPerCluster |->
     IF i * BytesPerCluster + j <= sz THEN Byte(f, i * BytesPerCluster + j) ELSE 0]

(* Mutation: cluster_to_sector counting clusters from 3 instead of 2. *)
PutClusterFrom3(d, c, chunk) ==
  LET p == c - RootCluster - 1
  IN IF p <= Len(d) THEN [d EXCEPT ![p] = chunk] ELSE Append(d, chunk)

(* Slice assignment at cluster c's offset: past the end of the bytearray   *)
(* Python appends the chunk instead.                                       *)
PutCluster(d, c, chunk) ==
  LET p == c - RootCluster
  IN IF p <= Len(d) THEN [d EXCEPT ![p] = chunk] ELSE Append(d, chunk)

RECURSIVE WriteClusters(_, _, _, _, _)
WriteClusters(d, f, sz, first, i) ==
  IF i >= ClustersNeeded(sz) THEN d
  ELSE WriteClusters(PutCluster(d, first + i, Chunk(f, sz, i)), f, sz, first, i + 1)

FileEntry(f, first, sz) ==
  [lead |-> 1, name |-> f, attr |-> ArchiveAttr,
   hi |-> first \div 65536, lo |-> first % 65536, size |-> sz]

(* The first slot whose first byte is 0x00 or 0xE5, or 0 if none. *)
FirstFreeSlot(dir) == SelectInSeq(dir, LAMBDA s : s.lead \in {0, Deleted})

(* Mutation: the scan has no break, so e fills every free slot from i on. *)
InsertEntryNoBreak(dir, i, e) ==
  [j \in DOMAIN dir |-> IF j >= i /\ dir[j].lead \in {0, Deleted} THEN e ELSE dir[j]]

(* Write entry e into slot i, then zero the first byte of the next slot    *)
(* unless it is a deleted entry.                                           *)
InsertEntry(dir, i, e) ==
  LET d == [dir EXCEPT ![i] = e]
  IN IF i < DirSlots /\ d[i + 1].lead # Deleted
       THEN [d EXCEPT ![i + 1].lead = 0]
       ELSE d

(***************************************************************************)
(* The build, in the order main() runs it.                                 *)
(***************************************************************************)
Init ==
  /\ pc = "boot"
  /\ next = 1
  /\ localSize \in [Local -> (0..MaxLocalBytes) \union {Missing}]
  /\ fat = [c \in 0..(FatEntries - 1) |-> 0]
  /\ nextFree = 3
  /\ boot = Zeroed(BootSector)
  /\ fsinfo = Zeroed(FsInfoSector)
  /\ backup = Zeroed(BootSector)
  /\ fatCopies = [k \in 1..FatCount |-> [c \in 0..(FatEntries - 1) |-> 0]]
  /\ root = [i \in 1..DirSlots |-> EmptySlot]
  /\ data = [p \in 1..(LastCluster - RootCluster) |-> ZeroCluster]

Step(from, to) == pc = from /\ pc' = to

CreateBootSector ==
  /\ Step("boot", "fsinfo")
  /\ boot' = BootSector
  /\ UNCHANGED <<next, localSize, fat, nextFree, fsinfo, backup, fatCopies, root, data>>

CreateFsinfo ==
  /\ Step("fsinfo", "initfat")
  /\ fsinfo' = FsInfoSector
  /\ UNCHANGED <<next, localSize, fat, nextFree, boot, backup, fatCopies, root, data>>

InitializeFat ==
  /\ Step("initfat", "root")
  /\ fat' = [fat EXCEPT ![0] = MediaEntry, ![1] = EOC, ![RootCluster] = EOC]
  /\ UNCHANGED <<next, localSize, nextFree, boot, fsinfo, backup, fatCopies, root, data>>

CreateRootDirectory ==
  /\ Step("root", "files")
  /\ root' = [i \in 1..DirSlots |-> IF i = 1 THEN LabelEntry ELSE EmptySlot]
  /\ UNCHANGED <<next, localSize, fat, nextFree, boot, fsinfo, backup, fatCopies, data>>

(* An exception ends the process: nothing is saved. *)
Abort ==
  /\ pc' = "failed"
  /\ UNCHANGED <<next, localSize, fat, nextFree, boot, fsinfo, backup, fatCopies, root, data>>

(* add_file_to_directory(f, payload of sz bytes) into the root. *)
AddFileToDirectory(f, sz) ==
  LET n     == ClustersNeeded(sz)
      first == IF sz > 0 THEN nextFree ELSE 0
      slot  == FirstFreeSlot(root)
  IN
  /\ pc = "files"
  /\ \/ \* allocate_cluster indexes past the end of fat_table: IndexError
        /\ sz > 0 /\ ~FitsInFat(n)
        /\ Abort
     \/ \* no free slot in the directory cluster
        /\ sz = 0 \/ FitsInFat(n)
        /\ slot = 0
        /\ Abort
     \/ /\ sz = 0 \/ FitsInFat(n)
        /\ slot # 0
        /\ fat' = LinkChain(fat, first, n)
        /\ nextFree' = nextFree + n
        /\ data' = WriteClusters(data, f, sz, first, 0)
        /\ root' = InsertEntry(root, slot, FileEntry(f, first, sz))
        /\ next' = next + 1
        /\ UNCHANGED <<pc, localSize, boot, fsinfo, backup, fatCopies>>

(* add_file(local_path, f): a missing path is skipped. *)
AddFile(f) ==
  \/ /\ pc = "files"
     /\ localSize[f] = Missing
     /\ next' = next + 1
     /\ UNCHANGED <<pc, localSize, fat, nextFree, boot, fsinfo, backup, fatCopies, root, data>>
  \/ /\ localSize[f] # Missing
     /\ AddFileToDirectory(f, localSize[f])

(* The next input of main(): a local path or a literal payload. *)
AddInput ==
  /\ next <= Len(Inputs)
  /\ \/ Inputs[next] \in Local /\ AddFile(Inputs[next])
     \/ Inputs[next] \notin Local /\ AddFileToDirectory(Inputs[next], LiteralSize[Inputs[next]])

WriteFatTables ==
  /\ Step("files", "save")
  /\ next > Len(Inputs)
  /\ fatCopies' = [k \in 1..FatCount |-> fat]
  /\ UNCHANGED <<next, localSize, fat, nextFree, boot, fsinfo, backup, root, data>>

(* save(): the image as it is in memory is written to the output file. *)
Save ==
  /\ Step("save", "done")
  /\ UNCHANGED <<next, localSize, fat, nextFree, boot, fsinfo, backup, fatCopies, root, data>>

Next ==
  \/ CreateBootSector
  \/ CreateFsinfo
  \/ InitializeFat
  \/ CreateRootDirectory
  \/ AddInput
  \/ WriteFatTables
  \/ Save

Spec == Init /\ [][Next]_vars

(***************************************************************************)
(* How a FAT32 reader sees the image: an entry's first cluster from its    *)
(* two halves, the chain from a FAT copy, the bytes from the data area.    *)
(***************************************************************************)
FirstClusterOf(e) == e.hi * 65536 + e.lo

IsEndOfChain(v) == v >= 268435448   \* 0x0FFFFFF8

RECURSIVE Walk(_, _, _)
Walk(fc, c, fuel) ==
  IF c \notin DOMAIN fc \/ fuel = 0 THEN <<c>>
  ELSE <<c>> \o (IF IsEndOfChain(fc[c]) THEN <<>> ELSE Walk(fc, fc[c], fuel - 1))

ChainOf(fc, e) == IF e.size = 0 THEN <<>> ELSE Walk(fc, FirstClusterOf(e), FatEntries)

(* The bytes at cluster c of the image file; -1 where the file has none. *)
ClusterBytes(c) ==
  IF c - RootCluster \in 1..Len(data) THEN data[c - RootCluster]
  ELSE [j \in 1..BytesPerCluster |-> -1]

ReadFile(fc, e) ==
  LET ch == ChainOf(fc, e) IN FlattenSeq([j \in DOMAIN ch |-> ClusterBytes(ch[j])])

FileSlots == {i \in 1..DirSlots : root[i].lead \notin {0, Deleted} /\ root[i].attr = ArchiveAttr}

(* The inputs added so far, in order: missing local paths are skipped. *)
Added == SelectSeq(SubSeq(Inputs, 1, next - 1), LAMBDA f : SizeOf(f) # Missing)

(***************************************************************************)
(* Properties.                                                             *)
(***************************************************************************)
Slot == [lead : {0, Deleted, 1}, name : Files \union {VolumeLabel, NoName},
         attr : {0, LabelAttr, ArchiveAttr}, hi : Nat, lo : 0..65535, size : Nat]

TypeOK ==
  /\ pc \in {"boot", "fsinfo", "initfat", "root", "files", "save", "done", "failed"}
  /\ next \in 1..(Len(Inputs) + 1)
  /\ localSize \in [Local -> (0..MaxLocalBytes) \union {Missing}]
  /\ fat \in [0..(FatEntries - 1) -> 0..EOC]
  /\ nextFree \in 3..FatEntries
  /\ fatCopies \in [1..FatCount -> [0..(FatEntries - 1) -> 0..EOC]]
  /\ root \in [1..DirSlots -> Slot]
  /\ data \in Seq([1..BytesPerCluster -> Nat])

(* Directory scan of add_file_to_directory: after every add, the root      *)
(* holds the volume label and then exactly one entry per file added so     *)
(* far, in the order main() added them, with its size; no entry is         *)
(* overwritten, lost or written twice, and the slots after them are free.  *)
DirectoryListsAddedFiles ==
  pc \in {"files", "save", "done"} =>
    /\ root[1] = LabelEntry
    /\ \A i \in 2..DirSlots :
         IF i - 1 <= Len(Added)
           THEN /\ root[i].lead = 1 /\ root[i].attr = ArchiveAttr
                /\ root[i].name = Added[i - 1]
                /\ root[i].size = SizeOf(Added[i - 1])
           ELSE root[i].lead = 0

ClusterOwnership ==
  pc = "done" =>
    LET Owned == UNION {Range(ChainOf(fatCopies[1], root[i])) : i \in FileSlots}
    IN /\ \A i, j \in FileSlots :
            i # j => Range(ChainOf(fatCopies[1], root[i]))
                       \cap Range(ChainOf(fatCopies[1], root[j])) = {}
       /\ \A i \in FileSlots :
            LET ch == ChainOf(fatCopies[1], root[i])
            IN \A j \in 1..(Len(ch) - 1) : ch[j] < ch[j + 1]
       /\ \A c \in (RootCluster + 1)..(FatEntries - 1) :
            fatCopies[1][c] # 0 <=> c \in Owned

(* The builder is append-only: no step but a failing one changes a FAT     *)
(* entry already set, a data cluster already allocated, or a directory     *)
(* slot already in use.                                                    *)
WrittenStateStable ==
  [][pc' # "failed" =>
       /\ \A c \in DOMAIN fat : fat[c] # 0 => fat'[c] = fat[c]
       /\ \A p \in 1..Len(data) : p + RootCluster < nextFree => data'[p] = data[p]
       /\ \A i \in 1..DirSlots : root[i].lead # 0 => root'[i] = root[i]]_vars

(* Spec 4.2: the boot sector is written identically at sector 0 and at    *)
(* its backup location, sector 6, which the BPB names.                     *)
BackupBootSectorMatches == pc = "done" => backup = boot

(* Spec 6: the image file is exactly totalSectors * bytesPerSector bytes,  *)
(* however many files were added.                                          *)
ImageBytes == DataStartSector * SectorSize + BytesPerCluster * (1 + Len(data))

ImageSizeExact == pc = "done" => ImageBytes = TotalSectors * SectorSize

=============================================================================
