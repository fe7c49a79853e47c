-------------------------- MODULE CreateDiskFixed --------------------------
(***************************************************************************)
(* The streaming FAT32 image writer of src/tools/create_disk_fixed.py.     *)
(*                                                                         *)
(* main() writes the image front to back with f.write calls and never      *)
(* seeks, so the output file is modelled as the sequence of sectors        *)
(* written so far.  Each sector is a record in the unit its writer fills   *)
(* it in: the boot and FSInfo sectors as records of their fields, a FAT    *)
(* sector as a sequence of entries, a directory sector as a sequence of    *)
(* 32-byte slots, and any other sector as a sequence of bytes.  Byte k of  *)
(* the ELF is the number k, so a byte read from the wrong place is seen.   *)
(* Timestamps, the OEM name, the volume id and label are left out.         *)
(***************************************************************************)
EXTENDS Integers, Sequences, SequencesExt

CONSTANTS
  DiskSizeBytes,      \* DISK_SIZE_MB * 1024 * 1024
  SectorSize,         \* BYTES_PER_SECTOR, 512
  SectorsPerCluster,  \* SECTORS_PER_CLUSTER, 8
  ReservedSectors,    \* RESERVED_SECTORS, 32
  NumFats,            \* NUM_FATS, 2
  BootFatSize,        \* fat_size = 160 in create_boot_sector
  LayoutFatSize,      \* fat_size = 160 in main
  FatEntrySize,       \* 4: a FAT entry is packed as "<I"
  DirEntrySize,       \* 32
  MaxElfBytes,        \* bound on the size of the ELF file
  NoArg,              \* no elf_file argument was given
  Missing,            \* elf_file names no regular file
  NoFile              \* the output file has not been opened

(* Geometry. *)
BytesPerCluster == SectorsPerCluster * SectorSize
TotalSectors == DiskSizeBytes \div SectorSize
FatEntries == (LayoutFatSize * SectorSize) \div FatEntrySize
EntriesPerSector == SectorSize \div FatEntrySize
SlotsPerSector == SectorSize \div DirEntrySize
SlotsPerCluster == BytesPerCluster \div DirEntrySize

ASSUME /\ DiskSizeBytes % SectorSize = 0
       /\ ReservedSectors > 6 /\ SlotsPerCluster >= 5 /\ FatEntries > 6

EOC == 268435455                \* 0x0FFFFFFF
MediaEntry == 268435448         \* 0x0FFFFFF8
DirAttr == 16                   \* 0x10
FileAttr == 32                  \* 0x20

(***************************************************************************)
(* Sectors and slots.                                                      *)
(***************************************************************************)
(* Mutation: the BPB's FAT size from the formula in the comment above      *)
(* line 55, smaller than the fat_size main() lays the FATs out with.       *)
BootSectorSmallFat ==
  [bytesPerSector |-> SectorSize, sectorsPerCluster |-> SectorsPerCluster,
   reservedSectors |-> ReservedSectors, fatCount |-> NumFats, media |-> 248,
   totalSectors |-> TotalSectors, sectorsPerFat |-> BootFatSize - 1,
   rootCluster |-> 2, fsInfoSector |-> 1, backupBootSector |-> 6,
   signature |-> 43605]

(* create_boot_sector: the BPB fields a reader uses; media 0xF8, trail     *)
(* signature 0xAA55 at 510.                                                *)
BootSector ==
  [bytesPerSector |-> SectorSize, sectorsPerCluster |-> SectorsPerCluster,
   reservedSectors |-> ReservedSectors, fatCount |-> NumFats, media |-> 248,
   totalSectors |-> TotalSectors, sectorsPerFat |-> BootFatSize,
   rootCluster |-> 2, fsInfoSector |-> 1, backupBootSector |-> 6,
   signature |-> 43605]

(* create_fsinfo: signatures 0x41615252, 0x61417272 and 0xAA550000; the    *)
(* free count 0xFFFFFFFF is held as -1, its value as a signed field.       *)
FsInfoSector ==
  [lead |-> 1096897106, struc |-> 1631679090, freeCount |-> -1,
   nextFree |-> 2, trail |-> -1437270016]

ZeroSector == [bytes |-> [j \in 1..SectorSize |-> 0]]

EmptySlot == [lead |-> 0, name |-> "", attr |-> 0, hi |-> 0, lo |-> 0, size |-> 0]

(* cells cut into consecutive runs of w. *)
Cut(cells, w) == [s \in 1..(Len(cells) \div w) |-> SubSeq(cells, (s - 1) * w + 1, s * w)]

(***************************************************************************)
(* create_fat: the FAT as a function from cluster to entry; FatOverflows  *)
(* when pack_into is asked for an entry past the end of the buffer.        *)
(***************************************************************************)
ClustersNeeded(sz) == (sz + BytesPerCluster - 1) \div BytesPerCluster

ElfChain(sz) == IF sz > 0 THEN 6..(5 + ClustersNeeded(sz)) ELSE {}

(* The loop reaches a cluster_idx * 4 past the end of the bytearray. *)
FatOverflows(sz) == sz > 0 /\ 5 + ClustersNeeded(sz) >= FatEntries

CreateFat(sz) ==
  [c \in 0..(FatEntries - 1) |->
     CASE c = 0              -> MediaEntry
       [] c \in 1..5         -> EOC
       [] c \in ElfChain(sz) -> IF c = 5 + ClustersNeeded(sz) THEN EOC ELSE c + 1
       [] OTHER              -> 0]

FatSectors(t) ==
  LET cut == Cut([j \in 1..FatEntries |-> t[j - 1]], EntriesPerSector)
  IN [s \in DOMAIN cut |-> [fat |-> cut[s]]]

(***************************************************************************)
(* Directory clusters.                                                     *)
(***************************************************************************)
(* create_directory_entry: the name padded or cut to 11 characters; the    *)
(* cluster split into its high and low 16-bit halves.                      *)
DirectoryEntry(name, attr, cluster, size) ==
  [lead |-> 1, name |-> name, attr |-> attr,
   hi |-> (cluster \div 65536) % 65536, lo |-> cluster % 65536, size |-> size]

(* A cluster whose first slots are entries and the rest zero bytes, as the *)
(* sectors it is written in.                                               *)
DirCluster(entries) ==
  LET slots == [j \in 1..SlotsPerCluster |->
                  IF j <= Len(entries) THEN entries[j] ELSE EmptySlot]
      cut == Cut(slots, SlotsPerSector)
  IN [s \in DOMAIN cut |-> [slots |-> cut[s]]]

RootDirectory ==
  DirCluster(<<DirectoryEntry(".", DirAttr, 2, 0), DirectoryEntry("..", DirAttr, 0, 0),
               DirectoryEntry("INIT", DirAttr, 3, 0), DirectoryEntry("BIN", DirAttr, 4, 0),
               DirectoryEntry("RUN", DirAttr, 5, 0)>>)

(* Mutation: the SHELL entry written whatever the ELF size. *)
InitDirectoryAlways(sz) ==
  DirCluster(<<DirectoryEntry(".", DirAttr, 3, 0), DirectoryEntry("..", DirAttr, 2, 0),
               DirectoryEntry("SHELL", FileAttr, 6, sz)>>)

InitDirectory(sz) ==
  DirCluster(<<DirectoryEntry(".", DirAttr, 3, 0), DirectoryEntry("..", DirAttr, 2, 0)>>
             \o (IF sz > 0 THEN <<DirectoryEntry("SHELL", FileAttr, 6, sz)>> ELSE <<>>))

EmptyDirectory(c) ==
  DirCluster(<<DirectoryEntry(".", DirAttr, c, 0), DirectoryEntry("..", DirAttr, 2, 0)>>)

(* Mutation: elf_data written without its padding; the last sector is     *)
(* short.                                                                  *)
ElfSectorsUnpadded(sz) ==
  [s \in 1..((sz + SectorSize - 1) \div SectorSize) |->
     [bytes |-> [j \in 1..(IF s * SectorSize <= sz THEN SectorSize ELSE sz % SectorSize) |->
                   (s - 1) * SectorSize + j]]]

(* The ELF padded with zeros to whole clusters, as sectors. *)
ElfSectors(sz) ==
  LET cut == Cut([j \in 1..(ClustersNeeded(sz) * BytesPerCluster) |->
                    IF j <= sz THEN j ELSE 0], SectorSize)
  IN [s \in DOMAIN cut |-> [bytes |-> cut[s]]]

(***************************************************************************)
(* main(), one action per step of the writer.                              *)
(***************************************************************************)
VARIABLES
  pc,      \* the step of main() being run
  elfArg,  \* NoArg, Missing, or the size of the ELF file named by argv[2]
  out      \* NoFile, or the sectors written to the output file so far

vars == <<pc, elfArg, out>>

(* elf_size: len(elf_data) for an ELF that was loaded, 0 otherwise. *)
ElfSize == IF elfArg \in Nat THEN elfArg ELSE 0

Init ==
  /\ pc = "load"
  /\ elfArg \in {NoArg, Missing} \union 0..MaxElfBytes
  /\ out = NoFile

Step(from, to) == pc = from /\ pc' = to

(* An ELF path that is not a file ends the process before the output file  *)
(* is opened.                                                              *)
LoadElf ==
  /\ \/ elfArg = Missing /\ Step("load", "exit")
     \/ elfArg # Missing /\ Step("load", "open")
  /\ UNCHANGED <<elfArg, out>>

(* open(output_file, 'wb') creates or truncates the file. *)
OpenOutput ==
  /\ Step("open", "boot")
  /\ out' = <<>>
  /\ UNCHANGED elfArg

WriteBootSector ==
  /\ Step("boot", "fsinfo")
  /\ out' = Append(out, BootSector)
  /\ UNCHANGED elfArg

WriteFsinfo ==
  /\ Step("fsinfo", "reserved")
  /\ out' = Append(out, FsInfoSector)
  /\ UNCHANGED elfArg

(* Sectors 2 .. RESERVED_SECTORS - 1: the backup boot sector at 6, zeros   *)
(* elsewhere.                                                              *)
WriteReservedSectors ==
  /\ Step("reserved", "fat")
  /\ out' = out \o [i \in 1..(ReservedSectors - 2) |->
                      IF i + 1 = 6 THEN BootSector ELSE ZeroSector]
  /\ UNCHANGED elfArg

(* create_fat, then NUM_FATS copies of it; struct.error leaves the file    *)
(* as written so far when the with block closes it.                        *)
WriteFatTables ==
  /\ pc = "fat"
  /\ \/ /\ FatOverflows(ElfSize)
        /\ pc' = "failed"
        /\ UNCHANGED out
     \/ /\ ~FatOverflows(ElfSize)
        /\ pc' = "dirs"
        /\ out' = out \o FlattenSeq([k \in 1..NumFats |-> FatSectors(CreateFat(ElfSize))])
  /\ UNCHANGED elfArg

(* Clusters 2 to 5: root, /init, /bin, /run. *)
WriteDirectories ==
  /\ Step("dirs", "elf")
  /\ out' = out \o RootDirectory \o InitDirectory(ElfSize)
                \o EmptyDirectory(4) \o EmptyDirectory(5)
  /\ UNCHANGED elfArg

(* if elf_data: only a non-empty ELF is written, padded to whole clusters. *)
WriteElf ==
  /\ Step("elf", "fill")
  /\ out' = IF ElfSize > 0 THEN out \o ElfSectors(ElfSize) ELSE out
  /\ UNCHANGED elfArg

(* Zeros up to total_sectors * 512 bytes, when the file is shorter; the    *)
(* split into 1 MiB chunks and a last chunk writes the same bytes.         *)
FillRest ==
  /\ Step("fill", "done")
  /\ LET remaining == TotalSectors - Len(out)
     IN out' = IF remaining > 0
                 THEN out \o [i \in 1..remaining |-> ZeroSector]
                 ELSE out
  /\ UNCHANGED elfArg

Next ==
  \/ LoadElf
  \/ OpenOutput
  \/ WriteBootSector
  \/ WriteFsinfo
  \/ WriteReservedSectors
  \/ WriteFatTables
  \/ WriteDirectories
  \/ WriteElf
  \/ FillRest

Spec == Init /\ [][Next]_vars

(***************************************************************************)
(* How a FAT32 reader sees the output file: the geometry from the BPB in   *)
(* sector 0, FAT entries from the FAT regions it names, directories and    *)
(* files from the data area it implies.  The reader sees only the volume  *)
(* the BPB describes, its first totalSectors sectors: a sector past it,    *)
(* one the file does not have, or one of another kind, reads as -1 bytes   *)
(* and unusable slots.                                                     *)
(***************************************************************************)
Bpb(img) == img[1]

SectorAt(img, i) ==
  IF i \in 0..(Len(img) - 1) /\ i < Bpb(img).totalSectors THEN img[i + 1] ELSE [none |-> 0]

Garbage(n) == [j \in 1..n |-> -1]

AsEntries(sec) ==
  CASE DOMAIN sec = {"fat"} -> sec.fat
    [] sec = ZeroSector      -> [j \in 1..EntriesPerSector |-> 0]
    [] OTHER                 -> Garbage(EntriesPerSector)

AsSlots(sec) ==
  CASE DOMAIN sec = {"slots"} -> sec.slots
    [] sec = ZeroSector        -> [j \in 1..SlotsPerSector |-> EmptySlot]
    [] OTHER                   -> [j \in 1..SlotsPerSector |-> [EmptySlot EXCEPT !.lead = -1]]

AsBytes(sec) == IF DOMAIN sec = {"bytes"} THEN sec.bytes ELSE Garbage(SectorSize)

FatEntriesOf(b) == (b.sectorsPerFat * b.bytesPerSector) \div FatEntrySize

ClusterBytesOf(b) == b.sectorsPerCluster * b.bytesPerSector

FirstDataSector(b) == b.reservedSectors + b.fatCount * b.sectorsPerFat

(* Entry c of FAT copy k, k counted from 0. *)
FatEntryAt(img, k, c) ==
  LET b   == Bpb(img)
      pos == c * FatEntrySize
  IN AsEntries(SectorAt(img, b.reservedSectors + k * b.sectorsPerFat + pos \div b.bytesPerSector))
       [(pos % b.bytesPerSector) \div FatEntrySize + 1]

(* Slot i of the directory at cluster c, and byte j of cluster c. *)
SlotAt(img, c, i) ==
  LET b   == Bpb(img)
      pos == (i - 1) * DirEntrySize
  IN AsSlots(SectorAt(img, FirstDataSector(b) + (c - 2) * b.sectorsPerCluster
                            + pos \div b.bytesPerSector))
       [(pos % b.bytesPerSector) \div DirEntrySize + 1]

ByteAt(img, c, j) ==
  LET b == Bpb(img)
  IN AsBytes(SectorAt(img, FirstDataSector(b) + (c - 2) * b.sectorsPerCluster
                           + (j - 1) \div b.bytesPerSector))
       [((j - 1) % b.bytesPerSector) + 1]

FirstClusterOf(e) == e.hi * 65536 + e.lo

IsEndOfChain(v) == v >= 268435448   \* 0x0FFFFFF8

RECURSIVE Walk(_, _, _, _)
Walk(img, k, c, fuel) ==
  IF c \notin 2..(FatEntriesOf(Bpb(img)) - 1) \/ fuel = 0 THEN <<c>>
  ELSE <<c>> \o (IF IsEndOfChain(FatEntryAt(img, k, c)) THEN <<>>
                 ELSE Walk(img, k, FatEntryAt(img, k, c), fuel - 1))

ChainOf(img, k, e) ==
  IF e.size = 0 THEN <<>> ELSE Walk(img, k, FirstClusterOf(e), FatEntriesOf(Bpb(img)))

(* The clusters of e's chain in FAT copy k, read one after the other. *)
ReadFile(img, k, e) ==
  LET ch == ChainOf(img, k, e)
      w  == ClusterBytesOf(Bpb(img))
  IN [j \in 1..(Len(ch) * w) |-> ByteAt(img, ch[(j - 1) \div w + 1], ((j - 1) % w) + 1)]

(* The first n bytes of s; -1 where s is shorter. *)
Take(s, n) == [j \in 1..n |-> IF j <= Len(s) THEN s[j] ELSE -1]

InUse(e) == e.lead \notin {0, -1}

DirSlotsOf(img) == 1..(ClusterBytesOf(Bpb(img)) \div DirEntrySize)

(* The first slot in use of the directory at cluster c named name, or 0. *)
Lookup(img, c, name) ==
  LET found == {i \in DirSlotsOf(img) : InUse(SlotAt(img, c, i)) /\ SlotAt(img, c, i).name = name}
  IN IF found = {} THEN 0 ELSE Min(found)

RootOf(img) == Bpb(img).rootCluster

(* The cluster of the directory named by slot i of the root. *)
DirOf(img, i) == FirstClusterOf(SlotAt(img, RootOf(img), i))

(* The subdirectories the root lists, by slot. *)
SubDirs(img) ==
  {i \in DirSlotsOf(img) : LET e == SlotAt(img, RootOf(img), i)
                           IN InUse(e) /\ e.attr = DirAttr /\ e.name \notin {".", ".."}}

(* Every regular file of a subdirectory, as <<root slot, slot>>. *)
FilesFound(img) ==
  UNION {{<<i, j>> : j \in {j \in DirSlotsOf(img) : LET e == SlotAt(img, DirOf(img, i), j)
                                                    IN InUse(e) /\ e.attr = FileAttr}}
           : i \in SubDirs(img)}

PathOf(img, f) == <<SlotAt(img, RootOf(img), f[1]).name, SlotAt(img, DirOf(img, f[1]), f[2]).name>>

(* The files a reader finds, each cut to its entry's size. *)
VolumeIn(img) ==
  [p \in {PathOf(img, f) : f \in FilesFound(img)} |->
     LET f == CHOOSE f \in FilesFound(img) : PathOf(img, f) = p
         e == SlotAt(img, DirOf(img, f[1]), f[2])
     IN Take(ReadFile(img, 0, e), e.size)]

InitCluster(img) ==
  LET i == Lookup(img, RootOf(img), "INIT") IN IF i = 0 THEN 0 ELSE DirOf(img, i)

ShellSlot(img) == Lookup(img, InitCluster(img), "SHELL")

ShellEntry(img) == SlotAt(img, InitCluster(img), ShellSlot(img))

(***************************************************************************)
(* What main() is asked to store: the ELF as /INIT/SHELL when it has       *)
(* bytes.  The refinement of FatVolume is checked in CreateDiskFixedVolume.*)
(***************************************************************************)
EmptyVolume == [p \in {} |-> <<>>]

Wanted ==
  IF ElfSize > 0 THEN <<"INIT", "SHELL">> :> [j \in 1..ElfSize |-> j] ELSE EmptyVolume

(***************************************************************************)
(* Properties.                                                             *)
(***************************************************************************)
Slot ==
  [lead : {0, 1}, name : STRING, attr : {0, DirAttr, FileAttr},
   hi : 0..65535, lo : 0..65535, size : 0..MaxElfBytes]

(* Every sector written is a whole sector of one of the kinds. *)
Sector ==
  {BootSector, FsInfoSector}
    \union [fat : [1..EntriesPerSector -> 0..EOC]]
    \union [slots : [1..SlotsPerSector -> Slot]]
    \union [bytes : [1..SectorSize -> 0..MaxElfBytes]]

TypeOK ==
  /\ pc \in {"load", "open", "boot", "fsinfo", "reserved", "fat", "dirs", "elf",
             "fill", "done", "exit", "failed"}
  /\ elfArg \in {NoArg, Missing} \union 0..MaxElfBytes
  /\ out = NoFile \/ out \in Seq(Sector)

(* The header fields agree with the layout main() writes (the two fat_size *)
(* literals, RESERVED_SECTORS, the backup at sector 6): at the places the  *)
(* BPB names a reader finds the backup boot sector, the FSInfo sector, FAT *)
(* copies that agree entry for entry and start with the BPB's media byte,  *)
(* and a root whose subdirectories each open with a "." naming their own   *)
(* cluster, ".." naming the root, and an end-of-chain FAT entry.           *)
LayoutMatchesBpb ==
  pc = "done" =>
    /\ SectorAt(out, Bpb(out).backupBootSector) = Bpb(out)
    /\ SectorAt(out, Bpb(out).fsInfoSector) = FsInfoSector
    /\ FatEntryAt(out, 0, 0) % 256 = Bpb(out).media
    /\ \A k \in 1..(Bpb(out).fatCount - 1), c \in 0..(FatEntriesOf(Bpb(out)) - 1) :
         FatEntryAt(out, k, c) = FatEntryAt(out, 0, c)
    /\ SlotAt(out, RootOf(out), 1).name = "."
    /\ FirstClusterOf(SlotAt(out, RootOf(out), 1)) = RootOf(out)
    /\ \A i \in SubDirs(out) :
         LET c == DirOf(out, i)
         IN /\ SlotAt(out, c, 1).name = "." /\ FirstClusterOf(SlotAt(out, c, 1)) = c
            /\ SlotAt(out, c, 2).name = ".." /\ FirstClusterOf(SlotAt(out, c, 2)) = RootOf(out)
            /\ IsEndOfChain(FatEntryAt(out, 0, c))

(* create_fat, create_init_directory and the ELF write decide separately   *)
(* from elf_size and elf_data whether there is a SHELL: in a finished      *)
(* image /INIT/SHELL is listed exactly when the ELF has bytes, its entry   *)
(* records the ELF size and starts at cluster 6, its chain in every FAT    *)
(* copy has exactly ceil(size / cluster) clusters, and a cluster past /run *)
(* has a FAT entry exactly when it is on that chain.                       *)
ShellChainExact ==
  pc = "done" =>
    IF ElfSize = 0
      THEN /\ ShellSlot(out) = 0
           /\ \A c \in 6..(FatEntriesOf(Bpb(out)) - 1) : FatEntryAt(out, 0, c) = 0
      ELSE /\ ShellSlot(out) # 0
           /\ LET e == ShellEntry(out) IN
              /\ e.size = ElfSize /\ FirstClusterOf(e) = 6
              /\ \A k \in 0..(Bpb(out).fatCount - 1) :
                /\ Len(ChainOf(out, k, e)) = ClustersNeeded(ElfSize)
                /\ \A c \in 6..(FatEntriesOf(Bpb(out)) - 1) :
                     FatEntryAt(out, k, c) # 0 <=> c \in Range(ChainOf(out, k, e))

(* Spec 6: the image file is exactly totalSectors * bytesPerSector bytes. *)
ImageSizeExact == pc = "done" => Len(out) = Bpb(out).totalSectors

(* Spec 5 and 7: a build that fails leaves no output file that could be    *)
(* taken for an image; the destination is opened only for the final write.*)
NoPartialImage == pc = "failed" => out = NoFile

=============================================================================
