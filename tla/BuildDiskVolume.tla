-------------------------- MODULE BuildDiskVolume --------------------------
(***************************************************************************)
(* build_disk.py implements FatVolume.  What main() is asked to store is   *)
(* every input whose payload exists; what is published is what a FAT32     *)
(* reader bounded by the saved BPB finds in the root of the saved image,   *)
(* each file cut to its entry's size, and nothing before save().           *)
(***************************************************************************)
EXTENDS BuildDisk

CONSTANT NoVolume

Wanted ==
  [f \in {g \in Files : SizeOf(g) # Missing} |-> [k \in 1..SizeOf(f) |-> Byte(f, k)]]

(* The first n bytes of s; -1 where s is shorter. *)
Take(s, n) == [j \in 1..n |-> IF j <= Len(s) THEN s[j] ELSE -1]

(* The highest cluster of the volume the saved BPB describes.  A FAT32    *)
(* reader addresses clusters 2 .. VolumeLastCluster only; bytes the image  *)
(* holds past the volume read as -1.                                       *)
VolumeLastCluster ==
  1 + (boot.totalSectors - (boot.reservedSectors + boot.fatCount * boot.sectorsPerFat))
        \div boot.sectorsPerCluster

MountedBytes(c) ==
  IF c <= VolumeLastCluster THEN ClusterBytes(c) ELSE [j \in 1..BytesPerCluster |-> -1]

MountRead(fc, e) ==
  LET ch == ChainOf(fc, e) IN FlattenSeq([j \in DOMAIN ch |-> MountedBytes(ch[j])])

SavedVolume ==
  IF pc # "done" THEN NoVolume
  ELSE [f \in {root[i].name : i \in FileSlots} |->
          LET e == root[CHOOSE i \in FileSlots : root[i].name = f]
          IN Take(MountRead(fatCopies[1], e), e.size)]

Volume == INSTANCE FatVolume WITH want <- Wanted, volume <- SavedVolume

(* Spec 1 and 8: the builder refines FatVolume: nothing is visible before *)
(* save(), an aborted build never publishes, and a reader of the saved     *)
(* volume finds exactly the inputs that exist, each with exactly its       *)
(* payload, and no other file.                                             *)
VolumeRefinement == Volume!Spec

=============================================================================
