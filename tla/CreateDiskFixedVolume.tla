----------------------- MODULE CreateDiskFixedVolume -----------------------
(***************************************************************************)
(* create_disk_fixed.py against FatVolume.  The abstract volume is what    *)
(* a FAT32 reader finds in the output file once main() has finished, and   *)
(* nothing before.  It is kept in the auxiliary variable published, set    *)
(* by every step to the reader's view of the file that step leaves; the    *)
(* variable adds no behaviour (the writer's steps are those of Next), it   *)
(* only records VolumeIn(out) so that the mapping is read once per state.  *)
(***************************************************************************)
EXTENDS CreateDiskFixed

VARIABLE published

View(p, img) == IF p = "done" THEN VolumeIn(img) ELSE NoFile

VInit == Init /\ published = NoFile

VNext == Next /\ published' = View(pc', out')

VSpec == VInit /\ [][VNext]_<<vars, published>>

Volume == INSTANCE FatVolume WITH want <- Wanted, volume <- published, NoVolume <- NoFile

(* Spec 1 and 8: the writer refines FatVolume: nothing is visible before  *)
(* main() ends, a failed run never publishes, and a reader of the volume   *)
(* the BPB describes finds exactly the ELF as /INIT/SHELL (when it has     *)
(* bytes), with exactly its contents, and no other file.                   *)
VolumeRefinement == Volume!Spec

=============================================================================
