------------------------- MODULE MCCreateDiskFixed -------------------------
(***************************************************************************)
(* CreateDiskFixed scaled down for TLC.  One model byte stands for the     *)
(* code's bytes at every width: a sector is 4 bytes, a cluster 2 sectors,  *)
(* a FAT entry and a directory entry one byte each, so a directory cluster *)
(* has 8 slots and a FAT sector 4 entries.  Sector 6 is still the backup   *)
(* boot sector (7 reserved sectors).  Each FAT is 3 sectors (entries       *)
(* 0..11) and the volume is 25 sectors, data clusters 2..7.  As in the     *)
(* code (clusters 2..8149, FAT entries 0..20479) the FAT reaches past the  *)
(* volume, so an ELF can overflow the volume (more than 2 clusters, over   *)
(* 16 bytes) before it overflows the FAT (7 clusters, over 48 bytes).      *)
(***************************************************************************)
EXTENDS CreateDiskFixed

(* The size of the ELF spans: none, empty, one cluster exactly, chains     *)
(* inside and past the volume, and one cluster past the FAT.               *)
MCMaxElfBytes == 7 * 8

=============================================================================
