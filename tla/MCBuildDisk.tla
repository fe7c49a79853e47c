---------------------------- MODULE MCBuildDisk ----------------------------
(***************************************************************************)
(* BuildDisk scaled down for TLC.  One model byte stands for the code's    *)
(* bytes at every width: a sector is 4 bytes, a cluster one sector, a FAT  *)
(* entry and a directory entry one byte each.  The volume has clusters     *)
(* 2..5 and the FAT has entries 0..7, so, as in the code (8125 clusters,   *)
(* 32768 entries), the FAT reaches past the volume: files can overflow the *)
(* volume before they overflow the FAT.  The root cluster has 4 slots: the *)
(* label and 3 files, one fewer than main() adds.                          *)
(***************************************************************************)
EXTENDS BuildDisk

CONSTANTS Kernel, Extra, Config, Readme

(* main(): KERNEL.BIN, one additional file, CONFIG.TXT, README.TXT. *)
MCInputs == <<Kernel, Extra, Config, Readme>>

MCLocal == {Kernel, Extra}

(* CONFIG.TXT and README.TXT each fit in one cluster; README fills it. *)
MCLiteralSize == (Config :> 3) @@ (Readme :> 4)

=============================================================================
