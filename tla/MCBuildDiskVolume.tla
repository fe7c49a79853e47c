------------------------- MODULE MCBuildDiskVolume -------------------------
(* BuildDiskVolume with the bounds of MCBuildDisk. *)
EXTENDS BuildDiskVolume, MCBuildDisk

=============================================================================
