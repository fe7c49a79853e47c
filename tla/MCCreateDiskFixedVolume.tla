---------------------- MODULE MCCreateDiskFixedVolume ----------------------
(* CreateDiskFixedVolume with the bounds of MCCreateDiskFixed. *)
EXTENDS CreateDiskFixedVolume, MCCreateDiskFixed

=============================================================================
