----------------------------- MODULE FatVolume -----------------------------
(***************************************************************************)
(* What a build of a disk image promises, whichever tool builds it (spec   *)
(* sections 1, 5 and 7): until the image is saved nothing is published;    *)
(* the one save publishes a volume in which a FAT32 reader finds exactly   *)
(* the files the build was asked to store, each with its contents; after  *)
(* that the volume never changes.  A failed build never publishes.         *)
(*                                                                         *)
(* want   : the files asked for, a function from path to byte sequence.    *)
(* volume : NoVolume, or the files a reader finds in the saved image.      *)
(***************************************************************************)
CONSTANT NoVolume

VARIABLES want, volume

Init == volume = NoVolume

Publish ==
  /\ volume = NoVolume
  /\ volume' = want
  /\ UNCHANGED want

Spec == Init /\ [][Publish]_<<want, volume>>

=============================================================================
