----------------------------- MODULE MCGeometry -----------------------------
(* Fat32DiskBuilder is constructed for each size_mb up to a bound: 128 MiB  *)
(* is the largest size the hard-coded 256 sectors per FAT can address,     *)
(* and the violation configuration goes past it.                           *)
EXTENDS Geometry

MCSizesCovered == 1..128
MCSizesBeyond  == 1..160
=============================================================================
