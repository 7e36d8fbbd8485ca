--------------------------- MODULE MCLidarFrames ---------------------------
(***************************************************************************)
(* TLC instances of LidarFrames.  With windows of three units, a time that  *)
(* overflows after eleven of them and eight offsets, five points in batches *)
(* of at most three cross an empty window, step back inside a window and out *)
(* of it, complete two clouds, overflow, and span more than an offset.      *)
(***************************************************************************)
EXTENDS LidarFrames

Window == 3
LastTime == 10
OffsetValues == 8
FewPoints == 5
SmallBatch == 3
=============================================================================
