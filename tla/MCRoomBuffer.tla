---------------------------- MODULE MCRoomBuffer ----------------------------
(* RoomBuffer on a small instance: two rooms share the table, a buffer holds  *)
(* two frames and three bytes.  Frames of size 1 fill it by count before they *)
(* fill it by bytes, so that a table that missed a prune reloads as a buffer  *)
(* of three frames, longer than MaxFrames.  One of size 4 does not fit at     *)
(* all, as in the code, where the handler accepts 4 MiB (ws.go:16) and the    *)
(* buffer holds 512 KiB: it pushes out every other frame and then itself.     *)
EXTENDS RoomBuffer

FrameSizes == {1, 4}

(* Rooms differ by name only, and no run of this module checks liveness. *)
RoomSymmetry == Permutations(Rooms)
=============================================================================
