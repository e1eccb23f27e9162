----------------------------- MODULE MCRoomView -----------------------------
(* RoomView on small sets, for TLC. *)
EXTENDS RoomView, TLC

Symmetry == Permutations(Rooms) \cup Permutations(Exports)
=============================================================================
