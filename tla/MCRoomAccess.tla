---------------------------- MODULE MCRoomAccess ----------------------------
(* RoomAccess on small sets, for TLC. *)
EXTENDS RoomAccess, TLC

Symmetry == Permutations(Rooms) \cup Permutations(Admins) \cup Permutations(Guests)
=============================================================================
