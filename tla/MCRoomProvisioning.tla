------------------------- MODULE MCRoomProvisioning -------------------------
(* RoomProvisioning on small sets, for TLC. *)
EXTENDS RoomProvisioning, TLC

\* Requests (with the rooms they mint) and keys are interchangeable.
Symmetry == Permutations(Requests) \cup Permutations(Keys)
=============================================================================
