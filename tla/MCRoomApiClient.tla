--------------------------- MODULE MCRoomApiClient ---------------------------
(* RoomApiClient on small sets, for TLC. *)
EXTENDS RoomApiClient, TLC

\* Requests (with the rooms they mint) are interchangeable, in invariants.
Symmetry == Permutations(Requests)
=============================================================================
