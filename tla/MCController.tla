---------------------------- MODULE MCController ----------------------------
(* Controller on small sets, for TLC. *)
EXTENDS Controller, TLC

Symmetry == Permutations(Calls) \cup Permutations(Rooms)
=============================================================================
