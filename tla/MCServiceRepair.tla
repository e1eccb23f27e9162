--------------------------- MODULE MCServiceRepair ---------------------------
(* Two repairs of one service, for the model checker. *)
EXTENDS ServiceRepair, TLC

Symmetry == Permutations(Repairs)
=============================================================================
