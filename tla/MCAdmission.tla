---- MODULE MCAdmission ----
(* Symmetry and limits for the model checker. *)
EXTENDS Admission, TLC

\* One creation and two joins a window: the ratio of the defaults, not their size.
MCLimit == [k \in Kinds |-> IF k = "join" THEN 2 ELSE 1]

MCSymmetry == Permutations(Requests) \cup Permutations(Clients)
====
