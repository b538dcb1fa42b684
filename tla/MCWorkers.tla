------------------------------ MODULE MCWorkers ------------------------------
(* Two workers that may be siblings or parent and child. *)
EXTENDS Workers, TLC

CONSTANTS w1, w2
TwoWorkers == {w1, w2}
Symmetry == Permutations(Workers)
=============================================================================
