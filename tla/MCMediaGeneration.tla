------------------------- MODULE MCMediaGeneration -------------------------
(* Two deliveries, ordinary or of one recovery item, and three generations. *)
EXTENDS MediaGeneration, TLC

CONSTANTS w1, w2, i1

MCWorkers == {w1, w2}
MCItems == {i1}

(* The deletion is explored with two generations, all else with three.      *)
FewWhenDeleted == deletion.pc # "none" => NextGeneration <= 3

Symmetry == Permutations(MCWorkers)
=============================================================================
