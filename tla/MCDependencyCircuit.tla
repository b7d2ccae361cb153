------------------------ MODULE MCDependencyCircuit ------------------------
(* Two processes with two deliveries each, two errors, the default          *)
(* threshold of three.                                                      *)
EXTENDS DependencyCircuit, TLC

CONSTANTS p1, p2, s1, s2, e1, e2

MCProcesses == {p1, p2}
MCSlots == {s1, s2}
MCErrors == {e1, e2}
OneSlot == {s1}

Symmetry == Permutations(MCProcesses) \cup Permutations(MCSlots) \cup Permutations(MCErrors)
=============================================================================
