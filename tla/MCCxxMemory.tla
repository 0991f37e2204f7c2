---------------------------- MODULE MCCxxMemory ----------------------------
(* CxxMemory on a few storages and values, all alike. *)
EXTENDS CxxMemory, TLC

Symmetry == Permutations(Storages) \cup Permutations(Values)

=============================================================================
