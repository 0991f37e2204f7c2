---------------------------- MODULE MCCxxCompare ----------------------------
(* CxxCompare on three values. *)
EXTENDS CxxCompare, TLC

Symmetry == Permutations(Items)

=============================================================================
