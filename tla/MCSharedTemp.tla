------------------------------ MODULE MCSharedTemp ------------------------------
(* The assemblies are interchangeable. *)
EXTENDS SharedTemp, TLC

Symmetry == Permutations(Procs)
==============================================================================
