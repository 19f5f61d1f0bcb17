--------------------------- MODULE MCSeedGeneration ---------------------------
(* Instances of SeedGeneration for TLC. *)
EXTENDS SeedGeneration, TLC

Symmetry == Permutations(Workers)
===============================================================================
