-------------------------- MODULE MCDistillationStage --------------------------
(* Instances of DistillationStage for TLC. *)
EXTENDS DistillationStage, TLC

Symmetry == Permutations(Seeds) \cup Permutations(Workers)
              \cup Permutations(Classes)
===============================================================================
