---------------------------- MODULE MCQualityRetry ----------------------------
(* An instance of QualityRetry for TLC: two stages, the first with some seeds. *)
EXTENDS QualityRetry, TLC

CONSTANT FirstSeeds

Stages == <<FirstSeeds, Seeds>>

Symmetry == Permutations(FirstSeeds) \cup Permutations(Seeds \ FirstSeeds)
              \cup Permutations(Texts)
===============================================================================
