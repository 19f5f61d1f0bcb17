---------------------------- MODULE MCMetadataSync ----------------------------
(* Instances of MetadataSync for TLC: two releases with one pin and a third   *)
(* that pins another upstream commit.                                         *)
EXTENDS MetadataSync, TLC

MCPin == <<"v3.16.5", "v3.16.5", "v3.17.0">>

Symmetry == Permutations(Commands) \cup Permutations(Targets)
==============================================================================
