----------------------------- MODULE MCJsonlStore -----------------------------
(* Instances of JsonlStore for TLC. *)
EXTENDS JsonlStore, TLC

Symmetry == Permutations(Records) \cup Permutations(Stores)
===============================================================================
