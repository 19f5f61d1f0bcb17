---------------------------- MODULE MCUsageLedger -----------------------------
(* Instances of UsageLedger for TLC.  The checkpoint intervals are scaled     *)
(* down from 8 requests and 4096 tokens so that both thresholds are reached.  *)
EXTENDS UsageLedger, TLC

Symmetry == Permutations(Workers)
===============================================================================
