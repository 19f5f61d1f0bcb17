----------------------------- MODULE MCSnapshot -----------------------------
(* Two collections whose partitions differ in the security stage, the task    *)
(* bank and the rejects, and agree in the plan file. *)
EXTENDS Snapshot, TLC

MCGold == <<"plan", "security">>
MCSidecars == <<"reject">>
MCRawCount == [c \in Collections |-> 5]
MCBytes == [c \in Collections |->
  [f \in Files |-> IF f = "plan" THEN 1 ELSE c]]
Symmetry == Permutations(Commands)
=============================================================================
