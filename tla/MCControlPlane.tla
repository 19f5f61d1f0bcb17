---------------------------- MODULE MCControlPlane ----------------------------
(* Instances of ControlPlane for TLC. *)
EXTENDS ControlPlane, TLC

(* One base config with two seeds. *)
MCBases == {[first |-> 1, count |-> 2]}

===============================================================================
