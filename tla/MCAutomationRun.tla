-------------------------- MODULE MCAutomationRun --------------------------
(* Two seeds, chains of two tasks, a contract for one chain and one for two. *)
EXTENDS AutomationRun

MCContracts == <<[targets |-> <<1>>, minimum |-> 1], [targets |-> <<1, 2>>, minimum |-> 1]>>
============================================================================
