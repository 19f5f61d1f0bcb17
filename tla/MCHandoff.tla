----------------------------- MODULE MCHandoff -----------------------------
(* Two experts, one of them with a second good file and one with a file that *)
(* no gate accepts, a two-stage ramp, a fit host and two that fail a gate.      *)
EXTENDS Handoff, TLC

CONSTANTS planner, review, old, new, fine, broken, first, second, l1, l2

MCOrder == <<planner, review>>
MCRamp == <<1, 2>>
MCSamples == <<first, second>>

MCKinds == [e \in {planner, review} |-> IF e = planner THEN "plan" ELSE "security"]
Line(id, e, target) ==
  [schema |-> "1.0", id |-> id, expert |-> e, generator |-> "", teacher |-> "live", mocked |-> FALSE,
   turns |-> <<[role |-> "user", text |-> "ask"], [role |-> "assistant", text |-> target]>>,
   trace |-> <<{"check", "evidence", "action"}>>,
   output |-> IF e = planner THEN [filled |-> {"summary", "steps"}, decision |-> "", text |-> target]
              ELSE [filled |-> {"rationale"}, decision |-> target, text |-> ""],
   secret |-> FALSE, leaks |-> FALSE]
\* The broken file holds a record whose decision is not the one its target states.
MCLines ==
  [f \in {old, new, fine, broken} |->
     IF f \in {old, new} THEN <<Line(f, planner, "plan")>>
     ELSE IF f = fine THEN <<Line(f, review, "PASS")>>
     ELSE <<[Line(f, review, "PASS") EXCEPT !.turns[2].text = "BLOCK"]>>]
MCContents == [e \in {planner, review} |-> IF e = planner THEN {old, new} ELSE {fine, broken}]

MCExpected == [repo |-> "base", revision |-> "r1", sha |-> "w", bytes |-> 9, footprint |-> 7,
               vram |-> 10, host |-> 4]
MCBank == [records |-> 1, sha |-> "bank"]

Shard == [name |-> "s1", safe |-> TRUE, exists |-> TRUE, size |-> 20, bytes |-> 20, shape |-> TRUE,
          sha |-> "x", declared |-> "x"]
Case(i, e) == [id |-> i, expert |-> e, prompt |-> TRUE, tokens |-> 16]
Fit == [base |-> [present |-> TRUE, repo |-> "base", revision |-> "r1", declared |-> "w",
                  weight |-> "w", bytes |-> 9, oid |-> TRUE],
        nf4 |-> [present |-> TRUE, inside |-> TRUE, source |-> "w", footprint |-> 7,
                 quantization |-> "nf4", frozen |-> TRUE, shards |-> {Shard}, index |-> {"s1"},
                 indexTotal |-> 18, quantState |-> TRUE],
        heldout |-> <<Case("a", planner), Case("b", review)>>,
        cuda |-> TRUE, bf16 |-> TRUE, vram |-> 11, probed |-> TRUE, host |-> 8, dependencies |-> TRUE,
        engine |-> "manual_active_labels_v2", checkpointing |-> TRUE, batch |-> 1, peak |-> 9,
        bindings |-> {planner, review}]
Symmetry == {f @@ g : f \in Permutations({l1, l2}), g \in Permutations({old, new})}
MCMachines == {Fit, [Fit EXCEPT !.vram = 9], [Fit EXCEPT !.batch = 2]}
============================================================================
