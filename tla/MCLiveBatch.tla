---------------------------- MODULE MCLiveBatch ----------------------------
(* A ramp of one sample and then two side by side, a held-out case and a      *)
(* manifest that repeats its text, and the sessions that the conversions and  *)
(* the verdict treat differently.                                             *)
EXTENDS LiveBatch

CONSTANTS a, b, c, copy, held

MCStages == <<[width |-> 1, count |-> 1], [width |-> 2, count |-> 2]>>

\* The two orders of b and c are the same plan.
MCManifests ==
  {[audited |-> TRUE, tasks |-> <<a, b, c>>], [audited |-> TRUE, tasks |-> <<a, c, b>>],
   [audited |-> TRUE, tasks |-> <<copy, a>>], [audited |-> FALSE, tasks |-> <<b>>],
   [audited |-> FALSE, tasks |-> <<c>>]}
Task(text) ==
  [text |-> text, mentions |-> {}, required |-> {"build"}, protected |-> {"package.json"},
   inputs |-> {"src/app.js"}, requirement |-> None, changes |-> TRUE]
MCTaskOf == [x \in {a, b, c, copy} |-> Task(IF x = copy THEN held ELSE x)]
MCHeldOut == [inputs |-> {[intact |-> TRUE, candidate |-> FALSE]}, ids |-> {held}, texts |-> {held}]

Call == [tool |-> TRUE, path |-> TRUE, command |-> TRUE, search |-> TRUE, status |-> "completed"]
Passed(n) == [name |-> n, status |-> "PASS", exit |-> 0, command |-> TRUE]
Good ==
  [genuine |-> TRUE, unsafe |-> FALSE, said |-> {"user", "assistant"}, tools |-> <<Call>>,
   checks |-> <<Passed("build"), Passed("test"), Passed("lint")>>, diff |-> "valid",
   outcome |-> "completed", skills |-> "valid",
   quality |-> [exit |-> 0, timedOut |-> FALSE, rejected |-> 0, errors |-> {}]]

Plain(s) == [session |-> s, exported |-> TRUE, protected |-> FALSE, fixture |-> TRUE]

Symmetry == Permutations({b, c})

(* weakened: a protected file was changed.  toolError: one call failed.       *)
(* blocked: policy refused a call and the agent gave up.  noLint: the lint    *)
(* script is absent.  unsafe: a kept text fails the safety gate.              *)
MCOutcomeOf ==
  [good |-> Plain(Good),
   weakened |-> [Plain(Good) EXCEPT !.protected = TRUE],
   toolError |-> Plain([Good EXCEPT !.tools = <<Call, [Call EXCEPT !.status = "error"]>>]),
   blocked |-> Plain([Good EXCEPT !.outcome = "blocked", !.diff = "none",
                        !.tools = <<[Call EXCEPT !.command = FALSE, !.status = "rejected"]>>,
                        !.quality = [exit |-> 0, timedOut |-> FALSE, rejected |-> 1, errors |-> {}]]),
   noLint |-> Plain([Good EXCEPT !.checks =
                       <<Passed("build"), Passed("test"),
                         [name |-> "lint", status |-> "SKIP", exit |-> None, command |-> TRUE]>>]),
   unsafe |-> Plain([Good EXCEPT !.unsafe = TRUE])]
=============================================================================
