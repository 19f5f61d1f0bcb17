--------------------------- MODULE SessionExport ---------------------------
(* What the tooling keeps of one OpenCode session: the strict conversion of   *)
(* the readiness gate, the staging conversion of bulk collection, and the     *)
(* offline pass that derives the labels of a staged record once more          *)
(* (tooling/session_export.py, tooling/session_partition.py).                 *)
(*                                                                            *)
(* A session is what the executor and the harness hand over:                  *)
(*   genuine  schema, source, ids and directory of export and capture agree   *)
(*   unsafe   some kept text, path or key fails the safety gate               *)
(*   said     the roles with visible text                                     *)
(*   tools    the tool calls, each [tool, path, command, search, status]:     *)
(*            name allowed, path given, command on the list, search valid     *)
(*   checks   the validators, each [name, status, exit, command]              *)
(*   diff     final diff: "none", "valid" or "broken"                         *)
(*   outcome  of the agent: "completed", "blocked", "partial" or "none"       *)
(*   skills   provenance: "none", "valid" or "broken"                         *)
(*   quality  [exit, timedOut, rejected, errors] of the execution             *)
EXTENDS Naturals, Sequences

Validators == {"build", "test", "lint"}

When(condition, label) == IF condition THEN {label} ELSE {}
Elements(s) == {s[i] : i \in DOMAIN s}

(* --- refusals shared by both conversions ------------------------------------- *)

(* _SafetyGate: every kept string, key and path is scanned; one hit refuses   *)
(* the whole session.                                                         *)
Gated(s) == ~s.unsafe

Header(s) == s.genuine

Spoken(s) == s.said = {"user", "assistant"}

NamedOnce(checks) ==
  /\ \A c \in Elements(checks) : c.name \in Validators
  /\ \A i, j \in DOMAIN checks : checks[i].name = checks[j].name => i = j

(* --- strict conversion: one defect refuses ------------------------------------ *)

ToolAccepted(t) ==
  /\ t.tool /\ t.path /\ t.command /\ t.search
  /\ t.status \in {"completed", "error"}

TrajectoryAccepted(s) ==
  /\ \A t \in Elements(s.tools) : ToolAccepted(t)
  /\ Spoken(s)

CheckPassed(c) == c.status = "PASS" /\ c.exit = 0

ValidatorsAccepted(s) ==
  /\ NamedOnce(s.checks)
  /\ \A c \in Elements(s.checks) : CheckPassed(c) /\ c.command
  /\ {c.name : c \in Elements(s.checks)} = Validators

(* convert_controlled_session: the quality of the execution is part of the    *)
(* capture and is not looked at; skills are optional.                         *)
StrictAccepts(s) ==
  /\ Header(s) /\ Gated(s)
  /\ TrajectoryAccepted(s)
  /\ s.diff = "valid"
  /\ ValidatorsAccepted(s)
  /\ s.outcome = "completed"
  /\ s.skills # "broken"

(* --- staging conversion: defects of quality become labels ---------------------- *)

StagingToolLabels(t) ==
  When(~t.tool, "tool_not_allowed")
    \cup When(t.tool /\ ~t.path, "tool_path_missing")
    \cup When(~t.command, "bash_command_not_allowed")
    \cup When(~t.search, "search_input_not_allowed")
    \cup When(t.status = "error", "tool_error")
    \cup When(t.status = "rejected", "tool_rejected")

StagingCheckLabels(c) ==
  When(~c.command, "validator_command_not_allowed")
    \cup When(~CheckPassed(c), "validator_failed")

ExecutionLabels(q) ==
  When(q.exit # 0, "agent_exit_nonzero")
    \cup When(q.timedOut, "task_timed_out")
    \cup When(q.rejected > 0, "tool_rejected")
    \cup q.errors

OutcomeLabels(outcome) ==
  When(outcome = "none", "public_outcome_missing")
    \cup When(outcome = "blocked", "task_blocked")
    \cup When(outcome = "partial", "task_partial")

StagingLabels(s) ==
  (UNION {StagingToolLabels(t) : t \in Elements(s.tools)})
    \cup When(s.tools = <<>>, "tool_calls_missing")
    \cup (UNION {StagingCheckLabels(c) : c \in Elements(s.checks)})
    \cup When({c.name : c \in Elements(s.checks)} # Validators, "validators_incomplete")
    \cup When(s.diff = "none", "final_diff_missing")
    \cup OutcomeLabels(s.outcome)
    \cup ExecutionLabels(s.quality)

StagingAccepts(s) ==
  /\ Header(s) /\ Gated(s)
  /\ Spoken(s)
  /\ \A t \in Elements(s.tools) : t.status \in {"completed", "error", "rejected"}
  /\ NamedOnce(s.checks)
  /\ \A c \in Elements(s.checks) : c.status \in {"PASS", "FAIL", "SKIP", "TIMEOUT"}
  /\ s.diff # "broken"
  /\ s.skills = "valid"

(* The staged record keeps what the offline pass needs, and the labels.       *)
Staged(s) ==
  [said |-> s.said, tools |-> s.tools, checks |-> s.checks, diff |-> s.diff,
   outcome |-> s.outcome, skills |-> s.skills, unsafe |-> s.unsafe,
   execution |-> s.quality,
   labels |-> StagingLabels(s), eligible |-> StagingLabels(s) = {}]

(* --- offline: labels are derived again from the record, never trusted ----------- *)

DerivedToolLabels(t) ==
  When(~t.tool, "tool_not_allowed")
    \cup When(t.tool /\ ~t.path, "tool_path_missing")
    \cup When(~t.command, "bash_command_not_allowed")
    \cup When(~t.search, "search_input_not_allowed")
    \cup When(t.status = "error", "tool_error")
    \cup When(t.status = "rejected", "tool_rejected")

DerivedLabels(r) ==
  ExecutionLabels(r.execution)
    \cup (UNION {DerivedToolLabels(t) : t \in Elements(r.tools)})
    \cup When(r.tools = <<>>, "tool_calls_missing")
    \cup When(\E c \in Elements(r.checks) : ~c.command, "validator_command_not_allowed")
    \cup When(\E c \in Elements(r.checks) : ~CheckPassed(c), "validator_failed")
    \cup When({c.name : c \in Elements(r.checks)} # Validators, "validators_incomplete")
    \cup When(r.diff = "none", "final_diff_missing")
    \cup OutcomeLabels(r.outcome)

(* validate_staging_record.                                                   *)
RecordValid(r) ==
  /\ r.skills = "valid" /\ r.diff # "broken"
  /\ ~r.unsafe
  /\ Spoken(r) /\ NamedOnce(r.checks)
  /\ \A t \in Elements(r.tools) : t.status \in {"completed", "error", "rejected"}
  /\ r.labels = DerivedLabels(r)
  /\ r.eligible = (DerivedLabels(r) = {})
=============================================================================
