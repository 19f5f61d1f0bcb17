--------------------------- MODULE GoldPartition ---------------------------
(* The deterministic partition of a finished collection (automation.py,       *)
(* partition_collected_records) as operators over sets of rows: what makes a  *)
(* row gold, a negative or a reject, which gold rows form complete five-stage *)
(* chains, which seeds lose to an earlier near-duplicate, and when the        *)
(* manifest says training_ready.                                              *)
(*                                                                            *)
(* A row is a record: its file line, id, task, seed, prompt, output (body),   *)
(* the ids its provenance names (src), the upstream outputs copied into its   *)
(* input (embeds) and the marks the detectors would find in it.  Hashes and   *)
(* text are abstracted to equality of these values.                           *)
EXTENDS Naturals, FiniteSets

CONSTANTS Seeds,      \* seed numbers: the position of a seed in seeds.jsonl
          Minimum,    \* minimum_gold_records_per_task
          Missing     \* a source id, seed or card the row does not have

ASSUME GoldPartitionAssumption ==
  /\ Seeds \subseteq Nat \ {0} /\ IsFiniteSet(Seeds)
  /\ Minimum \in Nat
  /\ Missing \notin Seeds

Tasks == {"plan", "tool_policy", "frontend", "review", "security"}

(* _LINEAGE_EDGES: <<upstream task, downstream task>>.                        *)
Edges == {<<"plan", "tool_policy">>, <<"plan", "frontend">>,
          <<"tool_policy", "frontend">>, <<"frontend", "review">>,
          <<"review", "security">>}

Upstream(task) == {e[1] : e \in {d \in Edges : d[2] = task}}

Ids(rows) == {r.id : r \in rows}
OfTask(rows, task) == {r \in rows : r.task = task}
SeedsOf(rows) == {r.seed : r \in rows} \ {Missing}

(* --- classification of one raw row ---------------------------------------- *)

(* The seed's task card as assignment_for_seed resolves it: a canonical card, *)
(* a card derived from an old seed (legacy), one whose template is a held-out *)
(* source, a binding that does not match (invalid), or no seed row at all.    *)
CardOf(seedRows, seed) ==
  IF \E s \in seedRows : s.seed = seed
  THEN (CHOOSE s \in seedRows : s.seed = seed).card
  ELSE Missing

HardLabels(row) ==
  row.marks \cap {"secret_detected", "invalid_quality_retry_metadata", "unsafe_payload"}

DuplicateLabels(rows, row) ==
  {l \in {"duplicate_record_id", "duplicate_prompt"} :
     \E other \in rows \ {row} :
       \/ l = "duplicate_record_id" /\ other.id = row.id
       \/ l = "duplicate_prompt" /\ other.prompt = row.prompt}

CardLabels(seedRows, row) ==
  LET card == CardOf(seedRows, row.seed)
  IN  {l \in {"task_card_assignment_invalid", "task_card_alignment_invalid",
              "heldout_source_excluded", "task_card_axis_mismatch"} :
         \/ l = "task_card_assignment_invalid" /\ card = "invalid"
         \/ /\ card \in {"canonical", "heldout"}
            /\ \/ l = "task_card_alignment_invalid" /\ "misaligned" \in row.marks
               \/ l = "heldout_source_excluded" /\ card = "heldout"
               \/ /\ l = "task_card_axis_mismatch" /\ "axis" \in row.marks
                  /\ row.task \in {"tool_policy", "review", "security"}}

LabelTasks == {"tool_policy", "security"}

(* A teacher that disagreed with the deterministic oracle: the row is kept as *)
(* a label-only example when no contrary rationale is left in it.             *)
OracleLabels(row) ==
  IF row.task \notin LabelTasks THEN {}
  ELSE {l \in {"deterministic_oracle_mismatch", "teacher_label_disagreement",
               "teacher_label_disagreement_oracle_label_only"} :
          \/ l = "deterministic_oracle_mismatch" /\ "oracle" \in row.marks
          \/ /\ "disagrees" \in row.marks
             /\ (l = "teacher_label_disagreement_oracle_label_only")
                   = ("normalised" \in row.marks /\ "oracle" \notin row.marks)
             /\ l # "deterministic_oracle_mismatch"}

(* The artifact gate: a frontend or review row without a buildable artifact,  *)
(* and a review row whose frontend source is absent, of another seed, or not  *)
(* what the repair restores.                                                  *)
ArtifactFails(rows, row) ==
  \/ row.task \in {"frontend", "review"} /\ "artifact" \in row.marks
  \/ /\ row.task = "review"
     /\ ~ \E up \in OfTask(rows, "frontend") :
            /\ up.id = row.src["frontend"]
            /\ up.seed = row.seed
            /\ up.body = row.embeds["frontend"]
            /\ "artifact" \notin up.marks

QualityLabels(rows, seedRows, row) ==
  DuplicateLabels(rows, row) \cup CardLabels(seedRows, row) \cup OracleLabels(row)
    \cup (IF ArtifactFails(rows, row) THEN {"artifact_validation_failed"} ELSE {})

Disposition(rows, seedRows, row) ==
  IF HardLabels(row) # {} THEN "reject"
  ELSE IF QualityLabels(rows, seedRows, row) # {} THEN "negative"
  ELSE "gold"

(* The view that is partitioned: the card fields of a legacy seed's rows are  *)
(* replaced by the identity derived from the seed, so a misaligned legacy row *)
(* is repaired and not rejected.                                              *)
PartitionRecord(seedRows, row) ==
  IF CardOf(seedRows, row.seed) = "legacy"
  THEN [row EXCEPT !.marks = @ \ {"misaligned"}]
  ELSE row

BaseGold(rows, seedRows) ==
  {PartitionRecord(seedRows, r) :
     r \in {x \in rows : Disposition(rows, seedRows, x) = "gold"}}

OracleLabelOnly(rows, seedRows) ==
  {r \in rows : /\ Disposition(rows, seedRows, r) = "negative"
                /\ "teacher_label_disagreement_oracle_label_only" \in OracleLabels(r)}

(* --- lineage ---------------------------------------------------------------- *)

(* The code an edge of the DAG is refused with ("ok" when it is valid); the   *)
(* checks are made in this order.                                             *)
EdgeCode(gold, up, row) ==
  LET sources == {u \in OfTask(gold, up) : u.id = row.src[up]}
      source == CHOOSE u \in sources : TRUE
  IN  IF row.src[up] = Missing THEN "missing_source_record_id"
      ELSE IF sources = {} THEN "source_not_strict_gold"
      ELSE IF Missing \in {row.seed, source.seed} THEN "missing_seed_id"
      ELSE IF row.seed # source.seed THEN "seed_id_mismatch"
      ELSE IF "misaligned" \in row.marks \cup source.marks THEN "alignment_id_mismatch"
      ELSE IF row.embeds[up] # source.body THEN "canonical_input_mismatch"
      ELSE "ok"

EdgeErrors(gold) ==
  UNION {{<<e, r.id>> : r \in {x \in OfTask(gold, e[2]) : EdgeCode(gold, e[1], x) # "ok"}}
           : e \in Edges}

(* The chain below a security row: the ids the valid edges lead to.           *)
Resolved(gold, up, row) ==
  {u \in OfTask(gold, up) : u.id = row.src[up] /\ EdgeCode(gold, up, row) = "ok"}

(* Chains are grown from the security rows backwards, one edge at a time.     *)
Follow(gold, chains, from, field, up) ==
  UNION {{[c EXCEPT ![field] = u] : u \in Resolved(gold, up, c[from])} : c \in chains}

Chains(gold) ==
  LET started == {[security |-> s, review |-> Missing, frontend |-> Missing, tool |-> Missing,
                   plan |-> Missing, toolPlan |-> Missing] : s \in OfTask(gold, "security")}
      reviewed == Follow(gold, started, "security", "review", "review")
      built == Follow(gold, reviewed, "review", "frontend", "frontend")
      allowed == Follow(gold, built, "frontend", "tool", "tool_policy")
      planned == Follow(gold, allowed, "frontend", "plan", "plan")
  IN  Follow(gold, planned, "tool", "toolPlan", "plan")

Whole(chain) == chain.plan.id = chain.toolPlan.id

CompleteSeeds(gold) == {c.security.seed : c \in {d \in Chains(gold) : Whole(d)}}

(* planner_reference_fork, and a second complete chain of one seed.           *)
ChainErrors(gold) ==
  {c.security.id : c \in {d \in Chains(gold) :
     \/ ~ Whole(d)
     \/ \E o \in Chains(gold) : /\ Whole(o) /\ o.security.id # d.security.id
                                /\ o.security.seed = d.security.seed}}

LineageComplete(gold) == EdgeErrors(gold) = {} /\ ChainErrors(gold) = {}

(* --- near duplicates ---------------------------------------------------------- *)

(* Candidates are visited in seed order; one that is similar to an earlier    *)
(* representative loses (a loser represents nobody).                          *)
Representatives(candidates, similar) ==
  CHOOSE reps \in SUBSET candidates :
    \A n \in candidates : n \in reps <=> ~ \E r \in reps : r < n /\ {r, n} \in similar

Losers(gold, similar) ==
  CompleteSeeds(gold) \ Representatives(CompleteSeeds(gold), similar)

(* A defect: only the last stages of a loser move. *)
FinalGoldKeepingPlans(base, losers) == {r \in base : r.task = "plan" \/ r.seed \notin losers}

(* A loser moves out of gold as one whole chain, at every stage.              *)
FinalGold(base, losers) == {r \in base : r.seed \notin losers}

(* --- the manifest ------------------------------------------------------------- *)

TaskBank(gold, seedRows) ==
  {[seed |-> s, card |-> IF \E x \in seedRows : x.seed = s
                         THEN (CHOOSE x \in seedRows : x.seed = s).cardId
                         ELSE <<"legacy-card", s>>] : s \in CompleteSeeds(gold)}

(* One card, one chain, one row per stage, and no held-out source in it.      *)
TaskCardCoverage(gold, seedRows) ==
  LET complete == CompleteSeeds(gold)
  IN  /\ Cardinality({b.card : b \in TaskBank(gold, seedRows)}) = Cardinality(complete)
      /\ \A t \in Tasks : Cardinality(OfTask(gold, t)) = Cardinality(complete)
      /\ \A s \in complete : CardOf(seedRows, s) # "heldout"

CoverageComplete(gold) == \A t \in Tasks : Cardinality(OfTask(gold, t)) >= Minimum

(* The held-out gate re-scans the raw data files, not the gold; it is PASS    *)
(* or FAIL, or DISABLED when no held-out cases are configured.                *)
HeldoutGate(rows, enabled) ==
  IF ~ enabled THEN "DISABLED"
  ELSE IF \A r \in rows : "leaks" \notin r.marks THEN "PASS" ELSE "FAIL"

CountByTask(rows) == [t \in Tasks |-> Cardinality(OfTask(rows, t))]
Total(rows) == Cardinality(rows)

(* _evaluate_gold_lineage's summary.                                          *)
Lineage(gold) ==
  [lineage_complete |-> LineageComplete(gold),
   complete_chain_count |-> Cardinality(CompleteSeeds(gold)),
   sufficient |-> Cardinality(CompleteSeeds(gold)) >= Minimum,
   edge_error_count |-> Cardinality(EdgeErrors(gold)),
   chain_error_count |-> Cardinality(ChainErrors(gold))]

(* The files of a partition, and the manifest that binds them.                *)
PartitionFiles(rows, seedRows, similar) ==
  LET base == BaseGold(rows, seedRows)
      losers == Losers(base, similar)
      gold == FinalGold(base, losers)
      ofKind(d) == {r \in rows : Disposition(rows, seedRows, r) = d}
  IN  [gold |-> gold,
       negative |-> ofKind("negative") \cup {r \in ofKind("gold") : r.seed \in losers},
       reject |-> ofKind("reject"),
       staging |-> rows,
       oracle_label_only |-> OracleLabelOnly(rows, seedRows),
       task_bank |-> TaskBank(gold, seedRows)]

Manifest(rows, seedRows, similar, enabled) ==
  LET files == PartitionFiles(rows, seedRows, similar)
      gold == files.gold
      lineage == Lineage(gold)
      partitioned == Total(rows) = Total(gold) + Total(files.negative) + Total(files.reject)
      integral == \A r \in gold : "secret_detected" \notin r.marks
      carded == TaskCardCoverage(gold, seedRows)
      heldout == HeldoutGate(rows, enabled)
  IN  [files |-> files, raw_by_task |-> CountByTask(rows), gold_by_task |-> CountByTask(gold),
       partition_complete |-> partitioned, gold_integrity_ok |-> integral,
       coverage_complete |-> CoverageComplete(gold),
       coverage_shortfalls |-> {t \in Tasks : CountByTask(gold)[t] < Minimum},
       lineage |-> lineage, task_card_coverage |-> carded, heldout_gate |-> heldout,
       losers |-> Losers(BaseGold(rows, seedRows), similar), complete |-> CompleteSeeds(gold),
       training_ready |-> /\ partitioned /\ integral
                          /\ CoverageComplete(gold)
                          /\ lineage.lineage_complete /\ lineage.sufficient
                          /\ carded
                          /\ heldout # "FAIL"]

(* A file that does not parse, or a row outside the training schema: any      *)
(* earlier manifest is replaced by a blocker and the error is raised.         *)
Malformed(rows) == \E r \in rows : "schema" \in r.marks

BlockedManifest ==
  LET nothing == Lineage({})
  IN  [files |-> [f \in {"gold", "negative", "reject", "staging", "oracle_label_only",
                          "task_bank"} |-> {}],
       raw_by_task |-> CountByTask({}), gold_by_task |-> CountByTask({}),
       partition_complete |-> FALSE, gold_integrity_ok |-> FALSE,
       coverage_complete |-> FALSE, coverage_shortfalls |-> {},
       lineage |-> [nothing EXCEPT !.lineage_complete = FALSE, !.sufficient = FALSE],
       task_card_coverage |-> FALSE, heldout_gate |-> "FAIL",
       losers |-> {}, complete |-> {}, training_ready |-> FALSE]

PartitionResult(rows, seedRows, similar, enabled) ==
  IF Malformed(rows) THEN BlockedManifest ELSE Manifest(rows, seedRows, similar, enabled)
=============================================================================
