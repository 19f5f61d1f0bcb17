------------------------------ MODULE LiveBatch ------------------------------
(* The live tool harness: a batch runs its candidates stage by stage in       *)
(* isolated workspaces, captures each controlled session, persists every      *)
(* attempt before the accepted gold and opens the next stage only after the   *)
(* last one passed (tooling/batch.py, harness.py, runner.py, gold.py,         *)
(* scripts/tooling/run_live.py).  The staged sessions of collect mode are     *)
(* partitioned offline (tooling/session_partition.py).  One command runs at   *)
(* a time; it may die at any step and be started again.                       *)
EXTENDS SessionExport, FiniteSets, SequencesExt

CONSTANTS Stages,        \* sequence of [width, count], the configured ramp
          Manifests,     \* candidate manifests, each [audited, tasks]: a sequence of samples
          TaskOf,        \* sample -> [text, mentions, required, protected, inputs, requirement, changes]
          HeldOut,       \* [inputs, ids, texts]: the independent held-out inputs and what they hold
          MinimumRate,   \* minimum_stage_success_rate, in percent
          Outcomes,      \* what executing a sample may yield, by name
          OutcomeOf,     \* name -> [session, exported, protected, fixture]
          MaxRuns,       \* bound: batches started
          MaxWorkspaces, \* bound: workspaces created
          MaxPartitions, \* bound: offline partitions started
          None

ASSUME LiveBatchAssumption ==
  /\ MinimumRate \in 0..100
  /\ Stages \in Seq([width : Nat \ {0}, count : Nat \ {0}])
  /\ \A man \in Manifests : man.tasks \in Seq(DOMAIN TaskOf)
  /\ \A o \in Outcomes :
       /\ OutcomeOf[o].session.diff \in {"none", "valid", "broken"}
       /\ OutcomeOf[o].session.outcome \in {"completed", "blocked", "partial", "none"}
  /\ MaxRuns \in Nat /\ MaxWorkspaces \in Nat /\ MaxPartitions \in Nat

VARIABLES run,        \* the batch: [mode, plan, stage, step], or None; plan: stage -> its samples
          todo,       \* samples of the stage not yet submitted
          working,    \* samples in a workspace: sample -> workspace
          done,       \* records of the stage, in memory
          failures,   \* a sample of the stage raised
          used,       \* workspaces created so far
          attempts,   \* live_attempts.jsonl: the ledger
          gold,       \* live_gold.accepted.jsonl
          candidates, \* session_candidates.jsonl: [sample, ws]
          staging,    \* session_staging.raw.jsonl, a line each
          refusals,   \* samples with a line in the quarantine file
          partition,  \* the offline pass: [step, lines], or None
          filtered,   \* its three output files: [gold, negative, reject]
          started     \* [runs, partitions] so far

batch == <<run, todo, working, done, failures>>
ledgers == <<attempts, gold>>
captures == <<candidates, staging, refusals>>
offline == <<partition, filtered>>
batchVars == <<run, todo, working, done, failures, used, attempts, gold, candidates,
          staging, refusals, partition, filtered, started>>

Torn == "torn"

BatchInit ==
  /\ run = None /\ todo = {} /\ working = <<>> /\ done = {} /\ failures = FALSE
  /\ used = 0
  /\ attempts = {} /\ gold = {} /\ candidates = {} /\ staging = <<>> /\ refusals = {}
  /\ partition = None
  /\ filtered = [gold |-> {}, negative |-> {}, reject |-> {}]
  /\ started = [runs |-> 0, partitions |-> 0]

(* --- the candidates -------------------------------------------------------------- *)

(* verify_execution_split: the manifest is an audited input, and every        *)
(* held-out input is another file that still has its recorded hash.           *)
SplitVerified(man) ==
  /\ man.audited
  /\ HeldOut.inputs # {} /\ \A h \in HeldOut.inputs : h.intact /\ ~h.candidate

(* One task of load_candidate_samples: it is not a held-out case, neither     *)
(* repeats nor names one, and protects what its verdict will rest on.         *)
CandidateValid(tasks, i) ==
  LET x == tasks[i]
      t == TaskOf[x]
  IN  /\ \A j \in 1..(i - 1) : tasks[j] # x
      /\ x \notin HeldOut.ids
      /\ t.text \notin HeldOut.texts /\ t.mentions \cap HeldOut.ids = {}
      /\ t.required # {} /\ t.required \subseteq Validators
      /\ t.protected \cap t.inputs = {}
      /\ "package.json" \in t.protected
      /\ t.requirement # None => t.requirement \in t.protected
      /\ "test" \in t.required => "test/" \in t.protected

CandidatesLoad(man) ==
  /\ man.tasks # <<>>
  /\ \A i \in DOMAIN man.tasks : CandidateValid(man.tasks, i)

(* run_live_batch takes the samples of the requested stages in manifest       *)
(* order: where each stage begins among n samples, if they are enough.        *)
Offsets(last, n) ==
  {at \in [1..(last + 1) -> 0..n] :
     at[1] = 0 /\ \A k \in 1..last : at[k + 1] = at[k] + Stages[k].count}
Plan(tasks, at, last) ==
  [k \in 1..last |-> {tasks[at[k] + i] : i \in 1..Stages[k].count}]

(* --- one sample ---------------------------------------------------------------- *)

SessionOf(o) == OutcomeOf[o].session

(* finalize_capture: the session is converted in the mode of the batch; a     *)
(* missing export refuses it, and a failed sandbox cleanup refuses even what  *)
(* was converted.                                                             *)
Converted(o, mode) ==
  /\ OutcomeOf[o].exported
  /\ IF mode = "collect" THEN StagingAccepts(SessionOf(o)) ELSE StrictAccepts(SessionOf(o))

ScriptsPass(x, checks) ==
  /\ \A n \in TaskOf[x].required : \E c \in Elements(checks) : c.name = n /\ c.status = "PASS"
  /\ \A c \in Elements(checks) : c.status \in {"PASS", "SKIP"}

(* A defect: the verdict does not ask whether the session was captured.       *)
SucceededUncaptured(x, o, captured) ==
  LET s == SessionOf(o) IN
  /\ s.quality.exit = 0 /\ ~s.quality.timedOut
  /\ s.quality.rejected = 0 /\ s.quality.errors = {}
  /\ OutcomeOf[o].fixture /\ ~OutcomeOf[o].protected
  /\ TaskOf[x].changes => s.diff # "none"
  /\ s.outcome = "completed"
  /\ ScriptsPass(x, s.checks)

(* run_sample: the verdict is formed after the capture, from the execution,   *)
(* the protected and input files of the fixture, the validators and whether   *)
(* the session was captured.                                                  *)
Succeeded(x, o, captured) ==
  LET s == SessionOf(o) IN
  /\ s.quality.exit = 0 /\ ~s.quality.timedOut
  /\ s.quality.rejected = 0 /\ s.quality.errors = {}
  /\ OutcomeOf[o].fixture /\ ~OutcomeOf[o].protected
  /\ captured
  /\ TaskOf[x].changes => s.diff # "none"
  /\ s.outcome = "completed"
  /\ ScriptsPass(x, s.checks)

Record(x, ws, o, captured, mode) ==
  [sample |-> x, ws |-> ws, success |-> Succeeded(x, o, captured),
   hardReject |-> mode = "collect" /\ ~captured]

FailureRecord(x) == [sample |-> x, ws |-> 0, success |-> FALSE, hardReject |-> FALSE]

(* append_jsonl adds to the end of the file whatever is there: a line a crash *)
(* left unfinished swallows the next one.                                     *)
AppendLine(lines, line) ==
  IF lines # <<>> /\ Last(lines) = [kind |-> "open"]
  THEN Append(Front(lines), [kind |-> Torn])
  ELSE Append(lines, line)

StagedLine(x, ws, o) == [kind |-> "row", sample |-> x, ws |-> ws, outcome |-> o]

Running(step) == run # None /\ run.step = step

Submit(x) ==
  /\ Running("stage") /\ x \in todo /\ used < MaxWorkspaces
  /\ Cardinality(DOMAIN working) < Stages[run.stage].width
  /\ todo' = todo \ {x}
  /\ used' = used + 1
  /\ working' = [y \in DOMAIN working \cup {x} |-> IF y = x THEN used + 1 ELSE working[y]]
  /\ UNCHANGED <<run, done, failures, ledgers, captures, offline, started>>

Leave(x) == working' = [y \in DOMAIN working \ {x} |-> working[y]]

(* The sample runs to its end: the session is kept or quarantined under the   *)
(* capture lock and the record goes back to the pool.                         *)
Finish(x) ==
  \E o \in Outcomes, cleaned \in BOOLEAN :
    LET kept == Converted(o, run.mode) /\ cleaned
        ws == working[x]
    IN /\ Running("stage") /\ x \in DOMAIN working
       /\ IF ~kept
          THEN /\ refusals' = refusals \cup {x}
               /\ UNCHANGED <<candidates, staging>>
          ELSE IF run.mode = "collect"
          THEN /\ staging' = AppendLine(staging, StagedLine(x, ws, o))
               /\ UNCHANGED <<candidates, refusals>>
          ELSE /\ candidates' = candidates \cup {[sample |-> x, ws |-> ws]}
               /\ UNCHANGED <<staging, refusals>>
       /\ Leave(x)
       /\ done' = done \cup {Record(x, ws, o, kept, run.mode)}
       /\ UNCHANGED <<run, todo, failures, used, ledgers, offline, started>>

(* An exception inside run_sample, before the capture or when the workspace   *)
(* is removed after it, is reduced to a failure record; siblings go on.       *)
Raise(x) ==
  /\ Running("stage") /\ x \in DOMAIN working
  /\ \/ UNCHANGED <<candidates, staging>>
     \/ /\ run.mode = "collect"
        /\ \E o \in Outcomes :
             /\ Converted(o, "collect")
             /\ staging' = AppendLine(staging, StagedLine(x, working[x], o))
        /\ UNCHANGED candidates
     \/ /\ run.mode = "strict"
        /\ \E o \in Outcomes : Converted(o, "strict")
        /\ candidates' = candidates \cup {[sample |-> x, ws |-> working[x]]}
        /\ UNCHANGED staging
  /\ Leave(x)
  /\ done' = done \cup {FailureRecord(x)}
  /\ failures' = TRUE
  /\ UNCHANGED <<run, todo, used, ledgers, refusals, offline, started>>

(* --- the batch ------------------------------------------------------------------- *)

OpenStage(mode, plan, k) ==
  /\ run' = [mode |-> mode, plan |-> plan, stage |-> k, step |-> "stage"]
  /\ todo' = plan[k]
  /\ working' = <<>> /\ done' = {} /\ failures' = FALSE

EndBatch ==
  /\ run' = None /\ todo' = {} /\ working' = <<>> /\ done' = {} /\ failures' = FALSE

(* main of run_live.py: nothing runs unless the split policy holds and every  *)
(* candidate of the manifest loads; with --max-stages the first stages of the *)
(* ramp are run from the first, and there must be candidates enough for them. *)
Start ==
  /\ run = None /\ started.runs < MaxRuns
  /\ started' = [started EXCEPT !.runs = @ + 1]
  /\ \E mode \in {"strict", "collect"}, last \in DOMAIN Stages, man \in Manifests :
       /\ SplitVerified(man) /\ CandidatesLoad(man)
       /\ \E at \in Offsets(last, Len(man.tasks)) :
            OpenStage(mode, Plan(man.tasks, at, last), 1)
  /\ UNCHANGED <<used, ledgers, captures, offline>>

(* on_stage: every attempt is merged first, whatever its outcome; a collect   *)
(* batch leaves the accepted gold alone.                                      *)
PersistAttempts ==
  /\ Running("stage") /\ todo = {} /\ working = <<>>
  /\ attempts' = attempts \cup done
  /\ run' = [run EXCEPT !.step = IF @ = "stage" /\ run.mode = "strict" THEN "gold" ELSE "judge"]
  /\ UNCHANGED <<todo, working, done, failures, used, gold, captures, offline, started>>

Accepted == {r \in done : r.success}
Conflict == \E r \in Accepted, g \in gold : r.sample = g.sample /\ r # g

(* A defect: the record of the rerun replaces the one that was gold.          *)
PersistGoldReplacing ==
  /\ Running("gold")
  /\ gold' = Accepted \cup {g \in gold : \A r \in Accepted : r.sample # g.sample}
  /\ run' = [run EXCEPT !.step = "judge"]
  /\ UNCHANGED <<todo, working, done, failures, used, attempts, captures, offline, started>>

(* merge_gold_jsonl: a differing record of a sample that is already gold      *)
(* raises, and ends the whole batch.                                          *)
PersistGold ==
  /\ Running("gold") /\ ~Conflict
  /\ gold' = gold \cup Accepted
  /\ run' = [run EXCEPT !.step = "judge"]
  /\ UNCHANGED <<todo, working, done, failures, used, attempts, captures, offline, started>>

RefuseGold ==
  /\ Running("gold") /\ Conflict
  /\ EndBatch
  /\ UNCHANGED <<used, ledgers, captures, offline, started>>

(* A defect: a stage in which nothing raised passes, whatever it accepted.    *)
StagePassedWithoutRaise == ~failures

StagePassed ==
  /\ ~failures
  /\ IF run.mode = "collect"
     THEN \A r \in done : ~r.hardReject
     ELSE Cardinality(Accepted) * 100 >= MinimumRate * Stages[run.stage].count

Judge ==
  /\ Running("judge")
  /\ IF StagePassed /\ run.stage < Len(run.plan)
     THEN OpenStage(run.mode, run.plan, run.stage + 1)
     ELSE EndBatch
  /\ UNCHANGED <<used, ledgers, captures, offline, started>>

(* The process dies: the records of the stage are lost; a staging line may be *)
(* left unfinished.                                                           *)
BatchDies ==
  /\ run # None
  /\ EndBatch
  /\ \/ UNCHANGED staging
     \/ /\ run.mode = "collect" /\ working # <<>>
        /\ staging' = AppendLine(staging, [kind |-> "open"])
  /\ UNCHANGED <<used, ledgers, candidates, refusals, offline, started>>

(* --- the offline partition --------------------------------------------------------- *)

(* The verdict of validate_staging_record on the staged form of each outcome. *)
ValidOutcomes == {o \in Outcomes : RecordValid(Staged(SessionOf(o)))}
CleanOutcomes == {o \in ValidOutcomes : DerivedLabels(Staged(SessionOf(o))) = {}}
StrictOutcomes == {o \in Outcomes : StrictAccepts(SessionOf(o))}

RowValid(line) == line.kind = "row" /\ line.outcome \in ValidOutcomes

(* A label-free row is gold unless an earlier line of its sample was.         *)
GoldRow(lines, i) == lines[i].kind = "row" /\ lines[i].outcome \in CleanOutcomes
(* A defect: any earlier line of the sample makes a row a duplicate.          *)
DuplicateOfAnyLine(lines, i) ==
  GoldRow(lines, i) /\ \E j \in 1..(i - 1) : lines[j].kind = "row" /\ lines[j].sample = lines[i].sample

Duplicate(lines, i) ==
  GoldRow(lines, i) /\ \E j \in 1..(i - 1) : GoldRow(lines, j) /\ lines[j].sample = lines[i].sample

PartitionGold(lines) == {i \in DOMAIN lines : GoldRow(lines, i) /\ ~Duplicate(lines, i)}
PartitionNegative(lines) == {i \in DOMAIN lines : RowValid(lines[i]) /\ ~GoldRow(lines, i)}
PartitionReject(lines) == {i \in DOMAIN lines : ~RowValid(lines[i]) \/ Duplicate(lines, i)}

(* The pass is offline: it is started on a staging file no batch appends to.  *)
ReadStaging ==
  /\ run = None /\ partition = None /\ started.partitions < MaxPartitions
  /\ partition' = [step |-> "gold", lines |-> staging]
  /\ started' = [started EXCEPT !.partitions = @ + 1]
  /\ UNCHANGED <<batch, used, ledgers, captures, filtered>>

(* The three files are replaced one after the other.                          *)
WriteGold ==
  /\ partition # None /\ partition.step = "gold"
  /\ filtered' = [filtered EXCEPT !.gold =
       {partition.lines[i] : i \in PartitionGold(partition.lines)}]
  /\ partition' = [partition EXCEPT !.step = "negative"]
  /\ UNCHANGED <<batch, used, ledgers, captures, started>>

WriteNegative ==
  /\ partition # None /\ partition.step = "negative"
  /\ filtered' = [filtered EXCEPT !.negative =
       {partition.lines[i] : i \in PartitionNegative(partition.lines)}]
  /\ partition' = [partition EXCEPT !.step = "reject"]
  /\ UNCHANGED <<batch, used, ledgers, captures, started>>

WriteReject ==
  /\ partition # None /\ partition.step = "reject"
  /\ filtered' = [filtered EXCEPT !.reject =
       {<<i, partition.lines[i]>> : i \in PartitionReject(partition.lines)}]
  /\ partition' = None
  /\ UNCHANGED <<batch, used, ledgers, captures, started>>

CrashPartition ==
  /\ partition # None
  /\ partition' = None
  /\ UNCHANGED <<batch, used, ledgers, captures, filtered, started>>

Samples == DOMAIN TaskOf

BatchNext ==
  \/ Start \/ PersistAttempts \/ PersistGold \/ RefuseGold \/ Judge \/ BatchDies
  \/ \E x \in Samples : Submit(x)
  \/ \E x \in Samples : Finish(x)
  \/ \E x \in Samples : Raise(x)
  \/ ReadStaging \/ WriteGold \/ WriteNegative \/ WriteReject \/ CrashPartition

BatchSpec == BatchInit /\ [][BatchNext]_batchVars

(* --- properties ---------------------------------------------------------------------- *)

(* Accepted gold is proven twice: its attempt is in the ledger, whatever      *)
(* crash fell between the two merges, and the session of the very workspace   *)
(* that produced it was captured strictly; and its task is none of the        *)
(* held-out ones, under another name either                                   *)
(* (gold.py persist_attempts_and_gold, runner.py finalize_capture, batch.py   *)
(* load_candidate_samples).                                                   *)
GoldIsProven ==
  \A g \in gold :
    /\ g \in attempts /\ g.success
    /\ [sample |-> g.sample, ws |-> g.ws] \in candidates
    /\ g.sample \notin HeldOut.ids /\ TaskOf[g.sample].text \notin HeldOut.texts

(* A sample that once entered accepted gold keeps its record for ever: a      *)
(* rerun, a crash or a collect batch neither replaces nor removes it          *)
(* (gold.py merge_gold_jsonl).                                                *)
GoldNeverRewritten ==
  [][/\ gold \subseteq gold'
     /\ \A g, h \in gold' : g.sample = h.sample => g = h]_gold

(* A later stage of the ramp runs only over persisted evidence of the earlier *)
(* ones: each of their samples has an attempt in the ledger and, in strict    *)
(* mode, enough of them are accepted gold (batch.py run_live_batch).          *)
StageOpensAfterPass ==
  run # None =>
    \A k \in 1..(run.stage - 1) :
      /\ \A x \in run.plan[k] : \E a \in attempts : a.sample = x
      /\ run.mode = "strict" =>
           Cardinality({g \in gold : g.sample \in run.plan[k]}) * 100
             >= MinimumRate * Stages[k].count

(* The offline pass keeps every line of the staging file it read in exactly   *)
(* one output, rejects only unreadable lines and second gold rows of a        *)
(* sample - never a session because its labels were derived differently - and *)
(* what it calls gold the strict conversion would have accepted               *)
(* (session_partition.py partition_staging_jsonl).                            *)
PartitionIsExact ==
  /\ (partition # None /\ partition.step = "gold") =>
       \A i \in DOMAIN partition.lines :
         /\ \/ i \in PartitionGold(partition.lines) /\ i \notin PartitionNegative(partition.lines)
            \/ i \in PartitionNegative(partition.lines)
            \/ i \in PartitionReject(partition.lines)
         /\ (i \in PartitionReject(partition.lines) /\ partition.lines[i].kind = "row")
              => \E j \in PartitionGold(partition.lines) :
                   j < i /\ partition.lines[j].sample = partition.lines[i].sample
  /\ \A g \in filtered.gold : g.outcome \in StrictOutcomes
  /\ \A g, h \in filtered.gold : g.sample = h.sample => g = h
=============================================================================
