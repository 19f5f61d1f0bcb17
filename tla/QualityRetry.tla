----------------------------- MODULE QualityRetry -----------------------------
(***************************************************************************)
(* Quality-retry generations (data/quality_retry.py, data/automation.py).   *)
(*                                                                          *)
(* A partition that is not ready for training is followed by a retry round: *)
(* a plan names, per seed, the earliest task to rebuild; the rows of that   *)
(* task and of all later ones leave the active files and are collected      *)
(* again.  Preparing (by the runner or offline), recovering an interrupted  *)
(* prepare, and restoring the archived corpus rewrite the active files one  *)
(* by one, and status.json last; a process may die between any two writes.  *)
(*                                                                          *)
(* Task t is TASK_ORDER[t].  The stored files are the state; an in-memory   *)
(* status is saved by every event, and so it is the status of status.json.  *)
(***************************************************************************)
EXTENDS Naturals, Sequences, FiniteSets, FiniteSetsExt

CONSTANTS
  Seeds,        \* all seeds
  StageSeeds,   \* the seeds that each collection stage asks for
  GoldFloor,    \* complete chains that a partition must have
  TaskCount,    \* length of TASK_ORDER
  MaxRounds,    \* config.max_quality_retry_rounds
  Texts,        \* answers a teacher may give to one prompt
  None,         \* a file that does not exist
  Restores      \* TRUE: the operator may restore a generation

ASSUME RetryAssumption ==
  /\ IsFiniteSet(Seeds)
  /\ StageSeeds \in Seq(SUBSET Seeds) /\ StageSeeds # << >>
  /\ GoldFloor \in Nat
  /\ TaskCount \in Nat \ {0}
  /\ MaxRounds \in Nat \ {0}
  /\ Texts # {}
  /\ Restores \in BOOLEAN

Tasks       == 1 .. TaskCount
Generations == 1 .. MaxRounds

(* A row of data_<task>.jsonl; generation 0 is a first collection.           *)
Row    == [seed : Seeds, generation : 0 .. MaxRounds, text : Texts]
Corpus == [Tasks -> SUBSET Row]
Root   == [Seeds -> 1 .. TaskCount + 1]   \* TaskCount + 1: not planned
Archive == [before : Corpus, after : Corpus]

ASSUME FilesAssumption ==
  None \notin Corpus /\ None \notin Root /\ None \notin Archive

VARIABLES
  active,       \* the data_<task>.jsonl files
  plan,         \* plan.json of every generation
  manifest,     \* manifest.json: the archived and the projected corpus
  intent,       \* restore-manifest.json: the corpus that restoring abandons
  stage,        \* status.json: stage_index, counted from 1
  state,        \* status.json: state
  partition,    \* status.json: partition is missing, not ready, or ready
  worker,       \* status.json: current_worker is set
  retry,        \* status.json: quality_retry.state
  generation,   \* status.json: quality_retry.generation
  rounds,       \* status.json: quality_retry.rounds_completed
  incomplete,   \* status.json: active_projection_incomplete
  job,          \* what the one live process does
  goal,         \* the generation it prepares or restores
  step,         \* the task it works on; 0 before the first one
  collected     \* history: every row that was ever appended

files  == <<plan, manifest, intent>>
status == <<stage, state, partition, worker, retry, generation, rounds, incomplete>>
vars   == <<active, plan, manifest, intent, stage, state, partition, worker,
            retry, generation, rounds, incomplete, job, goal, step, collected>>

(* stopped: provider_quota_exhausted, budget_exhausted or client_deadline.   *)
Terminal == {"gate_blocked", "stopped", "failed", "complete"}
States   == Terminal \cup {"ready", "running", "cooldown", "quality_retry_ready"}
Jobs     == {"none", "stage", "prepare", "offline", "recover", "restore"}

TypeOK ==
  /\ active \in Corpus
  /\ \A g \in Generations :
       /\ plan[g] \in Root \cup {None}
       /\ manifest[g] \in Archive \cup {None}
       /\ intent[g] \in Corpus \cup {None}
  /\ stage \in 1 .. Len(StageSeeds) + 1
  /\ state \in States
  /\ partition \in {"none", "unready", "ready"}
  /\ worker \in BOOLEAN
  /\ retry \in {"none", "ready", "running", "completed", "restored"}
  /\ generation \in 0 .. MaxRounds
  /\ rounds \in 0 .. MaxRounds
  /\ incomplete \in BOOLEAN
  /\ job \in Jobs
  /\ goal \in Generations
  /\ step \in 0 .. TaskCount + 1
  /\ collected \subseteq (Tasks \X Row)

-------------------------------------------------------------------------------
(* quality_feedback_map: the seeds that generation g plans for task t.       *)
Planned(g, t) == {s \in Seeds : plan[g] # None /\ plan[g][s] <= t}

(* _active_quality_retry_plan: the plan in force, if the retry is under way. *)
InForce(s, t) == retry \in {"ready", "running"} /\ s \in Planned(generation, t)

RowsOf(s, t) == {r \in active[t] : r.seed = s}

(* DistillationPipeline.run: a planned seed is pending until it has a row of *)
(* its generation, any other seed until it has a row.                        *)
Pending(s, t) ==
  IF InForce(s, t)
  THEN \A r \in RowsOf(s, t) : r.generation # generation
  ELSE RowsOf(s, t) = {}

(* distill: the tasks whose rows it reads.  The tasks are plan, tool_policy,  *)
(* frontend, review and security; frontend reads the first two.              *)
Sources(t) == IF t = 3 THEN {1, 2} ELSE Tasks \cap {t - 1}

(* _upstream_record: exactly one row of each, or the job ends in an error.   *)
HasSource(s, t) == \A u \in Sources(t) : Cardinality(RowsOf(s, u)) = 1

Asked == StageSeeds[stage]

(* build_quality_retry_plan: any rejected row may make its task the root; a  *)
(* seed with a missing row is planned from that task at the latest.          *)
PlansNow ==
  {p \in Root :
     /\ \A s \in Asked, t \in Tasks : RowsOf(s, t) = {} => p[s] <= t
     /\ \A s \in Seeds \ Asked : p[s] = TaskCount + 1
     /\ \E s \in Seeds : p[s] \in Tasks}

Projection(p) ==
  [t \in Tasks |-> {r \in active[t] : p[r.seed] > t}]

Manifested == {g \in Generations : manifest[g] # None}

(* A defect: an off-by-one in the age of the archive. *)
OrphanedByTwo == Manifested # {} /\ Max(Manifested) > generation + 1

(* _recover_orphaned_quality_retry: an archive newer than the status.        *)
Orphaned == Manifested # {} /\ Max(Manifested) > generation

-------------------------------------------------------------------------------
(* The runner.                                                               *)

(* A process starts, or the loop comes around.  A changed quota epoch puts   *)
(* every state but complete back to running (automation.py:1561-1580).       *)
BeginRound ==
  /\ job = "none" /\ ~Orphaned /\ stage <= Len(StageSeeds)
  /\ \E newEpoch \in BOOLEAN :
       state \notin Terminal \/ (newEpoch /\ state # "complete")
  /\ job' = "stage" /\ step' = 1
  /\ state' = "running" /\ worker' = TRUE
  /\ retry' = IF retry = "ready" THEN "running" ELSE retry
  /\ UNCHANGED <<active, files, stage, partition, generation, rounds,
                 incomplete, goal, collected>>

Collect(s, x) ==
  /\ job = "stage" /\ step \in Tasks
  /\ s \in Asked /\ Pending(s, step) /\ HasSource(s, step)
  /\ LET row == [seed |-> s, text |-> x,
                 generation |-> IF InForce(s, step) THEN generation ELSE 0]
     IN /\ active' = [active EXCEPT ![step] = @ \cup {row}]
        /\ collected' = collected \cup {<<step, row>>}
  /\ UNCHANGED <<files, status, job, goal, step>>

(* The task's workers are done; jobs that failed leave no row.               *)
NextTask ==
  /\ job = "stage" /\ step \in Tasks
  /\ step' = step + 1
  /\ UNCHANGED <<active, files, status, job, goal, collected>>

(* A rate limit or a client deadline.  Raised while seeds are generated, it  *)
(* leaves current_worker set.                                                *)
StageStops ==
  /\ job = "stage"
  /\ job' = "none"
  /\ state' \in {"stopped", "cooldown"}
  /\ worker' \in BOOLEAN
  /\ UNCHANGED <<active, files, stage, partition, retry, generation, rounds,
                 incomplete, goal, step, collected>>

(* _partition_terminal_collection: a provider quota or the budget is spent,  *)
(* and what was collected is partitioned without looking at its readiness.   *)
StageCloses ==
  /\ job = "stage"
  /\ job' = "none"
  /\ \/ state' \in {"gate_blocked", "failed"} /\ UNCHANGED partition
     \/ state' = "stopped" /\ partition' \in {"unready", "ready"}
  /\ worker' \in BOOLEAN
  /\ UNCHANGED <<active, files, stage, retry, generation, rounds, incomplete,
                 goal, step, collected>>

(* An exception leaves current_worker as it was.                             *)
StageFails ==
  /\ job = "stage"
  /\ job' = "none"
  /\ state' = "failed"
  /\ UNCHANGED <<active, files, stage, partition, worker, retry, generation,
                 rounds, incomplete, goal, step, collected>>

(* The held-out gate or the partition itself refuses the collection.         *)
CollectionBlocked ==
  /\ job = "stage" /\ step = TaskCount + 1
  /\ job' = "none"
  /\ state' \in {"gate_blocked", "failed"}
  /\ worker' = FALSE
  /\ UNCHANGED <<active, files, stage, partition, retry, generation, rounds,
                 incomplete, goal, step, collected>>

Chains == {s \in Asked : \A t \in Tasks : RowsOf(s, t) # {}}

(* training_ready: enough chains are complete, and none of the rows that     *)
(* exist was found wanting.  rounds_completed keeps its value.               *)
PartitionReady ==
  /\ job = "stage" /\ step = TaskCount + 1
  /\ Cardinality(Chains) >= GoldFloor
  /\ job' = "none"
  /\ stage' = stage + 1
  /\ state' = IF stage = Len(StageSeeds) THEN "complete" ELSE state
  /\ partition' = "ready" /\ worker' = FALSE
  /\ retry' = IF retry = "none" THEN "none" ELSE "completed"
  /\ incomplete' = FALSE
  /\ UNCHANGED <<active, files, generation, rounds, goal, step, collected>>

(* A running retry is closed.  Another round is prepared unless quality      *)
(* stagnates or nothing can be scheduled (either may be), or none is left.   *)
PartitionNotReady ==
  /\ job = "stage" /\ step = TaskCount + 1
  /\ partition' = "unready" /\ worker' = FALSE
  /\ retry' = IF retry = "running" THEN "completed" ELSE retry
  /\ rounds' = IF retry = "running" THEN generation ELSE rounds
  /\ \/ job' = "none" /\ state' = "gate_blocked" /\ UNCHANGED <<goal, step>>
     \/ /\ rounds' < MaxRounds
        /\ job' = "prepare" /\ goal' = rounds' + 1 /\ step' = 0
        /\ UNCHANGED state
  /\ UNCHANGED <<active, files, stage, generation, incomplete, collected>>

-------------------------------------------------------------------------------
(* Preparing a generation: prepare_quality_retry_projection.                 *)

OfflinePrepare ==
  /\ job = "none"
  /\ state = "gate_blocked" /\ partition = "unready" /\ ~worker
  /\ LET done == IF retry = "completed" THEN Max({rounds, generation}) ELSE rounds
     IN done < MaxRounds /\ goal' = done + 1
  /\ job' = "offline" /\ step' = 0
  /\ UNCHANGED <<active, files, status, collected>>

RecoverOrphan ==
  /\ job = "none" /\ Orphaned
  /\ job' = "recover" /\ goal' = Max(Manifested) /\ step' = 0
  /\ UNCHANGED <<active, files, status, collected>>

Preparing == job \in {"prepare", "offline", "recover"}

(* An archived plan is reused, whatever was collected since.                 *)
WritePlan ==
  /\ Preparing /\ step = 0
  /\ plan[goal] = None
  /\ \E p \in PlansNow : plan' = [plan EXCEPT ![goal] = p]
  /\ UNCHANGED <<active, manifest, intent, status, job, goal, step, collected>>

(* A defect: the archive is taken after the projection. *)
WriteManifestOfProjection ==
  /\ Preparing /\ step = 0
  /\ plan[goal] # None /\ manifest[goal] = None
  /\ manifest' = [manifest EXCEPT ![goal] =
                    [before |-> Projection(plan[goal]),
                     after |-> Projection(plan[goal])]]
  /\ active' = Projection(plan[goal])
  /\ step' = 1
  /\ UNCHANGED <<plan, intent, status, job, goal, collected>>

(* The archives, the projections and the manifest that binds them; without   *)
(* the manifest nobody reads the others, so they are one step.               *)
WriteManifest ==
  /\ Preparing /\ step = 0
  /\ plan[goal] # None /\ manifest[goal] = None
  /\ manifest' = [manifest EXCEPT ![goal] =
                    [before |-> active, after |-> Projection(plan[goal])]]
  /\ step' = 1
  /\ UNCHANGED <<active, plan, intent, status, job, goal, collected>>

(* The manifest exists already: its file writes are replayed.                *)
ReplayManifest ==
  /\ Preparing /\ step = 0
  /\ manifest[goal] # None
  /\ step' = 1
  /\ UNCHANGED <<active, files, status, job, goal, collected>>

(* A defect: a file is skipped. *)
ProjectFileUnwritten ==
  /\ Preparing /\ step \in Tasks
  /\ active[step] \in {manifest[goal].before[step], manifest[goal].after[step]}
  /\ step' = step + 1
  /\ UNCHANGED <<active, files, status, job, goal, collected>>

ProjectFile ==
  /\ Preparing /\ step \in Tasks
  /\ active[step] \in {manifest[goal].before[step], manifest[goal].after[step]}
  /\ active' = [active EXCEPT ![step] = manifest[goal].after[step]]
  /\ step' = step + 1
  /\ UNCHANGED <<files, status, job, goal, collected>>

(* "active collection changed": the files before this one stay projected.    *)
ProjectRefused ==
  /\ Preparing /\ step \in Tasks
  /\ active[step] \notin {manifest[goal].before[step], manifest[goal].after[step]}
  /\ job' = "none"
  /\ state' = IF job = "prepare" THEN "failed" ELSE state
  /\ UNCHANGED <<active, files, stage, partition, worker, retry, generation,
                 rounds, incomplete, goal, step, collected>>

PrepareCommit ==
  /\ Preparing /\ step = TaskCount + 1
  /\ job' = "none"
  /\ retry' = "ready" /\ generation' = goal /\ rounds' = goal - 1
  /\ incomplete' = TRUE /\ state' = "quality_retry_ready"
  /\ UNCHANGED <<active, files, stage, partition, worker, goal, step,
                 collected>>

-------------------------------------------------------------------------------
(* Restoring: restore_quality_retry_offline, restore_quality_retry_projection. *)

RestoreBegin ==
  /\ Restores
  /\ job = "none"
  /\ ~worker /\ state \notin {"running", "cooldown"}
  /\ Manifested # {} /\ generation = Max(Manifested)
  /\ job' = "restore" /\ goal' = generation /\ step' = 0
  /\ UNCHANGED <<active, files, status, collected>>

(* An intent of an earlier restore of this generation is kept.               *)
RestoreIntent ==
  /\ job = "restore" /\ step = 0
  /\ intent' = IF intent[goal] = None THEN [intent EXCEPT ![goal] = active]
               ELSE intent
  /\ step' = 1
  /\ UNCHANGED <<active, plan, manifest, status, job, goal, collected>>

RestoreFile ==
  /\ job = "restore" /\ step \in Tasks
  /\ active[step] \in {intent[goal][step], manifest[goal].before[step]}
  /\ active' = [active EXCEPT ![step] = manifest[goal].before[step]]
  /\ step' = step + 1
  /\ UNCHANGED <<files, status, job, goal, collected>>

RestoreRefused ==
  /\ job = "restore" /\ step \in Tasks
  /\ active[step] \notin {intent[goal][step], manifest[goal].before[step]}
  /\ job' = "none"
  /\ UNCHANGED <<active, files, status, goal, step, collected>>

RestoreCommit ==
  /\ job = "restore" /\ step = TaskCount + 1
  /\ job' = "none"
  /\ retry' = "restored" /\ incomplete' = FALSE /\ state' = "gate_blocked"
  /\ UNCHANGED <<active, files, stage, partition, worker, generation, rounds,
                 goal, step, collected>>

-------------------------------------------------------------------------------
Crash ==
  /\ job # "none"
  /\ job' = "none"
  /\ UNCHANGED <<active, files, status, goal, step, collected>>

Init ==
  /\ active = [t \in Tasks |-> {}]
  /\ plan = [g \in Generations |-> None]
  /\ manifest = [g \in Generations |-> None]
  /\ intent = [g \in Generations |-> None]
  /\ stage = 1 /\ state = "ready" /\ partition = "none" /\ worker = FALSE
  /\ retry = "none" /\ generation = 0 /\ rounds = 0 /\ incomplete = FALSE
  /\ job = "none" /\ goal = 1 /\ step = 0
  /\ collected = {}

Round == BeginRound \/ NextTask \/ StageStops \/ StageCloses \/ StageFails
           \/ CollectionBlocked \/ PartitionReady \/ PartitionNotReady

Prepare == OfflinePrepare \/ RecoverOrphan \/ WritePlan \/ WriteManifest
             \/ ReplayManifest \/ ProjectFile \/ ProjectRefused \/ PrepareCommit

Restore == RestoreBegin \/ RestoreIntent \/ RestoreFile \/ RestoreRefused
             \/ RestoreCommit

Next ==
  \/ \E s \in Seeds, x \in Texts : Collect(s, x)
  \/ Round
  \/ Prepare
  \/ Restore
  \/ Crash

Spec == Init /\ [][Next]_vars

-------------------------------------------------------------------------------
(* Properties.                                                               *)

(* What the code guards only while no generation was ever restored: status is *)
(* saved after the files of a restore, and recovery knows a prepare by its    *)
(* new generation, which a generation prepared once more is not.              *)
NothingRestored == \A g \in Generations : intent[g] = None

(* Raw teacher history is never lost (quality_retry.py:3-5): a row that was  *)
(* ever collected is active, or in the archive of a generation, or in the    *)
(* corpus that a restore set aside.                                          *)
HistoryRecoverable ==
  \A t \in Tasks, r \in Row : <<t, r>> \in collected =>
    \/ r \in active[t]
    \/ \E g \in Manifested : r \in manifest[g].before[t]
    \/ \E g \in Generations : intent[g] # None /\ r \in intent[g][t]

(* A seed has at most one row in a task file: with two, every later task of  *)
(* that seed is refused as ambiguous (pipeline.py:785-788).  Interrupted     *)
(* prepares keep it.                                                         *)
OneRowPerSeed ==
  \A s \in Seeds, t \in Tasks : Cardinality(RowsOf(s, t)) <= 1

(* While a stage of a retry runs, a seed planned for a task has no row older *)
(* than the generation: what is partitioned afterwards was rebuilt or is     *)
(* missing, never the row the plan rejected (quality_retry.py:442-445).      *)
RejectedRowsStayOut ==
  job = "stage" =>
    \A t \in Tasks, s \in Seeds : InForce(s, t) =>
      \A r \in RowsOf(s, t) : r.generation = generation

(* Rows are hidden from the active corpus only while status.json says so or  *)
(* the next runner finishes the prepare (automation.py:1651-1652): a stage   *)
(* that runs outside a retry sees every row of the latest archive.           *)
HiddenRowsAreFlagged ==
  (job = "stage" /\ NothingRestored) =>
    \A g \in Manifested, t \in Tasks :
      g = Max(Manifested) /\ ~(manifest[g].before[t] \subseteq active[t])
        => incomplete \/ retry = "completed"

(* "on resume an active file must equal either its before or after digest"   *)
(* (quality_retry.py:361-363): nobody else writes the files, so the runner   *)
(* never prepares, or recovers, against a third content and is refused.      *)
ReplayMeetsKnownFiles ==
  (job \in {"prepare", "recover"} /\ step \in Tasks) =>
    active[step] \in {manifest[goal].before[step], manifest[goal].after[step]}

(* The same, in the first stage: an interrupted prepare resumes over files   *)
(* it knows, and closing a round counts it before the next one is prepared   *)
(* (automation.py:2453-2459).                                                *)
FirstStageReplays == stage = 1 => ReplayMeetsKnownFiles

(* A retry never doubles a row, never lets a rejected one back in, and never *)
(* meets a task file it does not know, whatever dies between two writes.     *)
Safety ==
  TypeOK /\ (NothingRestored => OneRowPerSeed /\ RejectedRowsStayOut /\ FirstStageReplays)
===============================================================================
