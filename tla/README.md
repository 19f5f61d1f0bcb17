# Verification of anchor-moe-lora

TLA+ models of this repository from the collection of training data to the
training job, the TLC runs that check them, and TLAPS proofs about them.
`PROJECT.json` lists the components, the runs, the source lines each definition
stands for, the hazards and the theorems.

## 1. The system

The program collects training data for five small adapters from a remote
teacher model, checks and partitions it, freezes it into a snapshot, proves on a
live tool harness that it is usable, trains the adapters and serves them as a
fail-closed chain. `automation.py` drives the collection as a resumable runner,
`handoff.py` the way from there to the training. Nearly all state is in files that
several short-lived processes read and write, mostly without a lock:

| file | written by | content |
| --- | --- | --- |
| `status.json`, `events.jsonl` | runner, offline commands | state, stage, quota epoch, failure ledger, retry; what happened |
| `seeds.jsonl`, `data_<task>.jsonl` | seed generation, task pipeline, retries | one row per seed and task |
| `quality_retry/generation-N/` | retry commands | plan, archived rows, manifest, restore intent |
| `partition/` | runner, `--partition-only` | gold, rejects and sidecars, manifest last |
| snapshot directory | snapshot commands | copies of the gold files, bound by hash |
| merged shard directory | merge commands | rows of several collections under one lock file |
| `live_attempts`, `live_gold.accepted`, session candidates and staging | live harness | what each sample did, and what counts |
| handoff status, frozen manifest and sidecar, `gpu-job.lock` | coordinator, training child | phase, jobs; which bytes are trained on |
| metadata cache, journal, backups, active files | sync commands | which upstream metadata is installed |
| shard locks, run manifests | control plane | which child owns which shard |

### Components

For each: its state and operations, what is hard, what makes it correct.

**Durable JSONL store** (`data/storage.py`). A file and a set of known ids; load,
append. Hard: torn lines, short writes, failing fsync, other writers. Correct: what
append acknowledged is found again, unless its write came up short; a damaged file
fails loudly.

**Seed generation** (`data/pipeline.py`, `generate_seeds`). The seed file, rejected
attempts, and in memory target, next index and fingerprints. Hard: the index of a
seed is decided before a request and used after it; rejected seeds own their index
for ever; rounds replace what was rejected. Correct: one owner per index, one
request per fingerprint, no holes, not more than asked.

**Task pipeline** (`data/pipeline.py` `run`, `automation.py` `_run_stage`). Five task
files, an iterator of jobs, a stop flag. Hard: workers stop each other, some die, a
report may be lost. Correct: one row per seed and task, built on existing sources;
nothing new asked after a stop; a report accounts for every seed; a hopeless job is
given up, and done again only when a quality plan names it.

**Budget** (`automation.py` `_TrackedTeacher`, `_checkpoint_usage`; `teacher.py`
`_Budget`). Two request counters for one budget, moved by the event loop and by
request threads, saved in groups. Correct: not overspent except by what a crash
hid, and that is bounded.

**Quality retries** (`data/quality_retry.py` and its callers). Task files, archived
generations, the retry in the status. Hard: many files are rewritten one by one, the
status last, by three commands that may be interrupted and repeated. Correct: no row
is lost, none doubled, rejected rows stay out, an interruption is recognised.

**Run loop** (`automation.py`, `run` and the commands around it). `status.json` beside
`events.jsonl`. Hard: resumption after every kind of stop, changed quota epochs,
contracts that grow, old statuses, cooldowns, counters kept in memory. Correct:
complete means ready, retries are bounded, events and status agree, each run ends.

**Gate, partition, readiness** (`automation.py`, `data/snapshot.py`
`evaluate_readiness`, `data/coverage.py`). Two implementations decide from the rows
which chains are whole. Correct: what is called ready is whole, and they agree.

**Snapshot and shard merge** (`data/snapshot.py`, `data/shard_merge.py`). Copies of
files that others may be rewriting; a rename publishes. Correct: one partition as a
whole, exactly the sources, never replaced.

**Live tool harness, sessions** (`tooling/`, `scripts/tooling/run_live.py`). Samples
run in parallel workspaces, stage after stage; sessions are captured, judged,
converted, staged and partitioned offline. Hard: records are merged file by file, runs
are repeated, a session becomes gold by two different conversions. Correct: gold is
proven by a persisted attempt and a captured session and stays what it was.

**Training handoff and runtime** (`handoff.py`, `training/`). A coordinator walks its
ramp, waits for the end of the collection, freezes the files, takes a lock, spawns
one job per expert. Hard: overlapping coordinators, kills that leave a training
child, files replaced between check and use, a mock end saved by a dry run. Correct:
one trainer, only after a real end, only on what was frozen.

**Metadata sync** (`integrations/ccswitch_metadata/`). Installs and rolls back versions
of target files under a lock and one journal. Correct: what is active can be replaced
by what was active before, and "verified" was downloaded.

**Control plane** (`scripts/observability/distillation_control.py`). One job with its
child, a credential slot, seed-range reservations, a lock file per shard; requests, a
reaper and a stop thread. Correct: one owner and one writer per shard, disjoint
reservations, a stopped job stays stopped, the credential does not outlive its job.

**Teacher transport** (`data/teacher.py`): attempts and answers are part of the budget.
**Serving**, **benchmark**, **SWE-bench import**, **curriculum and validation**,
**dashboard**, **command lines**: sequential code around libraries, or pure functions;
see section 6.

### Interaction

```
 control plane --spawns--> run loop --stage--> seeds, tasks --> teacher --> provider
                              |                   |  JSONL store    budget -> status.json
                              |--rows--> gate / partition <--> quality retry
 merge of shards ----rows---------------^      |
                                        readiness --> snapshot --+
 live harness --sessions--> gold, staging --> offline partition  |
        ^ ramp                     | gold                        v
        +----------------- handoff coordinator --lock--> training child
```

## 2. Modules

| module | models | composed with |
| --- | --- | --- |
| `DurableLog` | what a store promises | abstract specification |
| `JsonlStore` | `storage.py` | implements `DurableLog`; `DatasetProofs` |
| `SeedGeneration` | `generate_seeds` | an append is one durable step; `DatasetProofs` |
| `DistillationStage` | `run`, `_run_stage`, failure charging | the same; `DistillationStageProofs` |
| `UsageLedger` | the budget over crashes and restarts | jobs as in the stage; `UsageLedgerProofs` |
| `QualityRetry` | retries, offline commands, stages | rows as the stage leaves them; `QualityRetryProofs` |
| `AutomationRun` | the run loop and its commands | each of the above by what it promises; `AutomationRunProofs` |
| `GoldPartition` | rows to chains, gold, rejects, manifest | operators |
| `SnapshotReadiness` | `evaluate_readiness` | extends `GoldPartition` |
| `ShardMerge` | audit, merge, publication | extends `SnapshotReadiness`; `DatasetProofs` |
| `Snapshot` | freezing beside a partition | manifests by their readiness; `DatasetProofs` |
| `SessionExport` | strict and staging conversion, labels | operators |
| `LiveBatch` | ramp, workspaces, ledger, gold, offline pass | extends `SessionExport`; `ToolingProofs` |
| `TrainingGates` | schema, files, artifacts, preflight, smoke gate | operators |
| `Handoff` | coordinators, jobs, smoke gate | extends `TrainingGates`; `HandoffProofs` |
| `UndoLog` | what a store with a rollback journal promises | abstract specification |
| `MetadataSync` | cache, journal, backups, targets | implements `UndoLog`; `ToolingProofs` |
| `ControlPlane` | the managed collection process | the child is any collection run; `ControlPlaneProofs` |
| `MC...` | instances for TLC: model values, inputs, symmetry | |

Variables and actions are named after the code. Where a module takes as one step
what another splits, the other is the reason: an append that returned is durable by
`JsonlStore!LossIsShortTail` (a short write, which escapes it, is in `JsonlStore` only); a request ends in one of the outcomes of `UsageLedger`;
the inside of a stage, a retry generation or a partition of `AutomationRun` is
`DistillationStage`, `QualityRetry` or `GoldPartition`. A definition named as a defect
(`RestoreNewest`, `EventTwice`, `PublishOver`, ...) is no part of `Next`: it shows that
the property beside it can fail.

### `JsonlStore`
A file is a sequence of chunks, one per `os.write`. A chunk knows its record,
whether its object is whole and whether its newline was written: a line parses
when one whole chunk starts and ends it, which is all that `splitlines` and
`json.loads` tell apart. `AppendWrite`, `AppendSync` and `AppendSyncRaises` are the
two halves of `append` and its failure. A write may come up short (`Torn`), and as
`append` does not read the result, it goes on like any other; the history variable
`short` has the records this happened to. `MachineStops` keeps a prefix of the unsynced
bytes, the last chunk torn anywhere. `DurableLog` names the exception too: its `Cut`
puts a record into the unterminated last line, `tail`, where it may be acknowledged
without being readable; a log that is not damaged keeps everything else.

### `UsageLedger`
`logical` is the counter of the event loop, `wire` that of the threads, `baseline`
the snapshot last folded into the epoch. `CheckpointUsage` is `_sync_usage`
followed by the grouped flush; `FlushDue` is its condition with the timer as a
free choice. `Reserve` is one uninterrupted run of the event loop: test, count,
checkpoint. `SendAttempt` ... `FinalFailure` are steps of request threads.
`Restart` builds a process from `status.json`. `sent`, `lost` and `crashes` are
history variables.

### `DistillationStage`
A worker is off, free, calling or saving. `Call` is the part of a job before the
request, with the lookup of its sources; the outcomes of a request are
`AnswerStored`, `AnswerError`, `AnswerSignal` and `AppendRaises`. `CheckpointRaises`
is the failure after the append that kills one worker only. `NextTask`, `EndTasks`,
`RunFails` and `Report` are `_run_stage` and the part of `run` that charges failures.
A row is counted, not described: the tasks before it only ask whether exactly one
exists. Between two runs `PlanRetry` hides the rows of a seed from its root on and names
them as jobs (`planned`), as `QualityRetry` does in detail; `Excluded` takes the jobs a
plan names out of the quarantine, and `overrides` counts how often a job was opened that
its own failures had quarantined. A request that is being made when a signal
arrives may still be retried on the wire (`teacher.py:423-491`): it is one `calling` step
here.

### `SeedGeneration`
A seed is its request fingerprint and its index (`NoIndex` for a row that older
versions wrote). `Begin` reads the file, `Call` and the answers are the two halves
of `seed_worker` around its await, `NextRound`, `Return` and `Raise` follow the gather.
`asked` is the target of the run in hand, or of the last one between two runs.

### `QualityRetry`
Task files hold rows of a seed, a text and a retry generation. One `job` at a time
runs: the runner collecting a stage or preparing, an offline prepare, a recovery, or
a restore. `ProjectFile` and `RestoreFile` write one file each; `Crash` ends the
process between any two. Every event of the runner saves the status, so the model
has one status, the saved one. `WriteManifest` also stands for the archives, which
nobody reads without it.

### `AutomationRun`
`status` is the saved file, `run.mem` the process's copy; `ahead` counts the events
appended and not yet counted in a saved status, `run.dirty` the save still to come, so
that `Crash` can fall between `Event` and `SaveStatus`. A row is what the collection
made of a seed and task: none, good or weak. `Start` and `Resume` are loading with its
refusals (`Refused`), migration of old bindings (`Migrated`, `Archived`) and the new
epoch (`InEpoch`). `PlanOf` is the plan of a quality round: each seed from its first weak
row on, or its first missing one within the target; `plans` keeps it per generation, as
the archive does. While its round is ready or running, the jobs it names override the
quarantine (`Planned`, `Excluded`). `Completed` is the count of rounds an offline prepare
goes on from. `Worker` is any outcome of a job, `Reported` the charging of
failures, `QuotaEnds` ... `BudgetSpent` what stops a stage, `GatePassed` ...
`PrepareRaises` what follows it. `NewQuotaEpoch`, `PartitionOnly`, `PrepareOffline`,
`RestoreOffline` and `Expand` are the commands an operator runs between two runs.
`Recovered` is the recovery of an interrupted prepare, with the stagnation counted
against the deficits before it.

### `GoldPartition` and `SnapshotReadiness`
Operators on sets of rows. `PartitionRecord` is a row with the verdict of
`_gold_partition`; `EdgeCode` the lineage code of one stage edge; `Chains`, the
near-duplicate `losers` and the final gold follow `partition_collected_records` in its
order; the report holds its flags and counts. `SnapshotReadiness` groups the
blockers of `evaluate_readiness` by what they compute again from the files:
flags, task bank, bound files, lineage, held-out gate, provenance, status.

### `ShardMerge`
`Audit` reads the sources, `TakeLock`, `CheckAndStage`, `WriteStaged`, `Rename` and
`Cleanup` are the steps of `merge_shards` that other processes can come between.
`Kill` leaves lock and temporary directory. `Rename` fails when the target exists; a POSIX
rename would replace an empty directory that somebody made between the test and the rename
(`shard_merge.py:655-657`), which the model does not have. `PartitionMerged` and `PartitionSource`
apply `GoldPartition` to what is on disk. The instance gives each kind of collision,
dangling source, stale input and duplicate card once.

### `Snapshot`
The automation writes its files in order (`WriteFile`), then the manifest and the
status. A command goes from hashing the manifest through sidecars, status and gold
files to its decision, copies file by file, binds again (`RecheckSources`) and
renames. A file's hash is its content, which is what SHA-256 promises.

### `SessionExport` and `LiveBatch`
A session is the record of the properties the conversions test; `StrictAccepts`,
`Staged`, `RecordValid` and `DerivedLabels` are the two conversions and the label
derivation. In `LiveBatch`, `run` is the batch with its plan and step; `Submit`,
`Finish` and `Raise` are workspaces that end in any order; `PersistAttempts` and
`PersistGold` or `RefuseGold` are the two merges, `Judge` opens the next stage.
`ReadStaging`, `WriteGold`, `WriteNegative` and `WriteReject` are the offline pass.

### `TrainingGates` and `Handoff`
A file on disk is a version, whose records are given; its digest is the version. The
gates read what `preflight.py` reads: required experts, schema of each line, the
manifest with its sidecar, both artifacts, held-out cases, memory. In `Handoff` a
launch is a process with its own copy of the status (`run[c].mem`), which every event
writes back whole. `StageRun` ... `Decide` walk the ramp, `Distill` and
`ClassifyTerminal` wait for the end of the collection, `ReadFile` and `HashFile` are the
two reads of each file, `WriteManifest`, `WriteSidecar` and `RecordHandoff` the freeze,
`TakeLock` ... `LeaveLock` the training section. Whether `training.auto_start` is set is
free in each launch: without it `TrainGate` ends the launch with its phase unsaved, as the
code does. `TrainCheck` ... `SaveMetadata` are the
child; `OrphanEnds` is a child whose coordinator died. `ReplaceFile`, `PublishSnapshot`
and `AutomationMoves` are everybody else.

### `MetadataSync`
A snapshot is the release it was bundled with. `Begin` ... `FallBack` resolve what to
install (`Fetch` is one anchor, with the cached answers), `TakeLock` ... `Unlock` are
`apply` and `rollback` write by write. The journal is one sequence for all targets, as
in the code; `Effective` says which entries of a target undo something: an entry equal
to what came after it was left by a death and undoes nothing. `Undone` is the undo log
they make: a record for each, with the ids of the older ones.

### `ControlPlane`
A job is its generation, a number; so is the token in a lock file. A range of seed
indices (`Indices`) is what a run reserves, not what it ends up using: see the limits. A request
(`StartNew`, `Continue`, `StopRunning`, ...) holds the controller's lock from end to
end and is one step; `ProbeBegin` and `ProbeEnd` are two because the provider is asked
without it. A start reserves its seed range before it spawns, and a controller may die
in between. The reaper (`Reap...`, `Backoff...`, `Respawn...`) and the stop thread
(`GraceOver`, `Escalate`, `Kill`) take a step for each time they hold the lock and for
each wait that ends. `ControllerEnds` drops everything in memory and keeps children,
locks and directories.

## 3. Runs

Bounds are small because the interesting cases need few actors: two processes race,
two rows tell "this one" from "another one", two files can be written apart, a third
job or release meets what two earlier ones left.

| run | bounds | shows |
| --- | --- | --- |
| `JsonlStore_durable` | 3 records, 2 stores, 4 writes | a file that loads holds every acknowledged record but one whose write came up short and that stands in the unterminated last line, over failing fsyncs and power losses; the store implements `DurableLog` |
| `UsageLedger_budget` | 2 workers, 4 jobs per stage, 1 retry, 7 requests, flush by 2, 1 crash | budget kept in the counters, overspending explained by crashes, what a crash hides bounded, every attempt recorded unless the process dies |
| `QualityRetry_rounds` | 1 seed, 1 text, 2 stages, 2 tasks, 2 generations, restores | every row is active or archived; without restores rows are unique, rejected rows stay out and the first stage replays its own retry; hidden rows are flagged |
| `DistillationStage_run` | 2 tasks, 2 seeds, 2 workers, 1 error class, 1 retry, 1 lost report or crash, 1 run in which a plan overrides the quarantine of a job | rows unique and sourced, reports complete, rejections bounded, nothing new asked after a signal, every run ends |
| `SeedGeneration_run` | 5 requests, targets 3 and 4, a legacy row, 3 rounds, 2 rejections | indices owned once and without holes, requests unique, never more than asked, every run ends |
| `ControlPlane_jobs` | 2 shards, 3 jobs, 1 reconnect, ranges of 2 indices at 3 places | one locked writer per shard, disjoint reservations, stopped jobs stay stopped, nothing lingers |
| `AutomationRun_loop` | 2 seeds, 2 tasks, 2 contracts, 1 round, 2 failures, 1 retry, 2 epochs, 1 rate limit, 1 crash, 1 offline command, current and old statuses | complete is ready, retries bounded by seed and by round, a quota end is partitioned, events lead the status by at most one, every run ends |
| `ShardMerge_publish` | 2 mergers, base and shard with 3 seeds and a fault of every kind, 4 settings | a published target is its sources and sound; gold is whole chains; partition and readiness agree; no target is replaced |
| `Snapshot_race` | 2 commands, 2 collections, 2 partitions, 4 files | a snapshot is the files that one ready manifest declares, never replaced; success was verified |
| `LiveBatch_stage` | stages of 1 and 2 samples, 5 kinds of sessions, 2 batches, 4 workspaces, 1 offline pass | gold is proven and never rewritten, stages open after passes, the offline pass accounts for every line |
| `Handoff_train` | 2 launches, 2 experts, ramp 1-2, 1 change by others, 1 smoke gate, 1 crash | one trainer, after a real end, on frozen data, from a handoff that stays |
| `MetadataSync_install` | 3 commands, 2 targets, 3 releases of which two share a pin, 1 file | one command inside, entries restorable, verified means downloaded; the journal is an undo log |

`Safety` (`SeedSafety`) in a cfg is the conjunction of the type invariant and the named
invariants of its module that are about one question. Modules whose theorems share a
module of proofs have `Init`, `Next` and `Spec` under names of their own (`SeedInit`,
`SnapshotNext`, `MergeSpec`, `BatchSpec`, ...). Bounds in the guards: `MaxChunks` writes,
`MaxCrashes` crashes, `StageJobs` jobs of a stage, `MaxLosses` lost reports,
`MaxOverrides` runs in which a plan overrides a quarantine (the instance makes no plan
after a lost report; a run under a plan may still lose its own; the proofs hold for all
bounds),
`MaxRejections` rejected seeds, `MaxJobs` jobs, `MaxEpochs`, `MaxLimits`, `MaxOffline`
epochs, rate limits and offline commands, `MaxPartitions` partitions, `MaxRuns` and
`MaxWorkspaces` of the harness, `MaxChanges`, `MaxSmokes` of the handoff; the others are
parameters of the program. The bound of `CrashGapBounded` is reached up to one or two
requests in its run, so it is not there for want of states. Symmetry is used in safety
runs only.

`CHECK_DEADLOCK FALSE` in every cfg: each of these systems may stop (a terminal state,
a loaded file at its bound of writes, a finished run, a dashboard without requests).

### Where the code and its text disagree

Found while modelling. They are in the models as the code has them; what a property
excludes because of them is named by a constant or a condition.

- The next append joins a torn last line (`storage.py:70`), and no later load succeeds;
  the docstring (`storage.py:17`) says an interrupted append is ignored on resume.
  `DurableLog` has a `damaged` log, which promises only to fail loudly.
- `append` does not read what `os.write` returns (`storage.py:72`): a record cut by a full
  disk, a quota or a size limit is synced and acknowledged (`:79`), and the next load skips
  it without a word (`:40-41`); the docstring (`storage.py:15-18`) knows interrupted appends
  only. It stays the one exception of `LossIsShortTail` and of `DurableLog`; the next
  append turns it into a damaged file.
- A restore that dies between the files and the status (`automation.py:4460`) leads to a
  second row for one seed: `NothingRestored` in `QualityRetry!Safety`.
- A retry that ended in a ready stage is prepared again by the next stage
  (`automation.py:2385`, against `quality_retry.py:361`): `FirstStageReplays` is about the
  first stage.
- An attach that fails after the spawn (`distillation_control.py:1186`) forgets a living
  child; `docs/distillation_dashboard.md:169` says no second writer is launched:
  `AttachFails = FALSE`.
- A late stop thread marks a finished job as terminating for ever
  (`distillation_control.py:1613`, against `tests/test_distillation_control.py:496`).
- The harness appends a session to the candidates before the verdict on its execution
  (`runner.py`, `harness.py`); `docs/opencode_session_distillation.md:78` has accepted
  sessions only.
- A dry run saves the ramp it walked as completed, so that a later live run skips those
  stages (`docs/distill_train_handoff.md:31-36` runs the remaining stages after the first
  one passed).

### Known limits of the code

What the models contain, or were built around, and no property claims:

- *Budget*: after an answer broke the token budget the other jobs of the stage still send
  one request each; after a retry the larger wire counter can hide a new reservation from
  a checkpoint; `maximum_unpersisted_requests` of the status ignores the concurrency.
- *Retries*: a generation that was restored, prepared again and collected cannot be
  restored a second time; a prepare of an archived generation that dies after a restore is
  not recognised as an orphan.
- *Stage*: a quality plan asks for quarantined jobs again, each time it names one
  (`pipeline.py:388-390`); `RejectionsBounded` and `AttemptsBounded` count these.
- *Run loop*: a restore keeps the stage index: after a restore of a run past its last stage
  a new epoch, or a refreshed partition with another offline round, completes it again
  without a look at its rows, which `CompleteIsReady` excepts (`env.undone`);
  the quota end is saved before its partition, and a crash in between leaves none; the
  budget test at the top of the loop does not partition; after a crash an event id is used
  again; failure counts in memory are lost; a gate-blocked run is reopened by a new epoch;
  `--partition-only` holds no lock; an offline prepare that dies leaves its rows hidden
  without the flag, and an expansion may archive them.
- *Harness*: collect mode can stage a run that modified its protected fixtures; a torn
  staging line swallows the next one, which no property notices; the offline pass also
  rejects a line that looks like a secret as raw JSON (`session_partition.py:417`), which
  is left out: the staging conversion has looked at each text of it; the single-sample
  mode of `run_live.py` is not modelled; a rerun of an accepted sample that differs aborts the
  batch; a repeated candidate blocks the readiness gate; two batches at once lose merges;
  an exception in a workspace skips its cleanup.
- *Handoff*: overlapping coordinators write each other's status; a ramp that does not start
  with one never ends after a recovery; a file may be replaced between the last check and
  the load, between the read and the hash of the evaluation (`handoff.py:354`: what is
  claimed is about the frozen hash), or under the running job; the lock of a killed coordinator is removed by hand.
- *Snapshot*: the loser of two freezes reports a failure although a snapshot is there.
  The manifest is parsed by one read and hashed by a second (`snapshot.py:324-326`): the
  source that a snapshot names may be the next partition's manifest, when a later
  partition puts the first one's files back before it writes its own. It takes three
  partitions, two of them while the command runs, more than `MaxPartitions` of the run;
  `SnapshotIsOnePartition` is about the manifest that was evaluated, not the one named.
- *Metadata*: after an upgrade with another pin, apply and rollback refuse a target that
  holds the old one; an offline command may prefer an older verified release of the same
  pin to the bundled one; undoing an entry that a death left reports a change and makes none.
- *Control plane*: a failed start keeps its reservation for ever; a reconnect does not test
  the source again. A reservation does not confine a run: replacement rounds and rejected
  seeds take indices past its end (`pipeline.py:191-199`, `:365-367`;
  `automation.py:2627-2629`), so that a shard with rejections may use indices that a
  neighbour reserved. `ReservationsDisjoint` is about the reservations only.
- *Merge*: an empty directory in the place of the target can be replaced on POSIX, as said
  above.

## 4. Fairness

The runs with a liveness property assume weak fairness. In the collection modules, a
coroutine that can run does (asyncio schedules ready coroutines first come, first
served), a request ends in some outcome (every request has a wall-clock deadline),
and the runner goes on when its workers are gathered. No outcome is forced, and
neither is a crash, a restart or a new run. Fairness is per worker: nothing disables a
step that is waiting except that worker's own progress or its death.

`AutomationRun` assumes it of the runner as a whole, which is one coroutine with at
least one enabled step whenever it is not waiting, and of the clock while it waits for
a cooldown. Commands of the operator are never forced.

In `ControlPlane`, reaper and stop threads run whenever they can: the lock is held for
short sections only, and each wait of theirs has a time limit or is for the child. A
child is not assumed to end by itself or by an interrupt, only by SIGKILL. Requests
are never forced.

The other modules claim safety only. Their processes may stop at any step, and nothing
in the code starts them again.

## 5. Proofs

All theorems hold for every value of the constants that the named assumption of the
component's module allows.

**`UsageLedgerProofs`** (from `UsageAssumption`): `TypeCorrect`, `BudgetIsNeverExceeded`
(`EpochWithinBudget`), `OverspendNeedsACrash` (`SpendAccounted`), `UsageIsNeverForgotten`
(no step lowers the saved usage), `LedgerIsSafe` (`Safety`, with what a crash can hide).
None is inductive: that `used` stays below `MaxRequests` depends on what this process may
still reserve. `IInv` adds `Counters` (both counters are at most `limit`, and the limit and
what the status held at the start make up the budget), `Ledger` (what was folded in is the
snapshot up to the baseline, and memory and disk differ by the unsaved group) and
`Accounting` (all attempts sent are those this process can know of plus those that crashes
hid). For the crash gap, `Ahead` bounds the wire counter by the baseline plus the attempts
that no callback has reported: these are pairs of a worker and a number up to
`MaxRetries + 1` (`Unreported`), so a subset of a product counts what would be a sum over
workers. `CheckpointEffect` and `CheckpointStep` say what a checkpoint does as facts about
numbers; a lemma `...Keeps` follows for each action.

**`DatasetProofs`**: the file, the seeds, the snapshot and the merge.

*Store* (from `StoreAssumption`): `StoreIsSafe` (`Safety`) and `StoreImplementsLog`
(`ImplementsDurableLog`), for any number of stores, records and writes. `LossIsShortTail`
compares what was acknowledged with what a load finds, which says nothing of the next
power loss. `IInv` says where the records are: a record stands at a place of the file when
its chunk is whole and terminated there, or is unterminated because its write came up short
(`Stands`).
`AckedDurable` (each acknowledged record stands in the durable prefix) and `WrittenStands`
(so does, somewhere, what a store has written and not yet synced) are inductive. In a file
that loads, a record that stands is loadable, or was cut short and is in the unterminated
last line. For the refinement, a whole write is a `Publish`, or damage after an
unterminated line; a short one is a `Cut`, or damage; a sync is an `Acknowledge`; a power
loss is a `LoseUnacknowledged`; all else stutters.

*Seeds* (from `SeedAssumption`): `SeedGenerationSafe` (`SeedSafety`), for any workers,
rounds, targets, legacy rows, crashes and resumed runs. The invariant has a part that
outlives a run, `Kept` (what the files and the target decide: seeds unique, stored and
burned indices disjoint and outside the legacy prefix, no index beyond what is asked for and
what was rejected), and one of the run, `Flying`: the indices taken up to `Top` are an
interval, each of them stored, burned, reserved or with exactly one worker, unless the run
is being lost. That no seed is stored beyond the target
(`NeverMoreThanAsked`) comes from counting that interval (`FlightHasRoom`), that a run
which returns leaves no hole from the same count with nothing in flight
(`FullRunHasNoHole`). `TakeIs` and `AfterIs` say what a round takes.

*Snapshot* (from `SnapshotAssumption`): `SnapshotIsSound` (`SnapshotIsOnePartition`),
`SnapshotStays` (`SnapshotNeverReplaced`), `SuccessfulCommandVerified`
(`SuccessIsVerified`), for any commands, collections, files and partitions. `Reads` says
for each place of a command what it has bound so far: the status it read embeds the
manifest it evaluated, and each gold file hashed, each copy made is what that manifest
declares. It speaks of the command's own copies only and never of the files, so that what
the automation rewrites meanwhile cannot disturb it.

*Merge* (from `ShardMergeAssumption`: finitely many rows, each as the loaders validate it,
and from `GoldPartitionAssumption`): `TargetStays` (`TargetNeverReplaced`), `PublishedIsSound`
(`PublishedMergeIsSound`), `PartitionIsWhole` (`GoldIsWhole`), `ReadinessIsOne`
(`ReadinessAgrees`), for any mergers, sources, foreign targets and kills, and for the last
two any similarity of the seeds. `MergeInv` has who holds the lock (`LockHeld`), that a merge
goes on only with what its audit accepted (`AuditKept`), that a published target is the union
of its audited sources (`PublishedIsMerged`) and that a partition is of rows that were
loaded (`PartedOnce`). The rest is about the operators. `MergedEdges` and `MergedWhole` carry the
lineage of each source over to the union, as no id stands for two rows. `ChainLinks` turns
`Chains`, which follows the edges stage by stage, into the six rows and the links between
them; `EdgesOfPart` and `ChainsOfPart` say how both change when a set of seeds is taken out.
`CountedGold` is the pigeonhole of the readiness flags: with as many rows in each stage as
there are complete seeds, and a row of each such seed in each stage, each row stands in a
whole chain and alone at its stage. Representatives of near duplicates exist
(`RepresentativesExist`): the least seed is one, and the seeds that are not like it are fewer.
`ReadyUnblocked` goes through the blockers of `evaluate_readiness` for an untouched
partition, `LostRowBlocks` finds the one that a missing row causes.

**`HandoffProofs`** (from the assumptions of `TrainingGates` and `Handoff`): all four
properties of the run, `OneTrainerAlways` (`OneTrainer`), `RealTriggerAlways`
(`RealTrigger`), `TrainedOnFrozenAlways` (`TrainedOnFrozenData`) and `HandoffStays`
(`HandoffNeverReplaced`). The first rests on `LockInv`: the lock file stands for one
holder, where a holder is a launch in its training section or a launch whose child lives on
after it. The second needs `TriggerInv`, which follows the flag of the trigger through the
phases of a launch (`BeforeTraining`, `InTraining`), through the status that others
overwrite, and through the orphaned child. The other two need `FrozenInv`: while no two
coordinators have overlapped, the one that is alive is in step with the saved status
(`InStep`: the same jobs and handoff, and a handoff exactly when it is past the freeze),
jobs and children exist only beside a recorded handoff (`Owned`), and a child has checked,
loaded, stepped, saved and bound the frozen file, phase by phase, unless that file moved
(`OnFrozen`). A handoff stays because the two steps that write it come before it is
recorded. The order in which a launch starts its jobs is a set of positions with its least
element next (`todo`), so that no sequence has to be taken apart.

**`ToolingProofs`**: the metadata store and the live batch.

*Metadata* (from `MetadataSyncAssumption`): `SyncIsSafe` (`Safety`) and
`SyncImplementsUndoLog` (`ImplementsUndoLog`). The invariant of the first adds `Journalled`
(an entry's command is past its backup, so no backup of the journal is written again),
`BackedUp` (a command about to write its entry has its backup), `DropsItsOwn` (the entry
that was restored is still in place, because only the holder of the lock touches the
journal) and `CacheStands` (the cache, and what a command keeps of it, stand for downloads
of their own pin). `LatestIsThere` is where finiteness of the journal is used. The
downloads are history, so that "not modified" answers are traced to the bytes they stand
for. The refinement also needs `Standing`: a command that writes its backup, its entry or
the target knows what is active and installs something else, its entry is the last one of
the journal when it writes the target, and a command that drops an entry has restored the
latest one of its target. Then writing the target is `Install`, restoring is `Undo` (or
nothing, over an entry that a death left), and all else stutters: a new entry undoes nothing
while the target is as it says, and dropping one renumbers the others in their order
(`SameUndone`). Records of the undo log are compared by command, as a command writes
one entry (`IdsOnce`).

*Live batch* (from `LiveBatchAssumption`): `GoldIsAlwaysProven` (`GoldIsProven`),
`StagesOpenInOrder` (`StageOpensAfterPass`), `GoldStays` (`GoldNeverRewritten`),
`PartitionStaysExact` (`PartitionIsExact`), for any stages, manifests, sessions, batches,
workspaces and deaths. `BatchInv` follows a record from the workspace to its two merges:
`StageOK` (a sample of the stage is in one place: to do, in a workspace or done once),
`CapturedOK` (a success was captured by its workspace), `MergedOK` (at the gold merge the
attempts of the stage are in the ledger), and `PlanOK` (no sample of the plan was held out,
which is `PlanIsFit`). A stage opens over the count that `Judge`
makes, and gold of earlier stages stays because it is merged by equality only. For the
offline pass, `LabelsAgree` shows that the two derivations of a session's labels agree, so
that a clean staged session is a strict one, and `FirstGoldRow` that a second gold row of a
sample has a first.

**`DistillationStageProofs`** (from `StageAssumption`): `RowsAreUniqueAndSourced`
(`OneRowPerSeed` and `SourceBeforeRow`), `NoRequestAfterSignal`
(`NothingSentAfterSignal`) and `StageIsSafe` (`Safety`: also what a report counts and how
often a seed is rejected), for any chain of tasks. Uniqueness needs `JobsAreOpen`: while a
task is open, a job that is left or called has no row yet, a called job has one worker,
and all its sources are complete. The second theorem needs `SignalsStop`: in an open task
a signal has already stopped the workers, so that a job taken later is not called. The
third needs `RInv`: `Counted` (while no worker has died, each seed of the task is skipped,
written, in error or left), `ChargedOnce` (a run charges a seed once per task) and `RejectionsPaid` (a rejected answer
was one of the tries before the quarantine, is about to be charged, or its report was
lost, or a plan had overridden the quarantine when its job was opened), where the cardinality
of each set moves with its counter.

**`QualityRetryProofs`** (from `RetryAssumption` and `FilesAssumption`, that a missing file
is none of the contents): `HistoryStays` (`HistoryRecoverable`), `RetriesAreSafe`
(`Safety`) and `HidingIsFlagged` (`HiddenRowsAreFlagged`), for any seeds, texts, stages,
tasks and rounds. History needs only `Kept`: a job rewrites a file when the manifest, or
the intent of a restore, that keeps its old rows is there, and it replaces nothing but what
they keep. The others hold until a generation is restored, by `Unrestored`: how far
the rounds are counted in each state of the retry (`Counted`); that a job prepares the next
generation, or the last one once more (`Aimed`); that an archive newer than the status
closes the files to everything but its own projection (`NewArchive`); that what a job has
passed is projected (`Projected`); and that under a plan in force every row of a rebuilt
task is of its generation (`RejectsOut`). The last two carry a prepare over a crash to its
recovery: a projection only removes rows, and a commit finds all files projected.

**`AutomationRunProofs`** (from `AutomationAssumption`): `CompleteMeansReady`
(`CompleteIsReady`), `RetriesAreBounded` (`RetriesBounded`), `QuotaEndPartitioned`
(`QuotaEndIsPartitioned`) and `EventsLead` (`EventsLeadStatus`), for any number of seeds,
tasks, contracts, rounds, retries, crashes and epochs. One invariant relates the three
copies of the truth. `OnDisk`: the saved status is sound in itself, a stage past the last
one was earned by a ready partition of the rows that are there, and an archive is at most
one round ahead of it, with a stage open. `InHand`: the runner's copy is as sound and knows
every archived round. `Saved`: between two events the copy is what was saved. `QuotaParted`
follows a spent quota from the event to its partition. `Headroom`, a part of the first two,
bounds the failures of a job: one that may still fail in the stage in hand is either not
quarantined, or was counted when the stage began.

**`ControlPlaneProofs`** (from `ControlAssumption`, and if `AttachFails` is FALSE):
`OneLockedWriter` (`Safety`), `ReservedRangesDisjoint` (`ReservationsDisjoint`) and `StopIsFinal`
(`StoppedStaysStopped`). That the attachment does not fail is a hypothesis of each theorem:
an attachment that raises after the spawn drops the lock of a living child, which makes
`Safety` false. `Ownership` says that a child, and a job whose reaper will go on with it,
have their run, directory and lock; `States` says what the state of the process, the
threads and a requested stop imply for each other; `Ranges` says that all manifests
reserve disjoint ranges, also those of starts that failed or died, and that a status file
is bound to a run of its own shard. `NoRun` is assumed not to be a run.

With these, every safety invariant and every action property that a run checks is a theorem
for all values of the constants, and so are both refinements.

Only model-checked: the liveness properties `UsageBecomesDurable`, `RunEnds` (of the
stage, the seeds and the run loop) and `NothingLingers`, because they need fairness and
`ENABLED`. The modules write a prefix operator before `\cup` in parentheses
(`(UNION S) \cup T`), which SANY and the prover read differently otherwise.


## 6. Not modelled

Inside the modelled components: bytes and texts (a body is a value, a detector a mark it
would find), the clock (every delay may be over or not), prompts and answer validation (an
answer is valid or not), label quotas and axis balance of the partition, the optimiser,
tensors and safety checkpoints of a training job, the event stream of a live session, the
corpus-binding record of a manifest, a second dashboard process. A second runner on one
directory is checked only for the store.

Whole components, with the reason:

- *Serving router*: a straight sequence of adapter calls for one request; it stops at the
  first refusal and keeps nothing between two requests.
- *Benchmark*: a sequential run over a fixed list of cases, with arithmetic on texts.
- *SWE-bench import*: a sequential conversion; no state between two calls.
- *Dashboard*: read-only views of the status and task files.
- *Curriculum, cards, cleaning, validation* (all but coverage): pure functions from a card,
  a seed or an answer to a verdict or a text; their results are nondeterministic outcomes.
- *Teacher transport*, beyond attempts and budget: retry delays, the deadline and stream
  parsing have no state beyond one request.
- *Command lines and launch scripts*: argument parsing and process start.

Worth doing next: a held-out benchmark run together with the serving chain; the answer
that breaks the token budget (`pipeline.py:686`), which the stage has as an ordinary error;
two runners on one directory, which is checked for the store only.
