--------------------------- MODULE AutomationRun ---------------------------
(* The unattended run of data/automation.py: one process that loads its      *)
(* status, walks the stages, runs the workers, records failures, judges or   *)
(* partitions what was collected, prepares quality rounds, cools down and    *)
(* stops; and the operations an operator runs while it is stopped.           *)
(* An event is appended before the status that counts it is saved, and the   *)
(* process may die between the two. The inside of a worker is another        *)
(* module's (DistillationStage, SeedGeneration, UsageLedger), so is the      *)
(* inside of a quality round (QualityRetry) and of a partition               *)
(* (GoldPartition).                                                          *)
EXTENDS Naturals, FiniteSets, FiniteSetsExt, Sequences

CONSTANTS Seeds,        \* seed numbers, 1..n
          Tasks,        \* number of tasks of a chain, worked on in order
          Contracts,    \* corpus contracts, each [targets, minimum], each larger than the one before
          MaxRounds,    \* max_quality_retry_rounds
          MaxStagnant,  \* max_stagnant_gate_rounds
          MaxFailures,  \* failure budget of a quota epoch
          MaxRetries,   \* max_failure_retries of one failure identity
          Cooldown,     \* cooldown_seconds, in ticks
          Policies,     \* collection_policy: "collect" (then partition) or "gate"
          Bindings,     \* how the status found on disk was bound
          MaxCrashes, MaxEpochs, MaxLimits, MaxOffline  \* bounds of the environment

\* AutomationConfig.__post_init__: targets grow from stage to stage, and the whole chains
\* asked for are no more than the last target, which is also the raw collection target.
ConfigValid(c) ==
  /\ c.targets # <<>>
  /\ \A i, j \in DOMAIN c.targets : i < j => c.targets[i] < c.targets[j]
  /\ c.minimum <= c.targets[Len(c.targets)]

\* A contract may replace another one only if nothing shrinks and something grows.
ExpansionValid(old, new) ==
  LET last(c) == c.targets[Len(c.targets)]
  IN  /\ last(new) >= last(old) /\ new.minimum >= old.minimum
      /\ last(new) > last(old) \/ new.minimum > old.minimum

ASSUME AutomationAssumption ==
  /\ Tasks \in Nat \ {0} /\ Seeds \subseteq Nat \ {0} /\ IsFiniteSet(Seeds)
  /\ Contracts \in Seq([targets : Seq(Nat \ {0}), minimum : Nat]) \ {<<>>}
  /\ \A i \in DOMAIN Contracts : ConfigValid(Contracts[i])
  /\ \A i \in 2..Len(Contracts) : ExpansionValid(Contracts[i - 1], Contracts[i])
  /\ MaxRounds \in Nat /\ {MaxStagnant, MaxFailures} \subseteq Nat \ {0}
  /\ MaxRetries \in Nat /\ Cooldown \in Nat \ {0}
  /\ Policies \subseteq {"collect", "gate"}
  /\ Bindings \subseteq {"current", "schema1", "binding1"}

VARIABLES
  status,    \* automation/status.json
  ahead,     \* events of events.jsonl that event_sequence of the saved status does not count
  rows,      \* per task and seed: "none", a "good" row or a "weak" one
  archive,   \* per generation: the rows before the quality round, <<>> if there was none
  plans,     \* per generation: the task each seed is done again from, Tasks + 1 if it is not
  run,       \* the runner process: pc, its status copy, what the stage has found so far
  config,    \* policy, contract and quota epoch the next process will be started with
  clock,     \* ticks until the persisted cooldown ends
  env        \* bounds: crashes, rate limits, offline operations; history: a quota end whose
             \* partition was lost, a finished run that was restored, stages that were started
             \* under a plan with a quarantined job

vars == <<status, ahead, rows, archive, plans, run, config, clock, env>>

Keys == Seeds \X (1..Tasks)
NoRetry == [state |-> "none", gen |-> 0, rounds |-> 0, stagnant |-> 0, before |-> <<>>]
NoPartition == [made |-> FALSE, ready |-> FALSE, target |-> 0, rows |-> <<>>, deficits |-> <<>>]
FreshEpoch(id) == [id |-> id, charged |-> {}, spent |-> FALSE]
FreshStatus(c) ==
  [state |-> "ready", binding |-> "current", contract |-> c.contract, stage |-> 1, cooldown |-> FALSE,
   epoch |-> FreshEpoch(c.epoch), attempts |-> [k \in Keys |-> 0], quarantined |-> {},
   retry |-> NoRetry, incomplete |-> FALSE, partition |-> NoPartition, busy |-> FALSE]

Terminal == {"complete", "provider_quota_exhausted", "budget_exhausted", "client_deadline",
             "failed", "gate_blocked"}
Stages(m) == Contracts[m.contract].targets
Target(m) == Stages(m)[m.stage]
LastTarget(m) == Stages(m)[Len(Stages(m))]
Empty == [t \in 1..Tasks |-> [s \in Seeds |-> "none"]]
Idle == [pc |-> "off", wait |-> FALSE, mem |-> <<>>, task |-> 0, errs |-> {}, signal |-> "none",
         last |-> 0, stagnant |-> 0, dirty |-> FALSE]

------------------------------------------------------------------------------
(* What the code computes from the rows *)

Rows(r) == {k \in Keys : r[k[2]][k[1]] # "none"}
Whole(r) == {s \in Seeds : \A t \in 1..Tasks : r[t][s] = "good"}
WeakSeeds(r) == {s \in Seeds : \E t \in 1..Tasks : r[t][s] = "weak"}

\* _quality_deficit_vector, towards a target n: lower is never worse.
Deficits(r, m, n) ==
  LET short(want, have) == IF want > have THEN want - have ELSE 0
  IN  <<short(n * Tasks, Cardinality(Rows(r))),
        Cardinality({k \in Keys : r[k[2]][k[1]] = "weak"}),
        short(Contracts[m.contract].minimum, Cardinality(Whole(r)))>>

Improved(old, new) ==
  /\ \A i \in DOMAIN new : new[i] <= old[i]
  /\ \E i \in DOMAIN new : new[i] < old[i]

\* A defect: a chain counts as whole when it is finished, weak rows included.
PartitionOfFinished(r, m, n) ==
  [made |-> TRUE, target |-> n, rows |-> r, deficits |-> Deficits(r, m, n),
   ready |-> Cardinality({s \in Seeds : r[Tasks][s] # "none"}) >= Contracts[m.contract].minimum]

\* partition_collected_records for a target n: training_ready needs enough whole chains, and
\* not all rows.
PartitionOf(r, m, n) ==
  [made |-> TRUE, target |-> n, rows |-> r, deficits |-> Deficits(r, m, n),
   ready |-> Cardinality(Whole(r)) >= Contracts[m.contract].minimum]

\* evaluate_gate at a success rate of one: every job of the target has a good row.
GatePasses(r, m) ==
  /\ Cardinality(Rows(r)) >= Target(m) * Tasks
  /\ WeakSeeds(r) = {}

\* build_quality_retry_plan: a seed is done again from its first weak row, or its first missing
\* one if it is among the n seeds of the partition's target.
PlanOf(r, n) ==
  [s \in Seeds |-> Min({Tasks + 1} \cup
     {t \in 1..Tasks : r[t][s] = "weak" \/ (s <= n /\ r[t][s] = "none")})]
NoJobs == [s \in Seeds |-> Tasks + 1]

\* prepare_quality_retry_projection hides the rows that the plan p does again.
Projection(r, p) ==
  [t \in 1..Tasks |-> [s \in Seeds |-> IF p[s] <= t THEN "none" ELSE r[t][s]]]

\* _active_quality_retry_plan: the seeds the round in hand names for a task.
Planned(m, t) ==
  {s \in Seeds : m.retry.state \in {"ready", "running"} /\ plans[m.retry.gen][s] <= t}

\* _quarantined_seed_ids_for_task: a quarantined seed is skipped downstream as well, but a
\* plan that names the job overrides the quarantine (run of the pipeline).
Excluded(m, t) == {s \in Seeds : \E u \in 1..t : <<s, u>> \in m.quarantined} \ Planned(m, t)

\* A round whose plan names a quarantined job.
Overrides(m) == \E k \in m.quarantined : k[1] \in Planned(m, k[2])

\* The jobs of a task: a seed of the target with its upstream row and without its own.
Jobs(m, t) ==
  {s \in Seeds \ Excluded(m, t) : /\ s <= Target(m)
                                  /\ rows[t][s] = "none"
                                  /\ t > 1 => rows[t - 1][s] # "none"}

BudgetExhausted(m) ==
  m.epoch.spent \/ Cardinality(m.epoch.charged) >= MaxFailures

\* A defect: an identity is quarantined one failure too late.
RecordFailuresLate(m, errs) ==
  LET seen == [k \in Keys |-> IF k \in errs THEN m.attempts[k] + 1 ELSE m.attempts[k]]
  IN  [m EXCEPT !.attempts = seen,
                !.epoch.charged = @ \cup errs,
                !.quarantined = @ \cup {k \in errs : m.attempts[k] > MaxRetries}]

\* _record_report_failures: every identity is counted, charged once per epoch, and
\* quarantined when it was seen more often than it may be retried.
RecordFailures(m, errs) ==
  LET seen == [k \in Keys |-> IF k \in errs THEN m.attempts[k] + 1 ELSE m.attempts[k]]
  IN  [m EXCEPT !.attempts = seen,
                !.epoch.charged = @ \cup errs,
                !.quarantined = @ \cup {k \in errs : seen[k] > MaxRetries}]

------------------------------------------------------------------------------
(* Loading a status *)

LatestArchive == LET g == {n \in DOMAIN archive : archive[n] # <<>>} IN IF g = {} THEN 0 ELSE Max(g)

\* _recover_orphaned_quality_retry: the archive is ahead of the status.
Recovered(m) ==
  IF LatestArchive > m.retry.gen
  THEN [m EXCEPT !.retry = [state |-> "ready", gen |-> LatestArchive, rounds |-> LatestArchive - 1,
                            stagnant |-> m.retry.stagnant, before |-> m.partition.deficits],
                 !.incomplete = TRUE, !.state = "quality_retry_ready"]
  ELSE m

\* A changed quota epoch reopens every run that is not complete.
InEpoch(m) ==
  IF m.epoch.id = config.epoch THEN m
  ELSE [m EXCEPT !.epoch = FreshEpoch(config.epoch), !.cooldown = FALSE,
                 !.state = IF @ = "complete" THEN @ ELSE "running"]

\* The executable state starts over; the audit ledger and the epoch are kept.
Reset(m) ==
  [m EXCEPT !.state = "ready", !.stage = 1, !.cooldown = FALSE, !.retry = NoRetry,
            !.incomplete = FALSE, !.partition = NoPartition, !.binding = "current", !.busy = FALSE]

Stopped(m) == m.state # "running" /\ ~m.busy

\* What refuses a status, and what its older bindings are turned into.
Refused(m) ==
  \/ m.binding = "schema1" /\ (m.state = "complete" \/ m.partition.made)
  \/ m.binding = "binding1" /\ (~Stopped(m) \/ m.incomplete)
  \/ m.binding = "current" /\ m.contract # config.contract
Migrated(m) ==
  CASE m.binding = "schema1" -> [Reset(m) EXCEPT !.epoch = FreshEpoch(config.epoch),
                                                 !.attempts = [k \in Keys |-> 0], !.quarantined = {}]
    [] m.binding = "binding1" -> Reset(m)
    [] OTHER -> [m EXCEPT !.binding = "current"]
Archived(m) == m.binding = "binding1"  \* the retry generations are moved to the history

------------------------------------------------------------------------------
Init ==
  /\ config \in [policy : Policies, contract : {1}, epoch : {1}]
  /\ \E b \in Bindings, s \in {"ready", "gate_blocked", "complete"} :
       /\ s # "ready" => b # "current"
       /\ status = [FreshStatus(config) EXCEPT !.binding = b, !.state = s]
  /\ ahead = 0 /\ rows = Empty
  /\ archive = [g \in 1..(MaxRounds + 1) |-> <<>>]
  /\ plans = [g \in 1..(MaxRounds + 1) |-> NoJobs]
  /\ run = Idle /\ clock = 0
  /\ env = [crashes |-> 0, limits |-> 0, offline |-> 0, lost |-> FALSE, undone |-> FALSE,
            overrides |-> 0]

------------------------------------------------------------------------------
(* The runner *)

\* A defect: an event whose id the log already has is appended once more.
EventTwice(m, r) ==
  /\ run' = [r EXCEPT !.mem = m, !.dirty = TRUE]
  /\ ahead' = ahead + 1
  /\ UNCHANGED status

\* _event: appended under the id after the last one counted, unless the log has that id already
\* (JsonlStore.append); the status is saved next. Events in a row are one.
Event(m, r) ==
  /\ run' = [r EXCEPT !.mem = m, !.dirty = TRUE]
  /\ ahead' = IF ahead > 0 THEN ahead ELSE ahead + 1
  /\ UNCHANGED status

At(pc) == run.pc = pc /\ ~run.dirty
Leave(m) == Event(m, [run EXCEPT !.pc = "leaving"])

\* _save_status, by which every event ends; a run that is over leaves with it.
SaveStatus ==
  /\ run.dirty
  /\ status' = run.mem
  /\ ahead' = ahead - 1
  /\ run' = IF run.pc = "leaving" THEN Idle ELSE [run EXCEPT !.dirty = FALSE]
  /\ UNCHANGED <<rows, archive, plans, config, clock, env>>

\* __init__: the migrations and recoveries of _load_status become durable with their events.
Start(wait) ==
  /\ run.pc = "off" /\ ~Refused(status)
  /\ LET old == Migrated(status)
         m == IF Archived(status) \/ status.binding = "schema1" THEN InEpoch(old) ELSE InEpoch(Recovered(old))
         over == m.state \in Terminal
         begun == IF over THEN m ELSE [m EXCEPT !.state = IF @ = "cooldown" THEN @ ELSE "running"]
     IN  /\ archive' = IF Archived(status) THEN [g \in DOMAIN archive |-> <<>>] ELSE archive
         /\ begun # status
         /\ Event(begun, [Idle EXCEPT !.pc = IF over THEN "leaving" ELSE "loop", !.wait = wait])
  /\ clock' = IF run'.mem.cooldown THEN clock ELSE 0
  /\ plans' = IF Archived(status) THEN [g \in DOMAIN plans |-> NoJobs] ELSE plans
  /\ UNCHANGED <<rows, config, env>>

\* A status that needs no event: a run killed in its stage, or stopped in its cooldown.
Resume(wait) ==
  /\ run.pc = "off" /\ status.binding = "current" /\ status.contract = config.contract
  /\ status.state \in {"running", "cooldown"}
  /\ InEpoch(Recovered(status)) = status
  /\ run' = [Idle EXCEPT !.pc = "loop", !.wait = wait, !.mem = status]
  /\ UNCHANGED <<status, ahead, rows, archive, plans, config, clock, env>>

world == <<rows, archive, plans, config, clock, env>>

MoreStages == run.mem.stage <= Len(Stages(run.mem))

\* _cooldown_gate
CooldownEnds ==
  /\ At("loop") /\ MoreStages /\ run.mem.cooldown /\ clock = 0
  /\ Event([run.mem EXCEPT !.cooldown = FALSE, !.state = "running"], run)
  /\ UNCHANGED world

StopInCooldown ==
  /\ At("loop") /\ MoreStages /\ run.mem.cooldown /\ clock > 0 /\ ~run.wait
  /\ status' = [run.mem EXCEPT !.state = "cooldown"]
  /\ run' = Idle
  /\ UNCHANGED <<world, ahead>>

Tick ==
  /\ clock > 0 /\ clock' = clock - 1
  /\ UNCHANGED <<status, ahead, rows, archive, plans, run, config, env>>

StopOnBudget ==
  /\ At("loop") /\ MoreStages /\ ~run.mem.cooldown /\ BudgetExhausted(run.mem)
  /\ Leave([run.mem EXCEPT !.state = "budget_exhausted"])
  /\ UNCHANGED world

StartStage ==
  /\ At("loop") /\ MoreStages /\ ~run.mem.cooldown /\ ~BudgetExhausted(run.mem)
  /\ Event([run.mem EXCEPT !.state = "running", !.busy = TRUE,
                           !.retry.state = IF @ = "ready" THEN "running" ELSE @],
           [run EXCEPT !.pc = "worker", !.task = 1, !.errs = {}, !.signal = "none"])
  /\ env' = [env EXCEPT !.overrides = IF Overrides(run.mem) THEN @ + 1 ELSE @]
  /\ UNCHANGED <<rows, archive, plans, config, clock>>

\* A worker ends with a good, a weak or no row for each job; a signal of the provider or of
\* the client's clock leaves jobs undone.
Worker ==
  /\ At("worker")
  /\ LET jobs == Jobs(run.mem, run.task)
     IN  \E done \in SUBSET jobs, weak \in SUBSET jobs, failed \in SUBSET jobs,
            signal \in {"none", "quota", "rate", "deadline", "spent"} :
           /\ weak \subseteq done /\ failed \cap done = {}
           /\ signal \in {"none", "spent"} => done \cup failed = jobs
           /\ signal # "none" => env.limits < MaxLimits
           /\ rows' = [rows EXCEPT ![run.task] = [s \in Seeds |->
                          IF s \in weak THEN "weak" ELSE IF s \in done THEN "good" ELSE @[s]]]
           /\ env' = [env EXCEPT !.limits = IF signal = "none" THEN @ ELSE @ + 1]
           /\ Event([run.mem EXCEPT !.epoch.spent = @ \/ signal = "spent"],
                    [run EXCEPT !.errs = @ \cup {<<s, run.task>> : s \in failed},
                                !.signal = IF signal = "spent" THEN @ ELSE signal,
                                !.pc = IF run.task = Tasks \/ signal \in {"quota", "rate", "deadline"}
                                       THEN "report" ELSE "worker",
                                !.task = IF @ = Tasks THEN @ ELSE @ + 1])
  /\ UNCHANGED <<archive, plans, config, clock>>

\* A stage that raises (a missing seed, a broken store) ends the run.
StageRaises ==
  /\ At("worker") /\ env.limits < MaxLimits
  /\ env' = [env EXCEPT !.limits = @ + 1]
  /\ Leave([run.mem EXCEPT !.state = "failed", !.busy = FALSE])
  /\ UNCHANGED <<rows, archive, plans, config, clock>>

\* The report is charged to the ledger, then its signals decide in this order.
Reported == [RecordFailures(run.mem, run.errs) EXCEPT !.busy = FALSE]

\* A defect: the end of the quota is final whatever the policy, nothing is partitioned.
QuotaEndsAtOnce ==
  /\ At("report") /\ run.signal = "quota"
  /\ Leave([Reported EXCEPT !.state = "provider_quota_exhausted"])
  /\ UNCHANGED world

QuotaEnds ==
  /\ At("report") /\ run.signal = "quota"
  /\ LET m == [Reported EXCEPT !.state = "provider_quota_exhausted"]
     IN  IF config.policy = "collect"
         THEN Event(m, [run EXCEPT !.pc = "terminal"]) ELSE Leave(m)
  /\ UNCHANGED world

RateLimited ==
  /\ At("report") /\ run.signal = "rate"
  /\ clock' = Cooldown
  /\ LET m == [Reported EXCEPT !.state = "cooldown", !.cooldown = TRUE]
     IN  Event(m, [run EXCEPT !.pc = IF run.wait THEN "loop" ELSE "leaving"])
  /\ UNCHANGED <<rows, archive, plans, config, env>>

DeadlinePassed ==
  /\ At("report") /\ run.signal = "deadline"
  /\ Leave([Reported EXCEPT !.state = "client_deadline"])
  /\ UNCHANGED world

BudgetSpent ==
  /\ At("report") /\ run.signal = "none" /\ BudgetExhausted(Reported)
  /\ LET m == [Reported EXCEPT !.state = "budget_exhausted"]
     IN  IF config.policy = "collect"
         THEN run' = [run EXCEPT !.pc = "terminal", !.mem = m] /\ UNCHANGED <<status, ahead>>
         ELSE Leave(m)
  /\ UNCHANGED world

\* _partition_terminal_collection: what was collected is partitioned, or the run is blocked
\* by a held-out leak or failed by a malformed file.
PartitionTerminal ==
  /\ At("terminal")
  /\ \/ Leave([run.mem EXCEPT !.partition = PartitionOf(rows, run.mem, Target(run.mem))])
     \/ Leave([run.mem EXCEPT !.state = "gate_blocked"])
     \/ Leave([run.mem EXCEPT !.state = "failed"])
  /\ UNCHANGED world

Clean == At("report") /\ run.signal = "none" /\ ~BudgetExhausted(Reported)

\* The gate of the other policy: passed, tried again, or blocked when the rows stop growing.
GatePassed ==
  /\ Clean /\ config.policy = "gate" /\ GatePasses(rows, run.mem)
  /\ Event([Reported EXCEPT !.stage = @ + 1], [run EXCEPT !.pc = "loop", !.last = 0, !.stagnant = 0])
  /\ UNCHANGED world

\* A defect: every failed gate forgets the rounds without progress before it.
GateFailedForgetting ==
  /\ Clean /\ config.policy = "gate" /\ ~GatePasses(rows, run.mem)
  /\ Event([Reported EXCEPT !.state = "running"],
           [run EXCEPT !.pc = "loop", !.last = Cardinality(Rows(rows)) + 1, !.stagnant = 0])
  /\ UNCHANGED world

GateFailed ==
  /\ Clean /\ config.policy = "gate" /\ ~GatePasses(rows, run.mem)
  /\ LET records == Cardinality(Rows(rows)) + 1  \* zero means there was no earlier round
         stuck == IF run.last # 0 /\ records <= run.last THEN run.stagnant + 1 ELSE 0
     IN  IF stuck >= MaxStagnant THEN Leave([Reported EXCEPT !.state = "gate_blocked"])
         ELSE Event([Reported EXCEPT !.state = "running"],
                    [run EXCEPT !.pc = "loop", !.last = records, !.stagnant = stuck])
  /\ UNCHANGED world

BlockedAtGate ==
  /\ Clean /\ config.policy = "collect" /\ env.limits < MaxLimits
  /\ env' = [env EXCEPT !.limits = @ + 1]
  /\ \E s \in {"gate_blocked", "failed"} : Leave([Reported EXCEPT !.state = s])
  /\ UNCHANGED <<rows, archive, plans, config, clock>>

PartitionStage ==
  /\ Clean /\ config.policy = "collect"
  /\ LET p == PartitionOf(rows, run.mem, Target(run.mem))
         m == [Reported EXCEPT !.partition = p]
     IN  IF p.ready
         THEN Event([m EXCEPT !.stage = @ + 1, !.incomplete = FALSE,
                              !.retry.state = IF @ = "none" THEN @ ELSE "completed"],
                    [run EXCEPT !.pc = "loop"])
         ELSE Event(m, [run EXCEPT !.pc = "assess"])
  /\ UNCHANGED world

\* The round that was running is over: it improved the deficits or it counts as stagnant.
AssessRound ==
  /\ At("assess")
  /\ LET old == run.mem.retry
         better == old.before # <<>> /\ Improved(old.before, run.mem.partition.deficits)
         stuck == IF better THEN 0 ELSE old.stagnant + 1
         m == [run.mem EXCEPT !.retry = [old EXCEPT !.state = "completed", !.rounds = old.gen,
                                                    !.stagnant = stuck]]
     IN  IF old.state # "running"
         THEN run' = [run EXCEPT !.pc = "prepare"] /\ UNCHANGED <<status, ahead>>
         ELSE IF stuck >= MaxStagnant THEN Leave([m EXCEPT !.state = "gate_blocked"])
         ELSE Event(m, [run EXCEPT !.pc = "prepare"])
  /\ UNCHANGED world

\* _prepare_next_quality_retry after n completed rounds.
Prepared(m, n) ==
  [m EXCEPT !.retry = [state |-> "ready", gen |-> n + 1, rounds |-> n,
                       stagnant |-> m.retry.stagnant, before |-> m.partition.deficits],
            !.incomplete = TRUE, !.state = "quality_retry_ready"]

\* prepare_quality_retry_projection: a new generation archives the rows and its plan before it
\* hides some rows; an archived one is replayed, onto task files it knows only.
Known(g) == \A t \in 1..Tasks : rows[t] \in {archive[g][t], Projection(archive[g], plans[g])[t]}
Archive(m, g) ==
  /\ archive[g] # <<>> => Known(g)
  /\ archive' = [archive EXCEPT ![g] = IF @ = <<>> THEN rows ELSE @]
  /\ plans' = [plans EXCEPT ![g] = IF archive[g] = <<>> THEN PlanOf(rows, m.partition.target) ELSE @]
  /\ rows' = Projection(archive'[g], plans'[g])
\* The plan, archived or new, has a job.
Schedulable(m, g) == archive[g] # <<>> \/ PlanOf(rows, m.partition.target) # NoJobs
Upcoming == run.mem.retry.rounds + 1

PrepareRound ==
  /\ At("prepare")
  /\ run.mem.retry.rounds < MaxRounds /\ Schedulable(run.mem, Upcoming)
  /\ Archive(run.mem, Upcoming)
  /\ Event(Prepared(run.mem, run.mem.retry.rounds), [run EXCEPT !.pc = "loop"])
  /\ UNCHANGED <<config, clock, env>>

\* The replay meets a file it does not know, and the run ends.
PrepareRaises ==
  /\ At("prepare") /\ run.mem.retry.rounds < MaxRounds
  /\ archive[Upcoming] # <<>> /\ ~Known(Upcoming)
  /\ Leave([run.mem EXCEPT !.state = "failed"])
  /\ UNCHANGED world

NoRoundLeft ==
  /\ At("prepare")
  /\ run.mem.retry.rounds < MaxRounds => ~Schedulable(run.mem, Upcoming)
  /\ Leave([run.mem EXCEPT !.state = "gate_blocked"])
  /\ UNCHANGED world

Complete ==
  /\ At("loop") /\ ~MoreStages
  /\ Leave([run.mem EXCEPT !.state = "complete"])
  /\ UNCHANGED world

\* The process dies; what it had not saved is gone.
Crash ==
  /\ run.pc # "off" /\ env.crashes < MaxCrashes
  /\ run' = Idle
  /\ env' = [env EXCEPT !.crashes = @ + 1,
                        !.lost = @ \/ status.state = "provider_quota_exhausted"]
  /\ UNCHANGED <<status, ahead, rows, archive, plans, config, clock>>

------------------------------------------------------------------------------
(* The operator, with the runner stopped *)

Offline == run.pc = "off" /\ env.offline < MaxOffline
Counted == env' = [env EXCEPT !.offline = @ + 1]
\* An offline operation appends its event like the runner does, and then writes the status.
Write(m) == status' = m /\ ahead' = 0

NewQuotaEpoch ==
  /\ run.pc = "off" /\ config.epoch < MaxEpochs
  /\ config' = [config EXCEPT !.epoch = @ + 1]
  /\ UNCHANGED <<status, ahead, rows, archive, plans, run, clock, env>>

\* --partition-only refreshes the partition of whatever state the run is in, for the whole
\* contract.
PartitionOnly ==
  /\ Offline /\ Counted /\ config.policy = "collect" /\ status.binding = "current"
  /\ status' = [status EXCEPT !.partition = PartitionOf(rows, status, LastTarget(status))]
  /\ UNCHANGED <<ahead, rows, archive, plans, run, config, clock>>

\* prepare_quality_retry_offline counts a completed generation as a completed round, the last
\* one included that completed by being ready (automation.py:4347-4352).
Completed(retry) ==
  IF retry.state = "completed" /\ retry.gen > retry.rounds THEN retry.gen ELSE retry.rounds

PrepareOffline ==
  /\ Offline /\ Counted /\ status.binding = "current"
  /\ status.state = "gate_blocked" /\ ~status.busy
  /\ status.partition.made /\ ~status.partition.ready
  /\ LET n == Completed(status.retry)
     IN  /\ n < MaxRounds /\ Schedulable(status, n + 1)
         /\ Archive(status, n + 1)
         /\ Write(Prepared(status, n))
  /\ UNCHANGED <<run, config, clock>>

RestoreOffline ==
  /\ Offline
  /\ env' = [env EXCEPT !.offline = @ + 1, !.undone = @ \/ status.stage > Len(Stages(status))]
  /\ status.binding = "current"
  /\ ~status.busy /\ status.state \notin {"running", "cooldown"}
  /\ status.retry.gen > 0 /\ status.retry.gen = LatestArchive
  /\ rows' = archive[status.retry.gen]
  /\ Write([status EXCEPT !.retry.state = "restored", !.incomplete = FALSE, !.state = "gate_blocked"])
  /\ UNCHANGED <<archive, plans, run, config, clock>>

\* --migrate-monotonic-expansion: a stopped run is bound to the next, larger contract.
Expand ==
  /\ Offline /\ status.binding = "current"
  /\ env' = [env EXCEPT !.offline = @ + 1, !.undone = FALSE]
  /\ config.contract < Len(Contracts)
  /\ Stopped(status) /\ ~status.incomplete
  /\ config' = [config EXCEPT !.contract = @ + 1]
  /\ status' = [Reset(status) EXCEPT !.contract = config.contract + 1]
  /\ archive' = [g \in DOMAIN archive |-> <<>>]
  /\ plans' = [g \in DOMAIN plans |-> NoJobs]
  /\ UNCHANGED <<ahead, rows, run, clock>>

------------------------------------------------------------------------------
Runner ==
  \/ SaveStatus
  \/ CooldownEnds
  \/ StopInCooldown
  \/ StopOnBudget
  \/ StartStage
  \/ Worker
  \/ StageRaises
  \/ QuotaEnds
  \/ RateLimited
  \/ DeadlinePassed
  \/ BudgetSpent
  \/ PartitionTerminal
  \/ GatePassed
  \/ GateFailed
  \/ BlockedAtGate
  \/ PartitionStage
  \/ AssessRound
  \/ PrepareRound
  \/ PrepareRaises
  \/ NoRoundLeft
  \/ Complete

Next ==
  \/ Runner
  \/ Tick
  \/ \E wait \in BOOLEAN : Start(wait)
  \/ \E wait \in BOOLEAN : Resume(wait)
  \/ Crash
  \/ NewQuotaEpoch
  \/ PartitionOnly
  \/ PrepareOffline
  \/ RestoreOffline
  \/ Expand

\* The event loop keeps running the one coroutine of run, and time passes.
Spec == Init /\ [][Next]_vars /\ WF_vars(Runner) /\ WF_vars(Tick)

------------------------------------------------------------------------------
(* Properties *)

\* A run that says complete collected a corpus that trains: its partition is ready, was made of
\* the rows as they are, and no quality projection hides any. It is about every way to get
\* there: rounds, crashes, a larger contract, a new epoch. (A restore of a run past its last
\* stage is excepted: it keeps the stage, so that a new epoch or another round completes the
\* run again without looking at its rows.)
CompleteIsReady ==
  status.state = "complete" /\ status.binding = "current" /\ config.policy = "collect"
    /\ ~env.undone =>
    /\ status.partition.ready /\ status.partition.rows = rows
    /\ ~status.incomplete
    /\ Cardinality(Whole(rows)) >= Contracts[status.contract].minimum

\* However often the run is restarted, killed or given a new epoch, a seed fails in a task at
\* most once more than the retry limit before it is quarantined, and from then on only in a
\* stage whose quality plan names a quarantined job, once in each (pipeline.py:388-390).
AttemptsBounded ==
  \A k \in Keys : /\ status.attempts[k] <= MaxRetries + 1 + env.overrides
                  /\ k \in status.quarantined <=> status.attempts[k] > MaxRetries

\* Quality rounds stay within the configured number in one contract, and the archive is never
\* more than the one round ahead of the status that a crash can leave.
RoundsBounded ==
  /\ LatestArchive <= MaxRounds
  /\ status.binding = "current" => LatestArchive <= status.retry.gen + 1
  /\ status.retry.rounds <= MaxRounds

\* What is tried again is bounded twice, seed by seed and round by round
\* (_record_report_failures, _prepare_quality_retry).
RetriesBounded == AttemptsBounded /\ RoundsBounded

\* A run that ended with the provider's quota left a partition of the rows it collected, which
\* is what the handoff to training starts from (a crash in between excepted).
QuotaEndIsPartitioned ==
  status.state = "provider_quota_exhausted" /\ run.pc = "off" /\ config.policy = "collect"
    /\ ~env.lost => status.partition.made /\ status.partition.rows = rows

\* The event log counts every event that a saved status counts, and at most the one more that
\* a crash between the event and the status leaves behind.
EventsLeadStatus == ahead \in {0, 1}

\* Every run that is started ends: in a terminal state, in a cooldown nobody waits for, or in a
\* crash; no gate, round or cooldown keeps it for ever.
RunEnds == run.pc # "off" ~> run.pc = "off"
==============================================================================
