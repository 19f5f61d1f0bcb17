------------------------------ MODULE Handoff ------------------------------
(* The coordinator that takes a project from execution gold to sequential    *)
(* LoRA training (handoff.py), the training command it spawns                *)
(* (training/cli.py, training/runtime.py) and what happens around them: two  *)
(* coordinators of one state directory, killed coordinators, an operator's   *)
(* smoke gate, and dataset files that are replaced at any moment.            *)
(* A coordinator works on the copy of the status it loaded; every event      *)
(* writes that whole copy back.                                              *)
EXTENDS TrainingGates

CONSTANTS Launches,      \* the launches of the coordinator, each a process of its own
          Ramp,          \* execution.concurrency_stages, a sequence of positive integers
          SampleOf,      \* the audited sample of each ramp stage
          MinimumGold,   \* execution.minimum_accepted_gold
          Trigger,       \* training.handoff_trigger
          Order,         \* the experts in order; training.adapters defaults to it
          Contents,      \* Contents[e]: what the file of expert e can hold
          Machines,      \* the model artifacts, held-out cases and hardware of a host
          Bank,          \* the task bank of the snapshot
          AutomationStates,  \* the states an automation cycle is taken to end in
          MaxChanges,    \* bound: files replaced, snapshots published, cycles by others
          MaxSmokes,     \* bound: smoke gates executed
          MaxCrashes,    \* bound: coordinators killed
          Steps          \* training steps of a job

ASSUME HandoffAssumption ==
  /\ \A i \in DOMAIN Ramp : Ramp[i] \in Nat \ {0}
  /\ Trigger \in {"provider_quota_exhausted", "automation_complete"}
  /\ {Order[i] : i \in DOMAIN Order} = Experts
  /\ {MinimumGold, MaxChanges, MaxSmokes, MaxCrashes} \subseteq Nat /\ Steps \in Nat \ {0}

VARIABLES
  status,      \* state_dir/status.json
  run,         \* per launch: pc, flags, its copy of the status, what it has read
  art,         \* accepted gold (a set of samples) and session candidates (a sequence)
  automation,  \* the state in the automation's status file, "missing" without one
  data,        \* the five dataset files
  man, side,   \* the immutable snapshot's manifest and its sidecar
  manifest, sidecar,  \* training-handoff.v1 and its sidecar
  lock,        \* gpu-job.lock exists
  trainer,     \* per launch: its training child
  adapters,    \* per expert: the saved weights and their metadata
  smoke,       \* the executed smoke gate's manifest
  machine,
  history      \* changes, smokes, crashes, was the trigger reached, did launches overlap, touched jobs

vars == <<status, run, art, automation, data, man, side, manifest, sidecar, lock, trainer,
          adapters, smoke, machine, history>>

world == <<art, automation, data, man, side, adapters, smoke, machine, history>>

Fresh == [phase |-> "ready", done |-> <<>>, cls |-> "none", handoff |-> FALSE,
          active |-> "none", jobs |-> <<>>]
Unlaunched == [pc |-> "new", live |-> FALSE, train |-> FALSE, mem |-> Fresh, gate |-> FALSE,
               observed |-> "missing", seen |-> <<>>, todo |-> {}]
NoChild == [pc |-> "none", e |-> "none", index |-> "none", read |-> {}, steps |-> 0,
            bound |-> "none", smoke |-> "none"]
NoAdapter == [weights |-> {}, bound |-> "none", smoke |-> "none"]
NoManifest == [exists |-> FALSE, data |-> <<>>, cls |-> "none"]

Elements(s) == {s[i] : i \in DOMAIN s}
Alive(c) == run[c].pc \notin {"new", "ended"}

------------------------------------------------------------------------------
(* The execution gate *)

Matched(a) == a.gold \cap Elements(a.sessions)
RepeatedSession(a) ==
  \E i, j \in DOMAIN a.sessions : i # j /\ a.sessions[i] = a.sessions[j]

\* inspect_execution_artifacts; an artifact file that was never written is missing.
GatePasses(a) ==
  /\ a.gold # {} /\ a.sessions # <<>>
  /\ ~RepeatedSession(a)
  /\ Cardinality(a.gold) >= MinimumGold
  /\ Matched(a) # {}

Classify(state) ==
  CASE state = "provider_quota_exhausted" -> "provider_quota_exhausted"
    [] state = "complete" -> "automation_complete"
    [] state = "cooldown" -> "temporary_rate_limit"
    [] state = "gate_blocked" -> "data_gate_blocked"
    [] state = "budget_exhausted" -> "local_safety_budget"
    [] state \in {"client_deadline", "failed"} -> state
    [] state \in {"running", "ready"} -> "nonterminal"
    [] OTHER -> "unknown"

\* evaluate_snapshot on the files as they were read and hashed, one after the other.
ReadFiles(seen) == [e \in Experts |-> LET i == CHOOSE i \in DOMAIN Order : Order[i] = e IN seen[i]]
SnapshotPasses(seen) ==
  LET read == [e \in Experts |-> ReadFiles(seen)[e].read]
  IN  /\ \A e \in Experts :
           /\ read[e] \in Valid[e] /\ Len(Lines[read[e]]) >= MinimumRecords
           /\ \A i \in DOMAIN Lines[read[e]] : ~Lines[read[e]][i].secret /\ ~Lines[read[e]][i].leaks
      /\ ~DuplicateIds(read)
Hashes(seen) == [e \in Experts |-> ReadFiles(seen)[e].hash]

\* inspect_lowmem_training
ProfileFits(m) ==
  /\ m.engine = "manual_active_labels_v2" /\ m.checkpointing
  /\ m.batch = 1 /\ m.peak <= 9
  /\ Elements(Order) \subseteq m.bindings

\* A defect: the manifest is checked against its sidecar, the datasets against nothing.
FrozenHoldsBySidecar == manifest.exists /\ sidecar = manifest

\* verify_frozen_handoff
FrozenHolds ==
  /\ manifest.exists /\ sidecar = manifest
  /\ \A e \in Experts : data[e] # Missing /\ data[e] = manifest.data[e]

CompleteJobs(st) == {st.jobs[i].e : i \in {j \in DOMAIN st.jobs : st.jobs[j].ok}}

\* The snapshot directory that prepare_snapshot publishes for the files as they are.
HonestManifest(d, lineage) ==
  LET entry(e) == [name |-> e, sha |-> d[e], records |-> Len(Lines[d[e]]), source |-> d[e]]
      gate == [lineage |-> lineage, sufficient |-> TRUE, chains |-> Bank.records,
               minimum |-> MinimumRecords, edgeErrors |-> 0, chainErrors |-> 0,
               gold |-> [e \in Experts |-> [name |-> e, records |-> entry(e).records, sha |-> d[e]]],
               near |-> TRUE, bank |-> Bank,
               cover |-> [passed |-> TRUE, equal |-> TRUE, chains |-> Bank.records,
                          cards |-> Bank.records, ids |-> Bank.records]]
      body == [exists |-> TRUE, schema |-> TRUE, gate |-> gate,
               files |-> [e \in Experts |-> entry(e)],
               bank |-> [records |-> Bank.records, sha |-> Bank.sha, source |-> Bank.sha],
               digest |-> <<>>]
  IN  [body EXCEPT !.digest = SnapshotDigest(body)]

Datasets == {d \in [Experts -> UNION {Contents[e] : e \in Experts}] :
               \A e \in Experts : d[e] \in Contents[e]}

Ready == PreflightPasses(machine, man, side, Bank, data)

------------------------------------------------------------------------------
Init ==
  /\ status = Fresh
  /\ run = [c \in Launches |-> Unlaunched]
  /\ art \in {[gold |-> {}, sessions |-> <<>>],
              [gold |-> {SampleOf[Ramp[1]]}, sessions |-> <<SampleOf[Ramp[1]]>>]}
  /\ automation = "missing"
  /\ data \in {d \in Datasets : SchemasValid(d)} \* as partitioned; an edit may break them later
  /\ \E d \in Datasets : SchemasValid(d) /\ man = HonestManifest(d, TRUE)
  /\ side = man
  /\ manifest = NoManifest /\ sidecar = NoManifest
  /\ lock = FALSE
  /\ trainer = [c \in Launches |-> NoChild]
  /\ adapters = [e \in Experts |-> NoAdapter]
  /\ smoke = [executed |-> FALSE, passed |-> FALSE, revision |-> "none", digest |-> <<>>, live |-> FALSE]
  /\ machine \in Machines
  /\ history = [changes |-> 0, smokes |-> 0, crashes |-> 0, triggered |-> FALSE, shared |-> FALSE, moved |-> {}]

------------------------------------------------------------------------------
(* The coordinator: steps on its own record and the shared status *)

To(c, r) == run' = [run EXCEPT ![c] = r]
Save(m) == status' = m
\* Write the copy back and leave.
EndWith(c, m) == Save(m) /\ To(c, [run[c] EXCEPT !.mem = m, !.pc = "ended"])
\* An exception leaves nothing but what was saved before.
Raise(c) == To(c, [run[c] EXCEPT !.pc = "ended"]) /\ UNCHANGED status

handoffFiles == <<manifest, sidecar>>

Launch(c, live, train) ==
  /\ run[c].pc = "new" /\ (train => live)
  /\ LET gate == GatePasses(art)
         recovered == live /\ gate /\ status.done = <<>>
         m == IF recovered THEN [status EXCEPT !.done = <<1>>]
              ELSE IF ~live /\ gate THEN [status EXCEPT !.done = Ramp] ELSE status
     IN  /\ To(c, [run[c] EXCEPT !.pc = IF live THEN "ramp" ELSE "decide", !.live = live,
                                 !.train = train, !.mem = m, !.gate = gate])
         /\ status' = IF recovered THEN m ELSE status
  /\ history' = [history EXCEPT !.shared = @ \/ \E d \in Launches : Alive(d)]
  /\ UNCHANGED <<art, automation, data, man, side, manifest, sidecar, lock, trainer, adapters,
                 smoke, machine>>

Pending(c) == SelectSeq(Ramp, LAMBDA k : k \notin Elements(run[c].mem.done))

\* run_live_batch for one stage: a sample that is gold already makes the merge raise, a
\* refused sample may have left its session candidate behind.
StageRun(c) ==
  /\ run[c].pc = "ramp" /\ Pending(c) # <<>>
  /\ LET s == SampleOf[Head(Pending(c))]
         with == Append(art.sessions, s)
         m == run[c].mem
     IN  \/ /\ s \notin art.gold
            /\ art' = [gold |-> art.gold \cup {s}, sessions |-> with]
            /\ Save(m) /\ To(c, [run[c] EXCEPT !.pc = "passed"])
         \/ /\ art' \in {art, [art EXCEPT !.sessions = with]}
            /\ EndWith(c, [m EXCEPT !.phase = "execution_gate_blocked"])
         \/ /\ s \in art.gold
            /\ art' = [art EXCEPT !.sessions = with]
            /\ Raise(c)
  /\ UNCHANGED <<automation, data, man, side, handoffFiles, lock, trainer, adapters, smoke,
                 machine, history>>

\* The stage counts as completed; the first one converts the configured export, and only
\* then is the completed list written, with the event of the conversion.
StagePassed(c, exported) ==
  /\ run[c].pc = "passed"
  /\ LET k == Head(Pending(c))
         m == [run[c].mem EXCEPT !.done = Append(@, k)]
     IN  /\ exported => k = 1
         /\ art' = [art EXCEPT !.sessions = IF exported THEN Append(@, SampleOf[1]) ELSE @]
         /\ IF GatePasses(art')
            THEN /\ To(c, [run[c] EXCEPT !.pc = "ramp", !.mem = m, !.gate = TRUE])
                 /\ status' = IF k = 1 THEN m ELSE status
            ELSE EndWith(c, [m EXCEPT !.phase = "execution_conversion_blocked"])
  /\ UNCHANGED <<automation, data, man, side, handoffFiles, lock, trainer, adapters, smoke,
                 machine, history>>

\* A defect: a class that was recorded before, by a dry run too, is not looked for again.
DecideFromRecord(c) ==
  /\ run[c].pc \in {"ramp", "decide"} /\ (run[c].live => Pending(c) = <<>>)
  /\ IF run[c].gate /\ run[c].mem.done = Ramp
     THEN /\ To(c, [run[c] EXCEPT !.pc = IF run[c].live /\ run[c].mem.cls = "none" THEN "distill"
                                         ELSE "classify",
                                  !.observed = "provider_quota_exhausted"])
          /\ UNCHANGED status
     ELSE EndWith(c, [run[c].mem EXCEPT !.phase = "execution_gate_blocked"])
  /\ UNCHANGED <<world, handoffFiles, lock, trainer>>

Decide(c) ==
  /\ run[c].pc \in {"ramp", "decide"} /\ (run[c].live => Pending(c) = <<>>)
  /\ IF run[c].gate /\ run[c].mem.done = Ramp
     THEN /\ To(c, [run[c] EXCEPT !.pc = IF run[c].live THEN "distill" ELSE "classify",
                                  !.observed = "provider_quota_exhausted"])
          /\ UNCHANGED status
     ELSE EndWith(c, [run[c].mem EXCEPT !.phase = "execution_gate_blocked"])
  /\ UNCHANGED <<world, handoffFiles, lock, trainer>>

Terminal(state) == Classify(state) \in {"provider_quota_exhausted", "automation_complete"}
Reached(state) == [history EXCEPT !.triggered = @ \/ Classify(state) = Trigger]

\* A terminal state left by an earlier cycle is recovered, anything else runs the child.
Distill(c) ==
  /\ run[c].pc = "distill"
  /\ \/ /\ Terminal(automation)
        /\ Save(run[c].mem)
        /\ To(c, [run[c] EXCEPT !.pc = "classify", !.observed = automation])
        /\ UNCHANGED <<automation, history>>
     \/ /\ ~Terminal(automation)
        /\ automation' \in AutomationStates \cup {automation}
        /\ history' = Reached(automation')
        /\ \/ /\ automation' = "missing"
              /\ EndWith(c, [run[c].mem EXCEPT !.phase = "distillation_failed"])
           \/ /\ automation' # "missing"
              /\ To(c, [run[c] EXCEPT !.pc = "classify", !.observed = automation'])
              /\ UNCHANGED status
           \/ Raise(c)
  /\ UNCHANGED <<art, data, man, side, handoffFiles, lock, trainer, adapters, smoke, machine>>

ClassifyTerminal(c) ==
  /\ run[c].pc = "classify"
  /\ LET cls == Classify(run[c].observed)
         m == [run[c].mem EXCEPT !.cls = cls]
     IN  IF cls = Trigger
         THEN Save(m) /\ To(c, [run[c] EXCEPT !.pc = "read", !.mem = m])
         ELSE EndWith(c, [m EXCEPT !.phase = "distillation_stopped_no_handoff"])
  /\ UNCHANGED <<world, handoffFiles, lock, trainer>>

\* evaluate_snapshot reads each dataset to validate it and again to hash it.
ReadFile(c) ==
  /\ run[c].pc = "read" /\ Len(run[c].seen) < Len(Order)
  /\ LET f == data[Order[Len(run[c].seen) + 1]]
     IN  To(c, [run[c] EXCEPT !.pc = "hash", !.seen = Append(@, [read |-> f, hash |-> f])])
  /\ UNCHANGED <<status, world, handoffFiles, lock, trainer>>

HashFile(c) ==
  /\ run[c].pc = "hash"
  /\ LET i == Len(run[c].seen)
     IN  To(c, [run[c] EXCEPT !.pc = "read", !.seen[i].hash = data[Order[i]]])
  /\ UNCHANGED <<status, world, handoffFiles, lock, trainer>>

JudgeSnapshot(c) ==
  /\ run[c].pc = "read" /\ Len(run[c].seen) = Len(Order)
  /\ IF ~SnapshotPasses(run[c].seen) THEN EndWith(c, [run[c].mem EXCEPT !.phase = "data_insufficient"])
     ELSE IF ~ProfileFits(machine) THEN EndWith(c, [run[c].mem EXCEPT !.phase = "training_profile_blocked"])
     ELSE To(c, [run[c] EXCEPT !.pc = "freeze"]) /\ UNCHANGED status
  /\ UNCHANGED <<world, handoffFiles, lock, trainer>>

\* A handoff this status knows of is verified and compared, never written again.
RecoverHandoff(c) ==
  /\ run[c].pc = "freeze" /\ run[c].mem.handoff
  /\ IF /\ FrozenHolds
        /\ manifest.data = Hashes(run[c].seen) /\ manifest.cls = run[c].mem.cls
     THEN Save(run[c].mem) /\ To(c, [run[c] EXCEPT !.pc = "ready"])
     ELSE Raise(c)
  /\ UNCHANGED <<world, handoffFiles, lock, trainer>>

\* A defect: the handoff is frozen anew from what was just read, recorded or not.
WriteManifestAgain(c) ==
  /\ run[c].pc = "freeze"
  /\ manifest' = [exists |-> TRUE, data |-> Hashes(run[c].seen), cls |-> run[c].mem.cls]
  /\ To(c, [run[c] EXCEPT !.pc = "sidecar"])
  /\ UNCHANGED <<status, world, sidecar, lock, trainer>>

WriteManifest(c) ==
  /\ run[c].pc = "freeze" /\ ~run[c].mem.handoff
  /\ manifest' = [exists |-> TRUE, data |-> Hashes(run[c].seen), cls |-> run[c].mem.cls]
  /\ To(c, [run[c] EXCEPT !.pc = "sidecar"])
  /\ UNCHANGED <<status, world, sidecar, lock, trainer>>

WriteSidecar(c) ==
  /\ run[c].pc = "sidecar"
  /\ sidecar' = manifest
  /\ To(c, [run[c] EXCEPT !.pc = "record"])
  /\ UNCHANGED <<status, world, manifest, lock, trainer>>

RecordHandoff(c) ==
  /\ run[c].pc = "record"
  /\ LET m == [run[c].mem EXCEPT !.handoff = TRUE]
     IN  Save(m) /\ To(c, [run[c] EXCEPT !.pc = "ready", !.mem = m])
  /\ UNCHANGED <<world, handoffFiles, lock, trainer>>

\* Without training.auto_start a live run returns here and leaves its phase unsaved. A dry run
\* and an unconfirmed one save it; a confirmed one verifies the freeze and runs the preflight
\* before it decides which adapters are left.
TrainGate(c) ==
  /\ run[c].pc = "ready"
  /\ LET m == [run[c].mem EXCEPT !.phase = "handoff_ready"]
     IN  \/ run[c].live /\ Raise(c)
         \/ IF ~run[c].train THEN EndWith(c, m)
            ELSE IF ~FrozenHolds THEN Raise(c)
            ELSE IF ~Ready THEN EndWith(c, [m EXCEPT !.phase = "training_preflight_blocked"])
            ELSE /\ To(c, [run[c] EXCEPT !.pc = "lock", !.mem = m, !.todo =
                              {i \in DOMAIN Order : Order[i] \notin CompleteJobs(m)}])
                 /\ UNCHANGED status
  /\ UNCHANGED <<world, handoffFiles, lock, trainer>>

------------------------------------------------------------------------------
(* Sequential training jobs under the GPU lock *)

\* A defect: a lock file that is already there is taken for one's own.
TakeLockThatIsThere(c) ==
  /\ run[c].pc = "lock"
  /\ lock' = TRUE /\ To(c, [run[c] EXCEPT !.pc = "jobs"])
  /\ UNCHANGED <<status, world, handoffFiles, trainer>>

TakeLock(c) ==
  /\ run[c].pc = "lock"
  /\ IF lock THEN Raise(c) /\ UNCHANGED lock
     ELSE lock' = TRUE /\ To(c, [run[c] EXCEPT !.pc = "jobs"]) /\ UNCHANGED status
  /\ UNCHANGED <<world, handoffFiles, trainer>>

StartJob(c) ==
  /\ run[c].pc = "jobs" /\ run[c].todo # {}
  /\ IF FrozenHolds
     THEN \E i \in run[c].todo :
            /\ \A j \in run[c].todo : i <= j
            /\ LET m == [run[c].mem EXCEPT !.phase = "training", !.active = Order[i]]
               IN  Save(m) /\ To(c, [run[c] EXCEPT !.pc = "waiting", !.mem = m, !.todo = @ \ {i}])
            /\ trainer' = [trainer EXCEPT ![c] = [NoChild EXCEPT !.pc = "check", !.e = Order[i]]]
            /\ UNCHANGED lock
     ELSE Raise(c) /\ lock' = FALSE /\ UNCHANGED trainer
  /\ UNCHANGED <<world, handoffFiles>>

JobEnds(c) ==
  /\ run[c].pc = "waiting" /\ trainer[c].pc \in {"done", "failed"}
  /\ LET ok == trainer[c].pc = "done"
         m == [run[c].mem EXCEPT !.active = "none",
                                 !.jobs = Append(@, [e |-> trainer[c].e, ok |-> ok]),
                                 !.phase = IF ok THEN @ ELSE "training_failed"]
     IN  IF ok THEN /\ Save(m) /\ UNCHANGED lock
                    /\ To(c, [run[c] EXCEPT !.pc = "jobs", !.mem = m])
         ELSE EndWith(c, m) /\ lock' = FALSE
  /\ trainer' = [trainer EXCEPT ![c] = NoChild]
  /\ UNCHANGED <<world, handoffFiles>>

LeaveLock(c) ==
  /\ run[c].pc = "jobs" /\ run[c].todo = {}
  /\ lock' = FALSE
  /\ To(c, [run[c] EXCEPT !.pc = "finish"])
  /\ UNCHANGED <<status, world, handoffFiles, trainer>>

Finish(c) ==
  /\ run[c].pc = "finish"
  /\ EndWith(c, [run[c].mem EXCEPT !.phase = "complete"])
  /\ UNCHANGED <<world, handoffFiles, lock, trainer>>

\* The process is killed: the lock file stays and a training child goes on without it.
Crash(c) ==
  /\ Alive(c) /\ history.crashes < MaxCrashes
  /\ Raise(c)
  /\ history' = [history EXCEPT !.crashes = @ + 1]
  /\ UNCHANGED <<art, automation, data, man, side, adapters, smoke, machine, handoffFiles, lock, trainer>>

\* An interrupt unwinds: subprocess.run kills the child and the lock is removed.
Interrupt(c) ==
  /\ run[c].pc \in {"jobs", "waiting"} /\ history.crashes < MaxCrashes
  /\ Raise(c)
  /\ trainer' = [trainer EXCEPT ![c] = NoChild]
  /\ lock' = FALSE
  /\ history' = [history EXCEPT !.crashes = @ + 1]
  /\ UNCHANGED <<art, automation, data, man, side, adapters, smoke, machine, handoffFiles>>

------------------------------------------------------------------------------
(* The training child *)

rest == <<status, run, art, automation, data, man, side, handoffFiles, lock, smoke, machine, history>>
Child(c, t) == trainer' = [trainer EXCEPT ![c] = t]

\* main of training/cli.py: the preflight again, then the smoke gate of this snapshot.
TrainCheck(c) ==
  /\ trainer[c].pc = "check"
  /\ Child(c, IF Ready /\ PriorSmokePasses(smoke, man)
              THEN [trainer[c] EXCEPT !.pc = "load", !.bound = SnapshotDigest(man), !.smoke = smoke.digest]
              ELSE [trainer[c] EXCEPT !.pc = "failed"])
  /\ UNCHANGED <<rest, adapters>>

\* _JsonlMapDataset reads through its file once; no schedule can be made over no records.
DatasetOpens(e) == data[e] # Missing /\ Lines[data[e]] # <<>>

\* _train_adapter_impl imports the stack, asks the device again, loads the quantized model and
\* attaches the adapter, any of which may raise; only then does it keep the byte offsets of the
\* file it finds.
TrainLoad(c) ==
  /\ trainer[c].pc = "load"
  /\ \/ /\ machine.cuda /\ machine.bf16
        /\ DatasetOpens(trainer[c].e)
        /\ Child(c, [trainer[c] EXCEPT !.pc = "steps", !.index = data[trainer[c].e]])
     \/ Child(c, [trainer[c] EXCEPT !.pc = "failed"])
  /\ UNCHANGED <<rest, adapters>>

\* Each micro-step opens the file again; old offsets in a new file give a broken line or a
\* wrong record. Memory and loss gates may end the job at any step.
TrainStep(c) ==
  /\ trainer[c].pc = "steps" /\ trainer[c].steps < Steps
  /\ LET f == data[trainer[c].e]
     IN  \/ Child(c, [trainer[c] EXCEPT !.pc = "failed"])
         \/ f # Missing /\ Child(c, [trainer[c] EXCEPT !.read = @ \cup {f}, !.steps = @ + 1])
  /\ UNCHANGED <<rest, adapters>>

SaveWeights(c) ==
  /\ trainer[c].pc = "steps" /\ trainer[c].steps = Steps
  /\ adapters' = [adapters EXCEPT ![trainer[c].e].weights = trainer[c].read]
  /\ Child(c, [trainer[c] EXCEPT !.pc = "saved"])
  /\ UNCHANGED rest

SaveMetadata(c) ==
  /\ trainer[c].pc = "saved"
  /\ adapters' = [adapters EXCEPT ![trainer[c].e] =
                     [@ EXCEPT !.bound = trainer[c].bound, !.smoke = trainer[c].smoke]]
  /\ Child(c, [trainer[c] EXCEPT !.pc = "done"])
  /\ UNCHANGED rest

\* Nobody waits for the child of a killed coordinator.
OrphanEnds(c) ==
  /\ run[c].pc = "ended" /\ trainer[c].pc \in {"done", "failed"}
  /\ Child(c, NoChild)
  /\ UNCHANGED <<rest, adapters>>

------------------------------------------------------------------------------
(* Around the coordinator *)

unmoved == <<status, run, art, handoffFiles, lock, trainer, adapters, machine>>

\* What a running job may have seen half of.
Moved ==
  /\ history.changes < MaxChanges
  /\ history' = [history EXCEPT !.changes = @ + 1,
                                !.moved = @ \cup ({trainer[c].e : c \in Launches} \cap Experts)]

\* A dataset file is replaced (a partition published again, an edit by hand).
ReplaceFile(e) ==
  /\ Moved
  /\ \E f \in Contents[e] \ {data[e]} : data' = [data EXCEPT ![e] = f]
  /\ UNCHANGED <<unmoved, automation, man, side, smoke>>

PublishSnapshot ==
  /\ Moved /\ SchemasValid(data)
  /\ \E lineage \in BOOLEAN : man' = HonestManifest(data, lineage)
  /\ man' # man /\ side' = man'
  /\ UNCHANGED <<unmoved, automation, data, smoke>>

\* The automation may also be run, stopped or given a new quota epoch by its operator.
AutomationMoves ==
  /\ history.changes < MaxChanges
  /\ automation' \in AutomationStates \ {automation}
  /\ history' = [Reached(automation') EXCEPT !.changes = @ + 1]
  /\ UNCHANGED <<unmoved, data, man, side, smoke>>

\* smoke-gate --execute: its manifest first says not passed, with the snapshot it saw.
SmokeStart ==
  /\ smoke' = [executed |-> TRUE, passed |-> FALSE, revision |-> machine.base.revision,
               digest |-> SnapshotDigest(man), live |-> Ready]
  /\ ~smoke.live /\ history.smokes < MaxSmokes
  /\ history' = [history EXCEPT !.smokes = @ + 1]
  /\ UNCHANGED <<unmoved, automation, data, man, side>>

SmokeEnd(passed) ==
  /\ smoke.live
  /\ smoke' = [smoke EXCEPT !.live = FALSE, !.passed = passed]
  /\ UNCHANGED <<unmoved, automation, data, man, side, history>>

------------------------------------------------------------------------------
Next ==
  \/ \E c \in Launches :
       \/ \E live, train \in BOOLEAN : Launch(c, live, train)
       \/ StageRun(c)
       \/ \E exported \in BOOLEAN : StagePassed(c, exported)
       \/ Decide(c)
       \/ Distill(c)
       \/ ClassifyTerminal(c)
       \/ ReadFile(c)
       \/ HashFile(c)
       \/ JudgeSnapshot(c)
       \/ RecoverHandoff(c)
       \/ WriteManifest(c)
       \/ WriteSidecar(c)
       \/ RecordHandoff(c)
       \/ TrainGate(c)
       \/ TakeLock(c)
       \/ StartJob(c)
       \/ JobEnds(c)
       \/ LeaveLock(c)
       \/ Finish(c)
       \/ Crash(c)
       \/ Interrupt(c)
       \/ TrainCheck(c)
       \/ TrainLoad(c)
       \/ TrainStep(c)
       \/ SaveWeights(c)
       \/ SaveMetadata(c)
       \/ OrphanEnds(c)
  \/ \E e \in Experts : ReplaceFile(e)
  \/ PublishSnapshot
  \/ AutomationMoves
  \/ SmokeStart
  \/ \E passed \in BOOLEAN : SmokeEnd(passed)

Spec == Init /\ [][Next]_vars

------------------------------------------------------------------------------
(* Properties *)

\* At most one handoff-owned training job holds the GPU, whatever coordinators overlap, are
\* killed (leaving child and lock behind) or are interrupted.
OneTrainer ==
  \A c, d \in Launches : trainer[c].pc # "none" /\ trainer[d].pc # "none" => c = d

\* An adapter whose job the status calls complete was trained only on records of the frozen
\* file, under the frozen snapshot's smoke gate, and its metadata says so. It is claimed
\* while coordinators do not overlap and no file moved under the running job.
TrainedOnFrozenData ==
  ~history.shared =>
    \A e \in CompleteJobs(status) \ history.moved :
      /\ adapters[e].weights = {manifest.data[e]}
      /\ \A f \in Experts : adapters[e].bound[1][f][2] = manifest.data[f]
      /\ adapters[e].smoke = adapters[e].bound

\* No training starts before the automation really ended the way the configuration asks for:
\* the mock terminal state of a dry run is persisted, yet a live run looks again.
RealTrigger ==
  \A c \in Launches : trainer[c].pc # "none" => history.triggered

\* Once the status records a handoff, the frozen manifest and its sidecar stay what they are,
\* through reruns, crashes and changed data (coordinators that overlap are excluded).
HandoffNeverReplaced ==
  [][status.handoff /\ ~history.shared' => UNCHANGED handoffFiles]_vars
==============================================================================
