----------------------------- MODULE ShardMerge -----------------------------
(* Merging distillation shards (shard_merge.py) and partitioning what comes   *)
(* out (automation.py, partition_collected_records).  Mergers audit the same  *)
(* source directories, race for the target's lock file and publish a staged   *)
(* directory with one rename; any of them may be killed, which leaves its     *)
(* lock and its staging directory behind.  The partition then runs over the   *)
(* merged target, or over a source directory that was never merged.           *)
EXTENDS SnapshotReadiness, Sequences

CONSTANTS Mergers,   \* concurrent merge commands with the same target
          Inputs,    \* sequences of source directories, the base first
          Settings   \* [similar: near-duplicate seed pairs, heldout: gate enabled]

(* The fields of a row as the loaders validate them; what the detectors for    *)
(* labels can find is found in the tasks that carry a label.                  *)
RowFields == {"line", "id", "task", "seed", "prompt", "body", "src", "embeds", "marks"}
RowLoaded(r) ==
  /\ r = [f \in RowFields |-> r[f]]
  /\ r.task \in Tasks /\ r.seed \in Seeds \cup {Missing}
  /\ r.marks \cap {"oracle", "disagrees"} # {} => r.task \in LabelTasks

VARIABLES sources,   \* the source directories: [seeds, rows] each
          setting,   \* which requirements are near duplicates; the held-out gate
          place,     \* place[m]: where merge command m stands
          audited,   \* audited[m]: the rows and seeds m will write
          lock,      \* the merger whose .merge.lock exists, or Missing
          staging,   \* staging[m]: files written in m's temporary directory
          target,    \* the target directory, or Missing
          published, \* the merger whose rename made the target, or Missing
          parted     \* manifest of the latest partition, or Missing

mergeVars == <<sources, setting, place, audited, lock, staging, target, published, parted>>

TargetFiles == {"seeds"} \cup Tasks \cup {"manifest"}

(* --- the audit ---------------------------------------------------------------- *)

Content(row) == [row EXCEPT !.line = 0]
Fingerprint(row) == [row EXCEPT !.line = 0, !.id = Missing]

AllSeeds(dirs) == UNION {dirs[i].seeds : i \in DOMAIN dirs}
AllRows(dirs) == UNION {{Content(r) : r \in dirs[i].rows} : i \in DOMAIN dirs}

(* What a merge or another program can make of the target.                    *)
Merged(dirs) == [files |-> TargetFiles, seeds |-> AllSeeds(dirs), rows |-> AllRows(dirs)]
Foreign == [files |-> {}, seeds |-> {}, rows |-> {}]

ASSUME ShardMergeAssumption ==
  /\ \A dirs \in Inputs :
       /\ IsFiniteSet(DOMAIN dirs)
       /\ \A i \in DOMAIN dirs :
            IsFiniteSet(dirs[i].rows) /\ \A r \in dirs[i].rows : RowLoaded(r)
  /\ Missing \notin Mergers \cup {Merged(dirs) : dirs \in Inputs} \cup {Foreign}

(* _validate_seed: canonical schema, no credential, a card that binds.        *)
SeedValid(s) == s.valid /\ s.card # "invalid"

(* _validate_task_record: credentials, schema, safe payload, source fields.   *)
RecordValid(row) ==
  /\ row.marks \cap {"secret_detected", "unsafe_payload", "schema"} = {}
  /\ row.seed # Missing
  /\ \A up \in Upstream(row.task) : row.src[up] # Missing

(* A defect: a second row of a task and seed is let in. *)
NoConflictById(seedRows, rows) ==
  /\ \A a, b \in seedRows : a.seed = b.seed => a = b
  /\ \A a, b \in rows : a.id = b.id => a = b

(* Equal identity must mean equal content, and different identity different   *)
(* request, index and content; one row per task and seed.                     *)
NoConflict(seedRows, rows) ==
  /\ \A a, b \in seedRows :
       /\ a.seed = b.seed => a = b
       /\ a.seed # b.seed => /\ a.request # b.request
                             /\ a.index # b.index \/ a.index = Missing
  /\ \A a, b \in rows :
       /\ a.id = b.id => a = b
       /\ a.id # b.id => Fingerprint(a) # Fingerprint(b)
       /\ a.task = b.task /\ a.seed = b.seed => a = b

(* _audit_lineage: dependency closure, card provenance, sources that resolve  *)
(* in the same seed, embedded upstream outputs (of tool_policy and frontend   *)
(* rows only) and no planner fork.                                            *)
SourceResolves(rows, row, up) ==
  \E u \in OfTask(rows, up) : /\ u.id = row.src[up]
                              /\ u.seed = row.seed
                              /\ row.task \in {"tool_policy", "frontend"} => row.embeds[up] = u.body

LineageAudited(seedRows, rows) ==
  /\ SeedsOf(rows) \subseteq {s.seed : s \in seedRows}
  /\ \A t \in Tasks : \A up \in Upstream(t) :
       SeedsOf(OfTask(rows, t)) \subseteq SeedsOf(OfTask(rows, up))
  /\ \A r \in rows :
       /\ CardOf(seedRows, r.seed) # "legacy" => "misaligned" \notin r.marks
       /\ \A up \in Upstream(r.task) : SourceResolves(rows, r, up)
       /\ r.task = "frontend" =>
            \A p \in OfTask(rows, "tool_policy") :
              p.id = r.src["tool_policy"] => p.src["plan"] = r.src["plan"]

OneCardPerSeed(seedRows) ==
  Cardinality({s.cardId : s \in seedRows}) = Cardinality(seedRows)

AuditAccepts(dirs) ==
  LET seedRows == AllSeeds(dirs)
      rows == AllRows(dirs)
  IN  /\ \A s \in seedRows : SeedValid(s)
      /\ \A r \in rows : RecordValid(r)
      /\ NoConflict(seedRows, rows)
      /\ LineageAudited(seedRows, rows)
      /\ OneCardPerSeed(seedRows)

(* --- merge_distillation_shards -------------------------------------------------- *)

MergeInit ==
  /\ sources \in Inputs
  /\ setting \in Settings
  /\ place = [m \in Mergers |-> "start"]
  /\ audited = [m \in Mergers |-> Missing]
  /\ lock = Missing
  /\ staging = [m \in Mergers |-> Missing]
  /\ target = Missing
  /\ published = Missing
  /\ parted = Missing

(* _resolve_sources refuses an existing target; _audit_sources then reads all *)
(* sources.  A dry run returns the manifest here.                             *)
Audit(m) ==
  /\ place[m] = "start"
  /\ IF target # Missing \/ ~ AuditAccepts(sources)
     THEN place' = [place EXCEPT ![m] = "refused"] /\ UNCHANGED audited
     ELSE /\ place' \in {[place EXCEPT ![m] = "lock"], [place EXCEPT ![m] = "dry_run"]}
          /\ audited' = [audited EXCEPT ![m] = [seeds |-> AllSeeds(sources),
                                                rows |-> AllRows(sources)]]
  /\ UNCHANGED <<sources, setting, lock, staging, target, published, parted>>

(* A defect: a lock that is there is taken over. *)
TakeLockOver(m) ==
  /\ place[m] = "lock"
  /\ lock' = m /\ place' = [place EXCEPT ![m] = "check"]
  /\ UNCHANGED <<sources, setting, audited, staging, target, published, parted>>

(* O_CREAT|O_EXCL on the lock file, also against a lock a killed merger left. *)
TakeLock(m) ==
  /\ place[m] = "lock"
  /\ IF lock = Missing
     THEN lock' = m /\ place' = [place EXCEPT ![m] = "check"]
     ELSE place' = [place EXCEPT ![m] = "refused"] /\ UNCHANGED lock
  /\ UNCHANGED <<sources, setting, audited, staging, target, published, parted>>

(* The target is looked at again under the lock; the staging directory is     *)
(* made and its files are written and fsynced, the manifest last.             *)
CheckAndStage(m) ==
  /\ place[m] = "check"
  /\ IF target # Missing
     THEN place' = [place EXCEPT ![m] = "cleanup"] /\ UNCHANGED staging
     ELSE /\ staging' = [staging EXCEPT ![m] = {}]
          /\ place' = [place EXCEPT ![m] = "write"]
  /\ UNCHANGED <<sources, setting, audited, lock, target, published, parted>>

WriteStaged(m) ==
  /\ place[m] = "write"
  /\ \/ /\ staging[m] # TargetFiles
        /\ staging' = [staging EXCEPT ![m] =
             IF @ = {} THEN TargetFiles \ {"manifest"} ELSE TargetFiles]
        /\ UNCHANGED place
     \/ /\ staging[m] = TargetFiles
        /\ place' = [place EXCEPT ![m] = IF target # Missing THEN "cleanup" ELSE "rename"]
        /\ UNCHANGED staging
  /\ UNCHANGED <<sources, setting, audited, lock, target, published, parted>>

(* os.rename: a directory somebody else made there meanwhile is not empty, so *)
(* the call fails and the staging directory is removed (an empty one, which   *)
(* POSIX would replace, is left out).                                         *)
Rename(m) ==
  /\ place[m] = "rename"
  /\ IF target = Missing
     THEN /\ target' = [files |-> staging[m], seeds |-> audited[m].seeds,
                        rows |-> audited[m].rows]
          /\ published' = m
          /\ staging' = [staging EXCEPT ![m] = Missing]
     ELSE UNCHANGED <<target, published, staging>>
  /\ place' = [place EXCEPT ![m] = "cleanup"]
  /\ UNCHANGED <<sources, setting, audited, lock, parted>>

(* The finally block: remove the staging directory, unlink the lock.          *)
Cleanup(m) ==
  /\ place[m] = "cleanup"
  /\ staging' = [staging EXCEPT ![m] = Missing]
  /\ lock' = Missing
  /\ place' = [place EXCEPT ![m] = IF published = m THEN "done" ELSE "refused"]
  /\ UNCHANGED <<sources, setting, audited, target, published, parted>>

(* The process is killed: nothing it made on disk is removed.                 *)
Kill(m) ==
  /\ place[m] \in {"check", "write", "rename", "cleanup"}
  /\ place' = [place EXCEPT ![m] = "killed"]
  /\ UNCHANGED <<sources, setting, audited, lock, staging, target, published, parted>>

(* Something other than a merge makes a directory of the target's name.       *)
ForeignTarget ==
  /\ target = Missing
  /\ target' = Foreign
  /\ UNCHANGED <<sources, setting, place, audited, lock, staging, published, parted>>

(* --- partition_collected_records over a finished directory ------------------------ *)

PartitionMerged ==
  /\ published # Missing
  /\ parted = Missing
  /\ parted' = PartitionResult(target.rows, target.seeds, setting.similar, setting.heldout)
  /\ UNCHANGED <<sources, setting, place, audited, lock, staging, target, published>>

PartitionSource(i) ==
  /\ parted = Missing
  /\ \A m \in Mergers : place[m] = "start"
  /\ parted' = PartitionResult(sources[i].rows, sources[i].seeds, setting.similar, setting.heldout)
  /\ place' = [m \in Mergers |-> "unused"]
  /\ UNCHANGED <<sources, setting, audited, lock, staging, target, published>>

MergeNext ==
  \/ \E m \in Mergers : \/ Audit(m) \/ TakeLock(m) \/ CheckAndStage(m) \/ WriteStaged(m)
                        \/ Rename(m) \/ Cleanup(m) \/ Kill(m)
  \/ ForeignTarget
  \/ PartitionMerged
  \/ \E i \in DOMAIN sources : PartitionSource(i)

MergeSpec == MergeInit /\ [][MergeNext]_mergeVars

(* --- properties --------------------------------------------------------------------- *)

(* A target that a merge published is complete and is exactly its sources:    *)
(* every file is there, every input row and seed survives once, a record id   *)
(* and a (task, seed) pair name one row, every source id resolves to a row of *)
(* the same seed, and the only defects the partition can still find in its    *)
(* lineage are stale inputs of review and security rows, which the audit      *)
(* (shard_merge.py:343) leaves to it.                                         *)
PublishedMergeIsSound ==
  published # Missing =>
    LET rows == target.rows
    IN  /\ target.files = TargetFiles
        /\ \A i \in DOMAIN sources : /\ {Content(r) : r \in sources[i].rows} \subseteq rows
                                     /\ sources[i].seeds \subseteq target.seeds
        /\ \A r \in rows : \E i \in DOMAIN sources : r \in {Content(x) : x \in sources[i].rows}
        /\ \A a, b \in rows : a.id = b.id \/ (a.task = b.task /\ a.seed = b.seed) => a = b
        /\ \A e \in Edges : \A r \in OfTask(rows, e[2]) :
             LET code == EdgeCode({PartitionRecord(target.seeds, x) : x \in rows}, e[1],
                                  PartitionRecord(target.seeds, r))
             IN  code # "ok" => code = "canonical_input_mismatch"
                                /\ r.task \in {"review", "security"}
        /\ \A c \in Chains(rows) : Whole(c)

(* At most one merger is between taking the lock and releasing it, and        *)
(* nothing replaces a target once one is there.                               *)
TargetNeverReplaced ==
  [][/\ target # Missing => target' = target
     /\ Cardinality({m \in Mergers : place'[m] \in {"check", "write", "rename", "cleanup"}}) <= 1]_mergeVars

(* What the manifest calls training_ready is the whole and nothing but the    *)
(* whole: the gold rows are the five rows of each complete seed, one per      *)
(* stage, none of them carries a label of any kind, each names and embeds the *)
(* gold row before it, no two of the seeds are near duplicates or share a     *)
(* card, and no row of the raw files collides with a held-out case.           *)
ReadyMeansWholeChains ==
  parted # Missing => (parted.training_ready =>
    /\ \A s \in SeedsOf(parted.files.gold) : \A t \in Tasks :
         Cardinality({r \in parted.files.gold : r.seed = s /\ r.task = t}) = 1
    /\ \A r \in parted.files.gold :
         /\ r.marks \cap {"secret_detected", "unsafe_payload", "oracle", "disagrees",
                          "misaligned", "invalid_quality_retry_metadata"} = {}
         /\ \A up \in Upstream(r.task) :
              \E u \in parted.files.gold : /\ u.task = up /\ u.seed = r.seed /\ u.id = r.src[up]
                                     /\ u.body = r.embeds[up]
    /\ \A s, t \in SeedsOf(parted.files.gold) : s # t => {s, t} \notin setting.similar
    /\ Cardinality({b.card : b \in parted.files.task_bank}) = Cardinality(SeedsOf(parted.files.gold))
    /\ setting.heldout => \A r \in parted.files.staging : "leaks" \notin r.marks)

(* A near-duplicate seed moves out of gold as one whole chain and for the     *)
(* benefit of a seed that stays: no row of a loser is left in gold, and each  *)
(* loser is similar to a seed that still has its complete chain.  A prefix of *)
(* a chain can stay in gold only if it never was complete.                    *)
LosersMoveWhole ==
  parted # Missing =>
    \A s \in parted.losers :
      /\ s \notin SeedsOf(parted.files.gold)
      /\ \E t \in parted.complete : {s, t} \in setting.similar

(* What the partition hands on is whole: chains, and what it takes out.       *)
GoldIsWhole == ReadyMeansWholeChains /\ LosersMoveWhole

(* Two implementations of one decision agree: what the partition calls        *)
(* training_ready is what evaluate_readiness (snapshot.py), computing it      *)
(* again from the files, does not block, unless the held-out gate was         *)
(* disabled (the readiness check wants PASS); and when any file has lost a    *)
(* row since, nothing can be frozen from it.                                  *)
ReadinessAgrees ==
  parted # Missing =>
    LET raw == parted.files.staging
        disk == [f \in (DOMAIN parted.files) \cup {"raw"} |->
                   IF f = "raw" THEN raw ELSE parted.files[f]]
        status == [state |-> "complete", partition |-> parted,
                   heldout_gate |-> parted.heldout_gate]
    IN  /\ Unblocked(parted, disk, status, Minimum)
              <=> (parted.training_ready /\ setting.heldout)
        /\ \A f \in (DOMAIN disk) \ {"oracle_label_only"} : \A r \in disk[f] :
              ~ Unblocked(parted, [disk EXCEPT ![f] = @ \ {r}], status, Minimum)
=============================================================================
