------------------------------ MODULE Snapshot ------------------------------
(* Publication of training data.  One automation process writes the files of  *)
(* a partition one after the other and saves its terminal status              *)
(* (automation.py); any number of snapshot commands read those files, decide  *)
(* readiness, copy them and publish the copy with one rename (snapshot.py).   *)
(* Nothing locks the files: the commands rely on bindings (hash, size, count) *)
(* read before, between and after the reads.  A hash is the content itself.   *)
EXTENDS Naturals, Sequences, FiniteSets

CONSTANTS Commands,     \* snapshot commands that may run at the same time
          Collections,  \* successive states of the raw collection
          Bytes,        \* Bytes[c][f]: what partitioning c writes to file f
          RawCount,     \* RawCount[c]: the raw rows of a collection
          ReadyOnes,    \* collections whose manifest passes every gate
          MaxPartitions,\* bound: partitions the automation makes
          Gold,         \* the gold files, one per stage, in stage order
          Sidecars,     \* the other partition files, in the order written
          Nothing

(* The order partition_collected_records replaces its files in; the manifest  *)
(* follows, and the status after it.                                          *)
WriteOrder == Sidecars \o Gold \o <<"task_bank">>
Files == {WriteOrder[i] : i \in DOMAIN WriteOrder}
Copied == Gold \o <<"task_bank">>

(* manifest.json binds every file of the partition and the raw counts.        *)
ManifestOf(c) == [declares |-> Bytes[c], raw |-> RawCount[c], ready |-> c \in ReadyOnes]

(* What a snapshot directory holds: its source, its list of bindings, its     *)
(* files and the manifest whose gates were evaluated.                         *)
Manifests == {ManifestOf(c) : c \in Collections}
Directories == [source : Manifests, lists : Seq(Nat), copies : Seq(Nat), gates : Manifests]

ASSUME SnapshotAssumption ==
  /\ Gold \in Seq(STRING) /\ Sidecars \in Seq(STRING)
  /\ Bytes \in [Collections -> [Files -> Nat]]
  /\ RawCount \in [Collections -> Nat]
  /\ ReadyOnes \subseteq Collections
  /\ MaxPartitions \in Nat
  /\ Nothing \notin Directories

VARIABLES raw,       \* the collection the raw files hold
          files,     \* the partition directory: file name -> bytes
          manifest,  \* partition manifest.json, or Nothing
          status,    \* automation status.json: [state, partition]
          written,   \* files the running partition has replaced; Nothing when idle
          made,      \* partitions started
          pc, seen,  \* per command: where it stands and what it has read
          temp,      \* per command: its temporary snapshot directory
          snap,      \* the published snapshot directory, or Nothing
          report     \* the readiness report file, or Nothing

autoVars == <<raw, files, manifest, status, written, made>>
snapshotVars == <<raw, files, manifest, status, written, made, pc, seen, temp, snap, report>>

Terminal == {"provider_quota_exhausted", "complete"}
NothingSeen == [partition |-> Nothing, partitionSha |-> Nothing, status |-> Nothing, statusSha |-> Nothing,
                bound |-> <<>>, blocked |-> FALSE, existed |-> FALSE]

SnapshotInit ==
  /\ raw \in Collections
  /\ files = [f \in Files |-> 0]
  /\ manifest = Nothing
  /\ status = [state |-> "running", partition |-> Nothing]
  /\ written = Nothing
  /\ made = 0
  /\ pc = [p \in Commands |-> "idle"]
  /\ seen = [p \in Commands |-> NothingSeen]
  /\ temp = [p \in Commands |-> Nothing]
  /\ snap = Nothing
  /\ report = Nothing

(* --- the automation --------------------------------------------------------------- *)

(* A stage adds rows to the raw files.                                        *)
Collect ==
  /\ status.state = "running" /\ written = Nothing
  /\ raw' \in Collections \ {raw}
  /\ UNCHANGED <<files, manifest, status, written, made, pc, seen, temp, snap, report>>

(* On explicit provider quota the terminal state is saved first and the       *)
(* partition is made afterwards; after a completed stage it is made first.    *)
BeginPartition ==
  /\ written = Nothing /\ made < MaxPartitions
  /\ status.state = "running"
  /\ written' = 0 /\ made' = made + 1
  /\ status' \in {status, [status EXCEPT !.state = "provider_quota_exhausted"]}
  /\ UNCHANGED <<raw, files, manifest, pc, seen, temp, snap, report>>

WriteFile ==
  /\ written # Nothing /\ written < Len(WriteOrder)
  /\ files' = [files EXCEPT ![WriteOrder[written + 1]] = Bytes[raw][WriteOrder[written + 1]]]
  /\ written' = written + 1
  /\ UNCHANGED <<raw, manifest, status, made, pc, seen, temp, snap, report>>

WriteManifest ==
  /\ written = Len(WriteOrder)
  /\ manifest' = ManifestOf(raw)
  /\ written' = Len(WriteOrder) + 1
  /\ UNCHANGED <<raw, files, status, made, pc, seen, temp, snap, report>>

(* The status is saved with the partition in it; the run goes on (a next      *)
(* stage, a quality retry) or has ended.                                      *)
SaveStatus ==
  /\ written = Len(WriteOrder) + 1
  /\ status' \in {[state |-> s, partition |-> manifest] :
                    s \in IF status.state = "running"
                          THEN {"running", "complete", "gate_blocked"}
                          ELSE {status.state}}
  /\ written' = Nothing
  /\ UNCHANGED <<raw, files, manifest, made, pc, seen, temp, snap, report>>

(* The process dies part way through a partition: the files stay as they are. *)
CrashPartition ==
  /\ written # Nothing
  /\ written' = Nothing
  /\ UNCHANGED <<raw, files, manifest, status, made, pc, seen, temp, snap, report>>

(* A new quota epoch puts a stopped run back to running.                      *)
NewEpoch ==
  /\ written = Nothing /\ status.state # "running" /\ made < MaxPartitions
  /\ status' = [status EXCEPT !.state = "running"]
  /\ UNCHANGED <<raw, files, manifest, written, made, pc, seen, temp, snap, report>>

(* --- evaluate_readiness --------------------------------------------------------------- *)

Goto(p, where) == pc' = [pc EXCEPT ![p] = where]
Saw(p, field, value) == seen' = [seen EXCEPT ![p] = [@ EXCEPT ![field] = value]]
Block(p, condition) == seen' = [seen EXCEPT ![p].blocked = @ \/ condition]
Forget(p) == seen' = [seen EXCEPT ![p] = NothingSeen]
Commandless == UNCHANGED autoVars /\ UNCHANGED <<temp, snap, report>>

Start(p) ==
  /\ pc[p] = "idle" /\ manifest # Nothing
  /\ seen' = [seen EXCEPT ![p] = [NothingSeen EXCEPT !.partition = manifest]]
  /\ Goto(p, "sha") /\ Commandless

(* The manifest is hashed by a second read: its bytes may be a newer version  *)
(* than the mapping the decisions below are made from.                        *)
HashManifest(p) ==
  /\ pc[p] = "sha"
  /\ Saw(p, "partitionSha", manifest)
  /\ Goto(p, "sidecars") /\ Commandless

(* The flags of the manifest, the task bank (bound, parsed, bound again) and  *)
(* the sidecars (counted and hashed against the manifest).                    *)
CheckSidecars(p) ==
  /\ pc[p] = "sidecars"
  /\ Block(p, \/ ~ seen[p].partition.ready
              \/ \E f \in Files \ ({Gold[i] : i \in DOMAIN Gold} \cup {"oracle_label_only"}) :
                   files[f] # seen[p].partition.declares[f])
  /\ Goto(p, "status") /\ Commandless

ReadStatus(p) ==
  /\ pc[p] = "status"
  /\ seen' = [seen EXCEPT ![p].status = status,
                          ![p].blocked = \/ @ \/ status.state \notin Terminal
                                         \/ status.partition # seen[p].partition]
  /\ Goto(p, "status_sha") /\ Commandless

HashStatus(p) ==
  /\ pc[p] = "status_sha"
  /\ Saw(p, "statusSha", status)
  /\ Goto(p, "gold") /\ Commandless

(* A defect: the binding is not compared with the manifest's. *)
ReadGoldUnbound(p) ==
  /\ pc[p] = "gold" /\ Len(seen[p].bound) < Len(Gold)
  /\ LET f == Gold[Len(seen[p].bound) + 1]
     IN  seen' = [seen EXCEPT ![p].bound = Append(@, files[f])]
  /\ UNCHANGED pc /\ Commandless

(* One gold file: bound, validated and parsed, bound again; the manifest's    *)
(* binding must be the one before, and nothing may change during the read.    *)
ReadGold(p) ==
  /\ pc[p] = "gold" /\ Len(seen[p].bound) < Len(Gold)
  /\ LET f == Gold[Len(seen[p].bound) + 1]
     IN  seen' = [seen EXCEPT ![p].bound = Append(@, files[f]),
                              ![p].blocked = @ \/ files[f] # seen[p].partition.declares[f]]
  /\ UNCHANGED pc /\ Commandless

(* The raw counts are compared last; the report is then ready or blocked, and *)
(* a blocked one is all the command leaves.                                   *)
Decide(p) ==
  /\ pc[p] = "gold" /\ Len(seen[p].bound) = Len(Gold)
  /\ LET blocked == seen[p].blocked \/ RawCount[raw] # seen[p].partition.raw
     IN  IF blocked
         THEN /\ report' = [status |-> "blocked", snapshot |-> Nothing]
              /\ Goto(p, "idle") /\ Forget(p)
         ELSE /\ seen' = [seen EXCEPT ![p].existed = snap # Nothing,
                                      ![p].bound = Append(@, seen[p].partition.declares["task_bank"])]
              /\ Goto(p, "freeze") /\ UNCHANGED report
  /\ UNCHANGED autoVars /\ UNCHANGED <<temp, snap>>

(* --- _freeze ----------------------------------------------------------------------------- *)

Fail(p) ==
  /\ report' = [status |-> "freeze_failed", snapshot |-> Nothing]
  /\ temp' = [temp EXCEPT ![p] = Nothing]
  /\ Goto(p, "idle") /\ Forget(p)
  /\ UNCHANGED snap

Succeed(p, directory) ==
  /\ report' = [snapshot |-> directory,
                status |-> IF seen[p].existed THEN "already_frozen" ELSE "frozen"]
  /\ Goto(p, "idle") /\ Forget(p)

(* A defect: only the source of an existing snapshot is compared. *)
VerifyFrozenSource(p) == snap.source = seen[p].partitionSha

(* _verify_frozen_snapshot: every file is there and has the hash, size and    *)
(* count the snapshot manifest lists, and the manifest names the partition    *)
(* this command has hashed as its source.                                     *)
VerifyFrozen(p) ==
  /\ snap.copies = snap.lists
  /\ snap.source = seen[p].partitionSha

UseExisting(p) ==
  IF VerifyFrozen(p)
  THEN /\ Succeed(p, snap)
       /\ temp' = [temp EXCEPT ![p] = Nothing]
       /\ UNCHANGED snap
  ELSE Fail(p)

BeginFreeze(p) ==
  /\ pc[p] = "freeze"
  /\ IF snap # Nothing
     THEN UseExisting(p)
     ELSE /\ temp' = [temp EXCEPT ![p] = <<>>]
          /\ Goto(p, "copy")
          /\ UNCHANGED <<snap, report, seen>>
  /\ UNCHANGED autoVars

(* Each copy is hashed and must be what evaluate_readiness bound.             *)
CopyFile(p) ==
  /\ pc[p] = "copy" /\ Len(temp[p]) < Len(Copied)
  /\ LET f == Copied[Len(temp[p]) + 1]
     IN  IF files[f] = seen[p].bound[Len(temp[p]) + 1]
         THEN temp' = [temp EXCEPT ![p] = Append(@, files[f])] /\ UNCHANGED <<pc, seen, snap, report>>
         ELSE Fail(p)
  /\ UNCHANGED autoVars

(* The sources, the manifest and the status are compared once more.           *)
RecheckSources(p) ==
  /\ pc[p] = "copy" /\ Len(temp[p]) = Len(Copied)
  /\ IF /\ manifest = seen[p].partitionSha
        /\ status = seen[p].statusSha
        /\ \A i \in DOMAIN Copied : files[Copied[i]] = seen[p].bound[i]
     THEN Goto(p, "publish") /\ UNCHANGED <<temp, snap, report, seen>>
     ELSE Fail(p)
  /\ UNCHANGED autoVars

(* A defect: a published snapshot is written over. *)
PublishOver(p) ==
  /\ pc[p] = "publish"
  /\ LET directory == [source |-> seen[p].partitionSha, lists |-> temp[p],
                        copies |-> temp[p], gates |-> seen[p].partition]
     IN  /\ snap' = directory
         /\ Succeed(p, directory)
         /\ temp' = [temp EXCEPT ![p] = Nothing]
  /\ UNCHANGED autoVars

(* os.replace of the complete temporary directory: renaming over a snapshot   *)
(* another command has just published fails.  The error is a FileExistsError, *)
(* answered by verifying that snapshot, or another OSError (a directory that  *)
(* is not empty), which is a failed freeze.                                   *)
Publish(p) ==
  /\ pc[p] = "publish"
  /\ IF snap = Nothing
     THEN LET directory == [source |-> seen[p].partitionSha, lists |-> temp[p],
                            copies |-> temp[p], gates |-> seen[p].partition]
          IN  /\ snap' = directory
              /\ Succeed(p, directory)
              /\ temp' = [temp EXCEPT ![p] = Nothing]
     ELSE UseExisting(p) \/ Fail(p)
  /\ UNCHANGED autoVars

(* A file of the published directory is changed in place.                     *)
Tamper ==
  /\ snap # Nothing /\ snap.copies = snap.lists
  /\ snap' = [snap EXCEPT !.copies[1] = 0]
  /\ UNCHANGED autoVars /\ UNCHANGED <<pc, seen, temp, report>>

(* A killed command leaves its temporary directory, which no other uses.      *)
KillCommand(p) ==
  /\ pc[p] # "idle"
  /\ Goto(p, "idle") /\ Forget(p)
  /\ temp' = [temp EXCEPT ![p] = Nothing]
  /\ UNCHANGED autoVars /\ UNCHANGED <<snap, report>>

SnapshotNext ==
  \/ Collect \/ BeginPartition \/ WriteFile \/ WriteManifest \/ SaveStatus
  \/ CrashPartition \/ NewEpoch \/ Tamper
  \/ \E p \in Commands :
       \/ Start(p) \/ HashManifest(p) \/ CheckSidecars(p) \/ ReadStatus(p) \/ HashStatus(p)
       \/ ReadGold(p) \/ Decide(p) \/ BeginFreeze(p) \/ CopyFile(p) \/ RecheckSources(p)
       \/ Publish(p) \/ KillCommand(p)

SnapshotSpec == SnapshotInit /\ [][SnapshotNext]_snapshotVars

(* --- properties ------------------------------------------------------------------------------ *)

(* A published snapshot is one partition, whole: the manifest whose gates     *)
(* were evaluated is that of a ready collection, and every file copied is what *)
(* that manifest declares, whatever the automation replaced while the command *)
(* was reading. Which manifest the snapshot names as its source is another    *)
(* matter: it is the one hashed, by the second of two reads.                  *)
SnapshotIsOnePartition ==
  snap # Nothing =>
    \E c \in ReadyOnes :
      /\ snap.gates = ManifestOf(c)
      /\ snap.lists = [i \in DOMAIN Copied |-> Bytes[c][Copied[i]]]

(* Once published, a snapshot is never replaced, merged or removed by the     *)
(* commands that race for its name.                                           *)
SnapshotNeverReplaced ==
  [][snap # Nothing => snap' # Nothing /\ snap'.lists = snap.lists /\ snap'.source = snap.source]_snapshotVars

(* A command that reports success leaves a report that names the snapshot     *)
(* that is there, and has found or left every file of it as its manifest      *)
(* lists it.                                                                  *)
SuccessIsVerified ==
  [][\A p \in Commands :
       Publish(p) \/ BeginFreeze(p) =>
         (report' # report /\ report'.status \in {"frozen", "already_frozen"} =>
            report'.snapshot = snap' /\ snap'.copies = snap'.lists)]_snapshotVars
=============================================================================
