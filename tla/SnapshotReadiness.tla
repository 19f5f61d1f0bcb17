------------------------- MODULE SnapshotReadiness -------------------------
(* The decision evaluate_readiness takes (snapshot.py) over a partition       *)
(* manifest, the files as they are on disk now and the automation status.  It *)
(* trusts no flag of the manifest it can compute again: every operator below  *)
(* is one group of blockers, and a snapshot may be frozen when none applies.  *)
(*                                                                            *)
(* disk: the partition files, the raw files (raw) and the raw file counts;    *)
(* status: [state, partition, heldout_gate].                                  *)
EXTENDS GoldPartition

SafeTerminalStates == {"provider_quota_exhausted", "complete"}

(* The flags, and the sufficiency of the chains computed from the counts.     *)
FlagsPass(m, expected) ==
  /\ m.training_ready /\ m.coverage_complete /\ m.partition_complete /\ m.gold_integrity_ok
  /\ Minimum = expected
  /\ m.lineage.sufficient <=> m.lineage.complete_chain_count >= Minimum
  /\ m.lineage.sufficient
  /\ m.task_card_coverage

(* task_bank.jsonl is the declared one and has a row per complete chain.      *)
TaskBankPasses(m, disk) ==
  /\ disk.task_bank = m.files.task_bank
  /\ Total(disk.task_bank) = m.lineage.complete_chain_count

LineageSummaryPasses(m) ==
  /\ m.lineage.lineage_complete <=> (m.lineage.edge_error_count = 0
                                       /\ m.lineage.chain_error_count = 0)
  /\ m.lineage.lineage_complete

GoldCountsPass(m) ==
  /\ \A t \in Tasks : m.gold_by_task[t] >= Minimum
  /\ Total(m.files.staging) = Total(m.files.gold) + Total(m.files.negative)
                                 + Total(m.files.reject)
  /\ m.coverage_shortfalls = {t \in Tasks : m.gold_by_task[t] < Minimum}

(* A defect: the negatives are not compared. *)
SidecarsPassButNegatives(m, disk) == \A f \in {"staging", "reject"} : disk[f] = m.files[f]

(* quality_staging, negative and reject are counted and hashed.               *)
SidecarsPass(m, disk) ==
  \A f \in {"staging", "negative", "reject"} : disk[f] = m.files[f]

StatusPasses(m, status) ==
  /\ m.heldout_gate = "PASS"
  /\ status.state \in SafeTerminalStates
  /\ status.partition = m
  /\ status.heldout_gate = "PASS"

(* Each gold file is the declared one, holds valid rows without credentials   *)
(* and as many as the manifest says; an id occurs once over the five files.   *)
GoldFilesPass(m, disk) ==
  /\ disk.gold = m.files.gold
  /\ \A r \in disk.gold : r.marks \cap {"schema", "secret_detected"} = {}
  /\ CountByTask(disk.gold) = m.gold_by_task
  /\ Cardinality(Ids(disk.gold)) = Total(disk.gold)

LineageRecomputed(m, disk) == Lineage(disk.gold) = m.lineage

(* Only the number of raw rows is compared, not their content.                *)
RawCountsPass(m, disk) == m.raw_by_task = CountByTask(disk.raw)

Unblocked(m, disk, status, expected) ==
  /\ FlagsPass(m, expected)
  /\ TaskBankPasses(m, disk)
  /\ LineageSummaryPasses(m)
  /\ GoldCountsPass(m)
  /\ SidecarsPass(m, disk)
  /\ StatusPasses(m, status)
  /\ GoldFilesPass(m, disk)
  /\ LineageRecomputed(m, disk)
  /\ RawCountsPass(m, disk)
=============================================================================
