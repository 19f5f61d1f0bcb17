--------------------------- MODULE TrainingGates ---------------------------
(* The gates a training command evaluates before it may touch the GPU        *)
(* (training/preflight.py), as operators over what the code reads: the five  *)
(* expert files, the immutable snapshot manifest with its sidecar, the two   *)
(* model artifacts, the held-out cases, the device and the host memory.      *)
(* A file on disk is a version, whose records Lines gives; the digest of a   *)
(* file is its version, so two digests agree when the contents do.           *)
EXTENDS Naturals, FiniteSets, FiniteSetsExt, Sequences, Functions

CONSTANTS Experts,          \* the required experts, each with one dataset file
          KindOf,           \* per expert: the shape of its output, a member of Kinds
          Lines,            \* per version of a dataset file: the sequence of its records
          Missing,          \* what is at the path of a file that does not exist
          MinimumRecords,   \* minimum_records_per_expert of the snapshot configuration
          Expected          \* scale_gate: what the model artifacts must be, and the memory floors

Kinds == {"plan", "policy", "code", "security"}

ASSUME TrainingGatesAssumption ==
  /\ IsFiniteSet(Experts) /\ MinimumRecords \in Nat \ {0}
  /\ KindOf \in [Experts -> Kinds] /\ Missing \notin DOMAIN Lines
  /\ {"repo", "revision", "sha", "bytes", "footprint", "vram", "host"} \subseteq DOMAIN Expected

------------------------------------------------------------------------------
(* training/schema.py. A turn is [role, text], an output [filled, decision, text]: the     *)
(* fields that are not blank, the decision if it has one, what the target is derived from. *)

Filled == [plan |-> {"summary", "steps"}, policy |-> {"rationale"}, code |-> {"code"},
           security |-> {"rationale"}]
Decisions == [policy |-> {"APPROVE", "BLOCK", "ESCALATE"}, security |-> {"BLOCK", "PASS"}]

OutputValid(kind, out) ==
  /\ Filled[kind] \subseteq out.filled
  /\ kind \in DOMAIN Decisions => out.decision \in Decisions[kind]

\* A target that equals its canonical form carries exactly the label of its decision.
Canonical(kind, out) == IF kind \in DOMAIN Decisions THEN out.decision ELSE out.text

\* validate_record
RecordValid(r) ==
  /\ r.schema = "1.0" /\ r.id # ""
  /\ r.expert \in Experts
  /\ Len(r.turns) >= 2
  /\ \A i \in DOMAIN r.turns : /\ r.turns[i].role \in {"system", "user", "assistant"}
                               /\ r.turns[i].text # ""
  /\ \E i \in DOMAIN r.turns : r.turns[i].role = "user"
  /\ r.turns[Len(r.turns)].role = "assistant"
  /\ r.generator # "" \/ r.teacher # ""
  /\ r.trace # <<>> /\ \A i \in DOMAIN r.trace : r.trace[i] = {"check", "evidence", "action"}
  /\ OutputValid(KindOf[r.expert], r.output)
  /\ r.turns[Len(r.turns)].text = Canonical(KindOf[r.expert], r.output)

\* validate_jsonl for the one expert a dataset belongs to
FileValid(f, e) ==
  /\ Lines[f] # <<>>
  /\ \A i \in DOMAIN Lines[f] : RecordValid(Lines[f][i]) /\ Lines[f][i].expert = e
  /\ IsInjective([i \in DOMAIN Lines[f] |-> Lines[f][i].id])

\* The versions that validate as the dataset of an expert.
Valid == [e \in Experts |-> {f \in DOMAIN Lines : FileValid(f, e)}]

------------------------------------------------------------------------------
(* _dataset_stats and inspect_gate_datasets *)

Ids(f) == {Lines[f][i].id : i \in DOMAIN Lines[f]}
Live(r) == r.teacher \notin {"", "mock", "mock-teacher", "fixture"} /\ ~r.mocked

Complete(data) == \A e \in Experts : data[e] # Missing
SchemasValid(data) == \A e \in Experts : data[e] \in Valid[e]
AllLive(data) ==
  SchemasValid(data) /\ \A e \in Experts : \A i \in DOMAIN Lines[data[e]] : Live(Lines[data[e]][i])

\* Only the identifiers of files that validate are collected.
DuplicateIds(data) ==
  \E e, f \in Experts : e # f /\ data[e] \in Valid[e] /\ data[f] \in Valid[f]
                        /\ Ids(data[e]) \cap Ids(data[f]) # {}

------------------------------------------------------------------------------
(* inspect_dataset_snapshot_manifest *)

CoverageValid(cover, chains) ==
  /\ cover.passed /\ cover.equal
  /\ cover.chains = chains /\ cover.cards = chains /\ cover.ids = chains

\* The proof of the partition gate that the snapshot was frozen with.
SourceGateValid(gate) ==
  /\ gate.lineage /\ gate.sufficient
  /\ gate.chains >= MinimumRecords /\ gate.minimum = MinimumRecords
  /\ gate.edgeErrors = 0 /\ gate.chainErrors = 0
  /\ DOMAIN gate.gold = Experts
  /\ gate.near
  /\ CoverageValid(gate.cover, gate.chains)
  /\ gate.bank.records = gate.chains

\* One file: the manifest's entry, the file on disk and the gold file of the gate agree.
FileBound(man, e, f) ==
  LET entry == man.files[e]
  IN  /\ entry.name = e
      /\ f # Missing /\ entry.sha = f /\ entry.records = Len(Lines[f])
      /\ entry.records >= MinimumRecords
      /\ man.gate.gold[e] = [name |-> entry.name, records |-> entry.records, sha |-> entry.source]
      /\ entry.source = entry.sha

BankBound(man, bank) ==
  /\ bank = [records |-> man.bank.records, sha |-> man.bank.sha]
  /\ man.bank.source = man.bank.sha
  /\ man.gate.bank = [records |-> man.bank.records, sha |-> man.bank.source]
  /\ man.bank.records = man.gate.chains

SnapshotDigest(man) ==
  <<[e \in Experts |-> <<man.files[e].name, man.files[e].sha, man.files[e].records>>],
    <<man.bank.sha, man.bank.records>>>>

SnapshotBound(man, side, bank, data) ==
  /\ man.exists
  /\ side = man
  /\ man.schema
  /\ SourceGateValid(man.gate)
  /\ DOMAIN man.files = Experts
  /\ \A e \in Experts : FileBound(man, e, data[e])
  /\ BankBound(man, bank)
  /\ man.digest = SnapshotDigest(man)

------------------------------------------------------------------------------
(* inspect_base_artifact, inspect_training_artifact, load_heldout_cases *)

\* Without a deep checksum the digest compared is the one the download manifest declares.
BaseMatches(base, deep) ==
  /\ base.present
  /\ base.repo = Expected.repo /\ base.revision = Expected.revision
  /\ base.declared = Expected.sha
  /\ (IF deep THEN base.weight ELSE base.declared) = Expected.sha
  /\ base.bytes = Expected.bytes /\ base.oid

ShardBound(shard, deep) ==
  /\ shard.safe /\ shard.exists /\ shard.size = shard.bytes /\ shard.shape
  /\ deep => shard.sha = shard.declared

\* The tensors of a shard are at most its bytes; the headers may cost one part in a hundred
\* (or sixteen MiB, which Slack stands for).
Slack(total) == IF total \div 100 > 16 THEN total \div 100 ELSE 16

Nf4Matches(nf4, deep) ==
  LET total == MapThenSumSet(LAMBDA s : s.bytes, nf4.shards)
  IN  /\ nf4.present /\ nf4.inside
      /\ nf4.source = Expected.sha /\ nf4.footprint = Expected.footprint
      /\ nf4.quantization = "nf4" /\ nf4.frozen
      /\ nf4.shards # {} /\ \A s \in nf4.shards : ShardBound(s, deep)
      /\ nf4.index = {s.name : s \in nf4.shards}
      /\ 0 < nf4.indexTotal /\ nf4.indexTotal <= total /\ total - nf4.indexTotal <= Slack(total)
      /\ nf4.quantState

\* An identifier counts as seen before the rest of its case is examined.
CaseValid(cases, i) ==
  /\ cases[i].id # "" /\ \A j \in 1..(i - 1) : cases[j].id # cases[i].id
  /\ cases[i].expert \in Experts
  /\ cases[i].prompt
  /\ cases[i].tokens \in 1..64

HeldoutValid(cases) ==
  /\ \A i \in DOMAIN cases : CaseValid(cases, i)
  /\ {cases[i].expert : i \in DOMAIN cases} = Experts

------------------------------------------------------------------------------
(* build_preflight_report and verify_prior_smoke_gate *)

DeviceReady(machine) ==
  /\ machine.cuda /\ machine.bf16 /\ machine.vram >= Expected.vram
  /\ machine.probed /\ machine.host >= Expected.host
  /\ machine.dependencies

PreflightPasses(machine, man, side, bank, data) ==
  /\ Complete(data) /\ SchemasValid(data) /\ AllLive(data) \* so no target is empty
  /\ ~DuplicateIds(data)
  /\ BaseMatches(machine.base, FALSE)
  /\ Nf4Matches(machine.nf4, FALSE)
  /\ DeviceReady(machine)
  /\ HeldoutValid(machine.heldout)
  /\ SnapshotBound(man, side, bank, data)

\* Scaling up needs an executed smoke gate, for this base model and this very snapshot.
PriorSmokePasses(smoke, man) ==
  /\ smoke.executed /\ smoke.passed
  /\ smoke.revision = Expected.revision
  /\ smoke.digest = SnapshotDigest(man)
==============================================================================
