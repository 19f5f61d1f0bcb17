---------------------------- MODULE SeedGeneration ----------------------------
(***************************************************************************)
(* DistillationPipeline.generate_seeds (data/pipeline.py): filling          *)
(* seeds.jsonl up to a target.                                              *)
(*                                                                          *)
(* Every seed owns a global index, which selects its task card.  Concurrent *)
(* workers draw indices from one iterator and ask the teacher for a request *)
(* each; a request that is already known sends its index to another round,  *)
(* a response that fails validation burns its index and is replaced by a    *)
(* new one.  The files are all that survives a run.                         *)
(*                                                                          *)
(* Requests are compared by fingerprint only, and a fingerprint decides the *)
(* record id, so that a request is a model value.                           *)
(***************************************************************************)
EXTENDS Naturals, FiniteSets, FiniteSetsExt

CONSTANTS
  Requests,       \* fingerprints of the requests a teacher may produce
  Workers,        \* concurrency
  Targets,        \* seed counts of the successive stages
  Offset,         \* seed_index_offset
  LegacyRows,     \* rows written before indices existed
  Rounds,         \* duplicate-retry rounds of one run (5 in the code)
  Quarantine,     \* quarantine_invalid_seeds
  NoIndex,
  MaxRejections   \* bound on the number of rejected responses

ASSUME SeedAssumption ==
  /\ IsFiniteSet(Requests) /\ IsFiniteSet(Workers) /\ Workers # {}
  /\ Targets \subseteq Nat /\ IsFiniteSet(Targets) /\ Targets # {}
  /\ Offset \in Nat
  /\ LegacyRows \subseteq Requests
  /\ Rounds \in Nat \ {0}
  /\ Quarantine \in BOOLEAN
  /\ MaxRejections \in Nat
  /\ NoIndex \notin Nat

LegacyCount == Cardinality(LegacyRows)
MaxIndex    == Offset + LegacyCount + Max(Targets) + MaxRejections
Indices     == Offset .. MaxIndex

VARIABLES
  seeds,        \* seeds.jsonl: set of [request, index] (NoIndex: a legacy row)
  rejected,     \* seed_rejections.jsonl: indices
  asked,        \* count of the current run, of the last one between runs
  outcome,      \* "running", or how the last run ended
  used,         \* used_indices
  next,         \* next_index
  pending,      \* remaining_indices of the round
  again,        \* retry_indices
  replacements, \* replacement_count
  round,        \* rounds completed in this run
  at,           \* [Workers -> where the worker is]
  index,        \* [Workers -> the index it works on]
  terminal,     \* terminal_seen
  fatal         \* a worker died of an exception

stored == <<seeds, rejected>>
roundVars == <<used, next, round, asked, outcome>>
seedVars == <<seeds, rejected, asked, outcome, used, next, pending, again,
          replacements, round, at, index, terminal, fatal>>

Places == {"off", "free", "calling", "saving"}

SeedTypeOK ==
  /\ seeds \subseteq [request : Requests, index : Indices \cup {NoIndex}]
  /\ rejected \subseteq Indices
  /\ asked \in Targets
  /\ outcome \in {"running", "returned", "raised"}
  /\ used \subseteq Indices
  /\ next \in Offset .. MaxIndex + 1
  /\ pending \subseteq Indices /\ again \subseteq Indices
  /\ replacements \in Nat
  /\ round \in 0 .. Rounds - 1
  /\ at \in [Workers -> Places]
  /\ index \in [Workers -> Indices \cup {NoIndex}]
  /\ terminal \in BOOLEAN /\ fatal \in BOOLEAN

-------------------------------------------------------------------------------
Fingerprints == {s.request : s \in seeds}
Persisted    == {s.index : s \in seeds} \ {NoIndex}

(* Indices no worker may be given: those of stored seeds and of rejections,  *)
(* and the historical prefix that the legacy rows reserve.                   *)
Prefix == Offset .. Offset + LegacyCount - 1

Taken == Persisted \cup rejected \cup Prefix

(* take_indices: the first free indices from `from` on.                      *)
Take(amount, from, taken) ==
  CHOOSE S \in kSubset(amount, (from .. MaxIndex) \ taken) :
    \A i \in S, j \in (from .. MaxIndex) \ (taken \cup S) : i < j

After(S, from) == IF S = {} THEN from ELSE Max(S) + 1

(* The workers of a round share one iterator; one that finds it empty leaves. *)
OpenRound(S) ==
  /\ pending' = S
  /\ again' = {} /\ replacements' = 0
  /\ terminal' = FALSE /\ fatal' = FALSE
  /\ at' = [w \in Workers |-> "free"]
  /\ index' = [w \in Workers |-> NoIndex]

(* A run asks for what seeds.jsonl lacks of the target.                      *)
Begin ==
  /\ outcome # "running"
  /\ \E count \in Targets :
       /\ count >= asked
       /\ asked' = count
       /\ LET have == Cardinality(seeds)
              S    == Take(IF count > have THEN count - have ELSE 0, Offset, Taken)
          IN /\ used' = Taken \cup S
             /\ next' = After(S, Offset)
             /\ OpenRound(S)
  /\ round' = 0
  /\ outcome' = "running"
  /\ UNCHANGED stored

-------------------------------------------------------------------------------
(* seed_worker.                                                              *)

Call(w) ==
  /\ at[w] = "free" /\ ~terminal
  /\ \E i \in pending :
       /\ pending' = pending \ {i}
       /\ index' = [index EXCEPT ![w] = i]
  /\ at' = [at EXCEPT ![w] = "calling"]
  /\ UNCHANGED <<stored, roundVars, again, replacements, terminal, fatal>>

(* A defect: a worker leaves only with an empty queue. *)
LeaveWhenEmpty(w) ==
  /\ at[w] = "free"
  /\ pending = {}
  /\ at' = [at EXCEPT ![w] = "off"]
  /\ UNCHANGED <<stored, roundVars, pending, again, replacements, index,
                 terminal, fatal>>

Leave(w) ==
  /\ at[w] = "free"
  /\ terminal \/ pending = {}
  /\ at' = [at EXCEPT ![w] = "off"]
  /\ UNCHANGED <<stored, roundVars, pending, again, replacements, index,
                 terminal, fatal>>

Move(w, place) ==
  /\ at' = [at EXCEPT ![w] = place]
  /\ index' = [index EXCEPT ![w] = IF place = "saving" THEN @ ELSE NoIndex]

(* A new request is appended; no other worker runs between looking its       *)
(* fingerprint up and remembering it.                                        *)
AnswerNew(w) ==
  /\ at[w] = "calling"
  /\ \E r \in Requests \ Fingerprints :
       seeds' = seeds \cup {[request |-> r, index |-> index[w]]}
  /\ Move(w, "saving")
  /\ UNCHANGED <<rejected, roundVars, pending, again, replacements, terminal, fatal>>

AnswerDuplicate(w) ==
  /\ at[w] = "calling"
  /\ Fingerprints # {}
  /\ again' = again \cup {index[w]}
  /\ Move(w, "free")
  /\ UNCHANGED <<stored, roundVars, pending, replacements, terminal, fatal>>

(* A response that fails validation, under quarantine_invalid_seeds.         *)
AnswerRejected(w) ==
  /\ Quarantine
  /\ at[w] = "calling"
  /\ Cardinality(rejected) < MaxRejections
  /\ rejected' = rejected \cup {index[w]}
  /\ replacements' = replacements + 1
  /\ Move(w, "saving")
  /\ UNCHANGED <<seeds, roundVars, pending, again, terminal, fatal>>

(* Quota, rate limit, deadline, any other teacher error, or an invalid       *)
(* response without quarantine: no worker draws another index.               *)
AnswerError(w) ==
  /\ at[w] = "calling"
  /\ terminal' = TRUE
  /\ Move(w, "free")
  /\ UNCHANGED <<stored, roundVars, pending, again, replacements, fatal>>

Saved(w) ==
  /\ at[w] = "saving"
  /\ Move(w, "free")
  /\ UNCHANGED <<stored, roundVars, pending, again, replacements, terminal, fatal>>

(* store.append raises and stops the others; an exception of the rejection   *)
(* store or of the checkpoint ends this worker only.                         *)
Dies(w) ==
  /\ at[w] \in {"calling", "saving"}
  /\ fatal' = TRUE
  /\ \/ terminal' = TRUE /\ at[w] = "calling"
     \/ UNCHANGED terminal
  /\ Move(w, "off")
  /\ UNCHANGED <<stored, roundVars, pending, again, replacements>>

-------------------------------------------------------------------------------
RoundOver == outcome = "running" /\ \A w \in Workers : at[w] = "off"

Raise ==
  /\ RoundOver
  /\ terminal \/ fatal
  /\ outcome' = "raised"
  /\ UNCHANGED <<stored, asked, used, next, pending, again, replacements, round,
                 at, index, terminal, fatal>>

(* A defect: a duplicate is replaced by a new index. *)
NextRoundReplacingDuplicates ==
  /\ RoundOver
  /\ ~terminal /\ ~fatal
  /\ round + 1 < Rounds
  /\ again # {} \/ replacements > 0
  /\ LET S == Take(replacements + Cardinality(again), next, used)
     IN /\ used' = used \cup S
        /\ next' = After(S, next)
        /\ OpenRound(again \cup S)
  /\ round' = round + 1
  /\ UNCHANGED <<stored, asked, outcome>>

NextRound ==
  /\ RoundOver
  /\ ~terminal /\ ~fatal
  /\ round + 1 < Rounds
  /\ again # {} \/ replacements > 0
  /\ LET S == Take(replacements, next, used)
     IN /\ used' = used \cup S
        /\ next' = After(S, next)
        /\ OpenRound(again \cup S)
  /\ round' = round + 1
  /\ UNCHANGED <<stored, asked, outcome>>

Return ==
  /\ RoundOver
  /\ ~terminal /\ ~fatal
  /\ round + 1 >= Rounds \/ (again = {} /\ replacements = 0)
  /\ outcome' = IF Cardinality(seeds) < asked THEN "raised" ELSE "returned"
  /\ UNCHANGED <<stored, asked, used, next, pending, again, replacements, round,
                 at, index, terminal, fatal>>

Crash ==
  /\ outcome = "running"
  /\ outcome' = "raised"
  /\ at' = [w \in Workers |-> "off"]
  /\ index' = [w \in Workers |-> NoIndex]
  /\ UNCHANGED <<stored, asked, used, next, pending, again, replacements, round,
                 terminal, fatal>>

SeedInit ==
  /\ seeds = {[request |-> r, index |-> NoIndex] : r \in LegacyRows}
  /\ rejected = {}
  /\ asked = Min(Targets)
  /\ outcome = "raised"
  /\ used = {} /\ next = Offset /\ pending = {} /\ again = {}
  /\ replacements = 0 /\ round = 0
  /\ at = [w \in Workers |-> "off"]
  /\ index = [w \in Workers |-> NoIndex]
  /\ terminal = FALSE /\ fatal = FALSE

EventLoop(w) == Call(w) \/ Leave(w) \/ Saved(w)

Outcome(w) ==
  AnswerNew(w) \/ AnswerDuplicate(w) \/ AnswerRejected(w) \/ AnswerError(w)

Control == Raise \/ NextRound \/ Return

SeedNext ==
  \/ \E w \in Workers : EventLoop(w) \/ Outcome(w) \/ Dies(w)
  \/ Begin \/ Control \/ Crash

SeedSpec == SeedInit /\ [][SeedNext]_seedVars

(* Ready coroutines run, and the teacher answers or fails by its deadline.   *)
Fairness ==
  /\ \A w \in Workers : WF_seedVars(EventLoop(w)) /\ WF_seedVars(Outcome(w))
  /\ WF_seedVars(Control)

FairSpec == SeedSpec /\ Fairness

-------------------------------------------------------------------------------
(* Properties.                                                               *)

(* An index belongs to one seed, for ever: no two seeds share one, a burned  *)
(* index is never reused, and the legacy prefix is respected, over rounds,   *)
(* crashes and resumed runs (pipeline.py:172-190).                           *)
IndexOwnedOnce ==
  /\ Cardinality(Persisted) = Cardinality({s \in seeds : s.index # NoIndex})
  /\ Persisted \cap rejected = {}
  /\ \A i \in Persisted \cup rejected : i >= Offset + LegacyCount

(* No two seeds ask for the same thing, although every worker compares its   *)
(* answer with a file that the others are appending to.                      *)
RequestOnce == Cardinality(Fingerprints) = Cardinality(seeds)

(* Retries and replacements never overshoot the largest target asked for.    *)
NeverMoreThanAsked == Cardinality(seeds) <= Max({asked, LegacyCount})

(* A run that returns leaves no hole: the indices taken since the legacy     *)
(* prefix are consecutive, so that the cards of a resumed run are those of   *)
(* an uninterrupted one (pipeline.py:175-177).                               *)
NoHoleOnReturn ==
  outcome = "returned" =>
    Persisted \cup rejected =
      (Offset + LegacyCount) ..
        (Offset + LegacyCount + Cardinality(Persisted) + Cardinality(rejected) - 1)

(* Every run returns or raises, whatever the teacher answers.                *)
RunEnds == outcome = "running" ~> outcome # "running"

(* Indices and requests are unique and never more than were asked for, over  *)
(* workers, rounds, crashes and resumed runs.                                *)
SeedSafety == SeedTypeOK /\ IndexOwnedOnce /\ RequestOnce /\ NeverMoreThanAsked /\ NoHoleOnReturn
===============================================================================
