------------------------ MODULE AutomationRunProofs ------------------------
(* Every safety property of AutomationRun, for every number of seeds, tasks,  *)
(* contracts, rounds, retries, crashes and epochs. One inductive invariant    *)
(* relates the three copies of the truth: the saved status, the copy the      *)
(* runner works on, and the files (rows, archive) both speak of.              *)
EXTENDS AutomationRun, FiniteSetTheorems, WellFoundedInduction, TLAPS

------------------------------------------------------------------------------
(* Types *)

States == Terminal \cup {"ready", "running", "cooldown", "quality_retry_ready"}
RowSets == [1..Tasks -> [Seeds -> {"none", "good", "weak"}]]
Vectors == (Nat \X Nat \X Nat) \cup {<<>>}
Retries == [state : {"none", "ready", "running", "completed", "restored"}, gen : Nat, rounds : Nat,
            stagnant : Nat, before : Vectors]
Partitions == [made : BOOLEAN, ready : BOOLEAN, target : Nat, rows : RowSets \cup {<<>>},
               deficits : Vectors]
Epochs == [id : Nat, charged : SUBSET Keys, spent : BOOLEAN]
Statuses ==
  [state : States, binding : {"current", "schema1", "binding1"}, contract : 1..Len(Contracts),
   stage : Nat \ {0}, cooldown : BOOLEAN, epoch : Epochs, attempts : [Keys -> Nat],
   quarantined : SUBSET Keys, retry : Retries, incomplete : BOOLEAN, partition : Partitions,
   busy : BOOLEAN]

\* Where the runner is inside a stage, with a target to work for.
Working == {"worker", "report", "terminal", "assess", "prepare"}
Runs ==
  [pc : {"off", "loop", "leaving"} \cup Working, wait : BOOLEAN, mem : Statuses \cup {<<>>},
   task : Nat, errs : SUBSET Keys, signal : {"none", "quota", "rate", "deadline"}, last : Nat,
   stagnant : Nat, dirty : BOOLEAN]

EnvTypes == [crashes : Nat, limits : Nat, offline : Nat, lost : BOOLEAN, undone : BOOLEAN,
             overrides : Nat]
WorldTypes ==
  /\ rows \in RowSets
  /\ archive \in [1..(MaxRounds + 1) -> RowSets \cup {<<>>}]
  /\ config \in [policy : {"collect", "gate"}, contract : 1..Len(Contracts), epoch : Nat]
  /\ clock \in Nat
  /\ env \in EnvTypes

\* What every step but a restore and an expansion makes of the environment.
EnvGoesOn == env' \in EnvTypes /\ env'.overrides >= env.overrides /\ env'.undone = env.undone

Types == status \in Statuses /\ run \in Runs /\ WorldTypes

------------------------------------------------------------------------------
(* The inductive invariant *)

\* What a status says of itself, on disk and in the hands of the runner.
Sound(m) ==
  /\ \A k \in Keys : /\ m.attempts[k] <= MaxRetries + 1 + env.overrides
                     /\ k \in m.quarantined <=> m.attempts[k] > MaxRetries
  /\ m.retry.rounds <= m.retry.gen /\ m.retry.gen <= m.retry.rounds + 1 /\ m.retry.gen <= MaxRounds
  /\ m.partition.ready => Cardinality(Whole(m.partition.rows)) >= Contracts[m.contract].minimum
  /\ m.state = "complete" /\ m.binding = "current" => m.stage > Len(Stages(m))

\* A status past its last stage was opened by a partition of the rows that are there, unless
\* it was restored since.
Earned(m) ==
  config.policy = "collect" /\ ~env.undone /\ m.stage > Len(Stages(m)) =>
    m.partition.ready /\ ~m.incomplete /\ m.partition.rows = rows

\* A stage that may ask for a quarantined job, or has seen one fail, was counted when it began,
\* and its failures have not been.
Headroom(m, errs) ==
  Overrides(m) \/ errs \cap m.quarantined # {} =>
    \A k \in Keys : m.attempts[k] <= MaxRetries + env.overrides

\* The archive may be a round ahead of the saved status, and then a stage is open.
OnDisk ==
  /\ Sound(status)
  /\ status.binding = "current" =>
       /\ Earned(status)
       /\ \A g \in DOMAIN archive : archive[g] # <<>> =>
            /\ g <= status.retry.gen + 1
            /\ g > status.retry.gen => status.stage <= Len(Stages(status))
  /\ status.binding # "current" => \A g \in DOMAIN archive : archive[g] = <<>>
  /\ \A g \in DOMAIN archive : archive[g] # <<>> => g <= MaxRounds

\* The copy of the runner knows every archived round.
Fits(m) ==
  /\ m \in Statuses /\ m.binding = "current" /\ Sound(m) /\ Earned(m)
  /\ \A g \in DOMAIN archive : archive[g] # <<>> => g <= m.retry.gen

InHand ==
  run.pc # "off" =>
    /\ Fits(run.mem)
    /\ run.pc \in Working => run.mem.stage <= Len(Stages(run.mem))
    /\ run.pc \in {"worker", "report"} => Headroom(run.mem, run.errs)
    /\ run.pc = "worker" => run.task \in 1..Tasks

\* Between events the copy is what was saved, but for what a spent budget leaves to the event
\* of the partition that follows.
Saved ==
  /\ ahead \in {0, 1}
  /\ run.dirty => ahead = 1 /\ run.pc # "off"
  /\ run.pc = "leaving" => run.dirty
  /\ run.pc # "off" /\ ~run.dirty /\ run.pc # "terminal" => status = run.mem
  /\ run.pc = "terminal" /\ ~run.dirty =>
       /\ status.binding = "current" /\ status.retry = run.mem.retry
       /\ status.stage = run.mem.stage /\ status.contract = run.mem.contract

QuotaParted ==
  /\ run.pc = "leaving" /\ run.mem.state = "provider_quota_exhausted" /\ config.policy = "collect" =>
       run.mem.partition.made /\ run.mem.partition.rows = rows
  /\ QuotaEndIsPartitioned

IInv == Types /\ OnDisk /\ InHand /\ Saved /\ QuotaParted

------------------------------------------------------------------------------
(* The constants, and what the code computes from the rows *)

LEMMA Constants ==
  /\ Tasks \in Nat \ {0} /\ IsFiniteSet(Seeds) /\ MaxRounds \in Nat /\ MaxRetries \in Nat
  /\ Cooldown \in Nat /\ MaxStagnant \in Nat
  /\ Policies \subseteq {"collect", "gate"} /\ Bindings \subseteq {"current", "schema1", "binding1"}
  /\ Len(Contracts) \in Nat \ {0} /\ DOMAIN Contracts = 1..Len(Contracts)
  BY AutomationAssumption

LEMMA ContractFacts ==
  ASSUME NEW i \in 1..Len(Contracts)
  PROVE  /\ Contracts[i].minimum \in Nat
         /\ Contracts[i].targets \in Seq(Nat \ {0}) /\ Len(Contracts[i].targets) \in Nat \ {0}
<1> DEFINE C == [targets : Seq(Nat \ {0}), minimum : Nat]
<1>1. Contracts \in Seq(C) /\ i \in DOMAIN Contracts
  BY AutomationAssumption
<1>2. Contracts[i] \in C
  <2> HIDE DEF C
  <2> QED
    BY <1>1
<1>3. Contracts[i].targets # <<>>
  BY <1>1, AutomationAssumption DEF ConfigValid
<1> QED
  BY <1>2, <1>3

LEMMA StageFacts ==
  ASSUME NEW m \in Statuses
  PROVE  /\ Len(Stages(m)) \in Nat \ {0} /\ Contracts[m.contract].minimum \in Nat
         /\ LastTarget(m) \in Nat
         /\ m.stage <= Len(Stages(m)) => Target(m) \in Nat
<1>1. m.contract \in 1..Len(Contracts) /\ m.stage \in Nat \ {0}
  BY DEF Statuses
<1>2. /\ Contracts[m.contract].minimum \in Nat
      /\ Stages(m) \in Seq(Nat \ {0}) /\ Len(Stages(m)) \in Nat \ {0}
  BY <1>1, ContractFacts DEF Stages
<1>3. ASSUME m.stage <= Len(Stages(m)) PROVE Target(m) \in Nat
  <2>1. m.stage \in 1..Len(Stages(m))
    BY <1>1, <1>2, <1>3
  <2> HIDE DEF Stages
  <2> QED
    BY <1>2, <2>1 DEF Target
<1>4. LastTarget(m) \in Nat
  <2>1. Len(Stages(m)) \in 1..Len(Stages(m))
    BY <1>2
  <2> HIDE DEF Stages
  <2> QED
    BY <1>2, <2>1 DEF LastTarget
<1> QED
  BY <1>2, <1>3, <1>4

LEMMA KeysFinite == IsFiniteSet(Keys)
<1>1. 1 \in Int /\ Tasks \in Int
  BY Constants
<1>2. IsFiniteSet(1..Tasks)
  BY <1>1, FS_Interval
<1> QED
  BY <1>2, Constants, FS_Product DEF Keys

LEMMA PartitionFacts ==
  ASSUME NEW m \in Statuses, NEW r \in RowSets, NEW n \in Nat
  PROVE  /\ PartitionOf(r, m, n) \in Partitions
         /\ PartitionOf(r, m, n).made /\ PartitionOf(r, m, n).rows = r
         /\ PartitionOf(r, m, n).ready <=> Cardinality(Whole(r)) >= Contracts[m.contract].minimum
<1>1. /\ Rows(r) \subseteq Keys /\ {k \in Keys : r[k[2]][k[1]] = "weak"} \subseteq Keys
      /\ Whole(r) \subseteq Seeds
  BY DEF Rows, Whole
<1>2. /\ Cardinality(Rows(r)) \in Nat /\ Cardinality(Whole(r)) \in Nat
      /\ Cardinality({k \in Keys : r[k[2]][k[1]] = "weak"}) \in Nat
  BY <1>1, KeysFinite, Constants, FS_Subset, FS_CardinalityType
<1>3. n * Tasks \in Nat /\ Contracts[m.contract].minimum \in Nat
  BY StageFacts, Constants
<1>4. Deficits(r, m, n) \in Vectors
  <2> DEFINE short(want, have) == IF want > have THEN want - have ELSE 0
  <2>1. \A want, have \in Nat : short(want, have) \in Nat
    OBVIOUS
  <2>2. /\ short(n * Tasks, Cardinality(Rows(r))) \in Nat
        /\ short(Contracts[m.contract].minimum, Cardinality(Whole(r))) \in Nat
    <3> HIDE DEF short
    <3> QED
      BY <1>2, <1>3, <2>1
  <2> QED
    BY <1>2, <2>2 DEF Deficits, Vectors
<1> HIDE DEF Deficits
<1>5. (Cardinality(Whole(r)) >= Contracts[m.contract].minimum) \in BOOLEAN
  BY <1>2, <1>3
<1> QED
  BY <1>4, <1>5 DEF PartitionOf, Partitions

\* A set of numbers up to n has the greatest one that Max names.
LEMMA GreatestIsMax ==
  ASSUME NEW n \in Nat, NEW S \in SUBSET (0 .. n), S # {}
  PROVE  Max(S) \in S /\ \A y \in S : y <= Max(S)
<1> DEFINE R == OpToRel(<, Nat)
           T == {n - x : x \in S}
<1>1. IsWellFoundedOn(R, Nat)
  BY NatLessThanWellFounded
<1>2. \A x \in S : x \in Nat /\ x <= n /\ n - x \in Nat
  OBVIOUS
<1>3. T \subseteq Nat /\ T # {}
  BY <1>2
<1>4. \A x, y \in Nat : y < x => <<y, x>> \in R
  BY DEF OpToRel
<1> HIDE DEF R
<1>5. \E a \in T : \A b \in T : <<b, a>> \notin R
  <2> HIDE DEF T
  <2> QED
    BY <1>1, <1>3, WFMin
<1>6. PICK x \in S : \A y \in S : <<n - y, n - x>> \notin R
  BY <1>5
<1>7. \A y \in S : x >= y
  <2> SUFFICES ASSUME NEW y \in S, ~(x >= y) PROVE FALSE
    OBVIOUS
  <2>1. n - y < n - x
    BY <1>2
  <2> QED
    BY <1>2, <1>4, <1>6, <2>1
<1>8. \A y \in S : Max(S) >= y /\ Max(S) \in S
  BY <1>7 DEF Max
<1> QED
  BY <1>7, <1>8

LEMMA LatestFacts ==
  ASSUME WorldTypes
  PROVE  /\ LatestArchive \in 0..(MaxRounds + 1)
         /\ \A g \in DOMAIN archive : archive[g] # <<>> => g <= LatestArchive
         /\ LatestArchive > 0 => LatestArchive \in DOMAIN archive /\ archive[LatestArchive] # <<>>
<1> DEFINE S == {n \in DOMAIN archive : archive[n] # <<>>}
<1>1. DOMAIN archive = 1..(MaxRounds + 1) /\ MaxRounds + 1 \in Nat
  BY Constants DEF WorldTypes
<1>2. CASE S = {}
  BY <1>1, <1>2 DEF LatestArchive
<1>3. CASE S # {}
  <2>1. LatestArchive = Max(S)
    BY <1>3 DEF LatestArchive
  <2>2. S \in SUBSET (0 .. MaxRounds + 1)
    BY <1>1
  <2>3. Max(S) \in S /\ \A y \in S : y <= Max(S)
    <3> HIDE DEF S
    <3> QED
      BY <1>1, <1>3, <2>2, GreatestIsMax
  <2> QED
    BY <1>1, <2>1, <2>2, <2>3
<1> QED
  BY <1>2, <1>3

------------------------------------------------------------------------------
(* What an event keeps *)

LEMMA ProjectionType ==
  ASSUME NEW r \in RowSets, NEW p
  PROVE  Projection(r, p) \in RowSets
  BY DEF Projection, RowSets

\* A failure is counted for an identity that is not quarantined yet, or in a stage that was
\* counted for asking for one that is.
LEMMA FailuresFacts ==
  ASSUME NEW m \in Statuses, NEW errs \in SUBSET Keys, Sound(m), Headroom(m, errs), env \in EnvTypes
  PROVE  LET n == RecordFailures(m, errs)
         IN  /\ n \in Statuses
             /\ \A k \in Keys : /\ n.attempts[k] <= MaxRetries + 1 + env.overrides
                                /\ k \in n.quarantined <=> n.attempts[k] > MaxRetries
             /\ n.binding = m.binding /\ n.contract = m.contract /\ n.stage = m.stage
             /\ n.retry = m.retry /\ n.partition = m.partition /\ n.incomplete = m.incomplete
             /\ n.state = m.state
<1> DEFINE seen == [k \in Keys |-> IF k \in errs THEN m.attempts[k] + 1 ELSE m.attempts[k]]
           over == {k \in errs : seen[k] > MaxRetries}
           n == RecordFailures(m, errs)
<1>1. m.attempts \in [Keys -> Nat] /\ m.quarantined \in SUBSET Keys /\ m.epoch \in Epochs
  BY DEF Statuses
<1>2. seen \in [Keys -> Nat]
  BY <1>1
<1>3. \A k \in Keys : seen[k] = IF k \in errs THEN m.attempts[k] + 1 ELSE m.attempts[k]
  OBVIOUS
<1>4. \A k \in Keys : /\ m.attempts[k] \in Nat /\ m.attempts[k] <= MaxRetries + 1 + env.overrides
                      /\ k \in m.quarantined <=> m.attempts[k] > MaxRetries
  BY <1>1 DEF Sound
<1> DEFINE e == [m.epoch EXCEPT !.charged = @ \cup errs]
           q == m.quarantined \cup over
<1>5. e \in Epochs
  BY <1>1 DEF Epochs
<1>6. q \in SUBSET Keys
  BY <1>1
<1>7. n = [m EXCEPT !.attempts = seen, !.epoch = e, !.quarantined = q]
  BY <1>1 DEF RecordFailures, Statuses, Epochs
<1>8. \A k \in Keys : /\ seen[k] <= MaxRetries + 1 + env.overrides
                      /\ k \in q <=> seen[k] > MaxRetries
  <2> SUFFICES ASSUME NEW k \in Keys
               PROVE  seen[k] <= MaxRetries + 1 + env.overrides /\ (k \in q <=> seen[k] > MaxRetries)
    OBVIOUS
  <2>1. k \in over <=> k \in errs /\ seen[k] > MaxRetries
    OBVIOUS
  <2>2. k \in errs /\ k \in m.quarantined => m.attempts[k] <= MaxRetries + env.overrides
    BY DEF Headroom
  <2>3. env.overrides \in Nat /\ MaxRetries \in Nat
    BY Constants DEF EnvTypes
  <2>4. CASE k \in errs
    <3>1. seen[k] = m.attempts[k] + 1 /\ (k \in q <=> k \in m.quarantined \/ seen[k] > MaxRetries)
      BY <1>3, <2>1, <2>4
    <3> HIDE DEF seen, over, q
    <3> QED
      BY <1>4, <2>2, <2>3, <2>4, <3>1
  <2>5. CASE k \notin errs
    <3>1. seen[k] = m.attempts[k] /\ (k \in q <=> k \in m.quarantined)
      BY <1>3, <2>1, <2>5
    <3> HIDE DEF seen, over, q
    <3> QED
      BY <1>4, <2>3, <3>1
  <2> QED
    BY <2>4, <2>5
<1> HIDE DEF seen, e, q, n
<1>9. /\ n \in Statuses /\ n.attempts = seen /\ n.quarantined = q
  BY <1>2, <1>5, <1>6, <1>7 DEF Statuses
<1>10. /\ n.binding = m.binding /\ n.contract = m.contract /\ n.stage = m.stage
       /\ n.retry = m.retry /\ n.partition = m.partition /\ n.incomplete = m.incomplete
       /\ n.state = m.state
  BY <1>7 DEF Statuses
<1> QED
  BY <1>8, <1>9, <1>10 DEF n

\* A status that differs in other fields only is as sound as the one it was made of.
LEMMA Restated ==
  ASSUME NEW m, NEW n \in Statuses, Fits(m),
         \A k \in Keys : /\ n.attempts[k] <= MaxRetries + 1 + env.overrides
                         /\ k \in n.quarantined <=> n.attempts[k] > MaxRetries,
         n.binding = m.binding, n.contract = m.contract, n.stage = m.stage,
         n.retry.gen = m.retry.gen, n.retry.rounds = m.retry.rounds,
         n.partition = m.partition, n.incomplete = m.incomplete,
         n.state = "complete" => n.stage > Len(Stages(n))
  PROVE  Fits(n)
<1>1. Stages(n) = Stages(m)
  BY DEF Stages
<1> HIDE DEF Stages
<1>2. Sound(n)
  BY DEF Fits, Sound
<1>3. Earned(n)
  BY <1>1 DEF Fits, Earned
<1> QED
  BY <1>2, <1>3 DEF Fits, Sound

\* While nothing is saved, the status stays what it was.
LEMMA SoundGoesOn ==
  ASSUME NEW m \in Statuses, Sound(m), env \in EnvTypes, EnvGoesOn
  PROVE  Sound(m)'
<1>1. \A k \in Keys : m.attempts[k] \in Nat
  BY DEF Statuses
<1>2. env.overrides \in Nat /\ env'.overrides \in Nat /\ env'.overrides >= env.overrides
  BY DEF EnvGoesOn, EnvTypes
<1>3. \A k \in Keys : /\ m.attempts[k] <= MaxRetries + 1 + env'.overrides
                      /\ k \in m.quarantined <=> m.attempts[k] > MaxRetries
  BY <1>1, <1>2, Constants DEF Sound
<1> QED
  BY <1>3 DEF Sound, Whole, Stages

LEMMA OnDiskKept ==
  ASSUME OnDisk, Types, UNCHANGED <<status, rows, archive>>, config'.policy = config.policy,
         EnvGoesOn
  PROVE  OnDisk'
<1>1. PICK m \in Statuses : m = status
  BY DEF Types
<1>2. Sound(m)'
  BY <1>1, SoundGoesOn DEF Types, WorldTypes, OnDisk
<1>3. Sound(status)'
  BY <1>1, <1>2 DEF Sound, Whole, Stages
<1>4. status.binding = "current" => Earned(status)'
  BY DEF OnDisk, Earned, Stages, EnvGoesOn
<1>5. Stages(status)' = Stages(status)
  BY DEF Stages
<1> HIDE DEF Sound, Earned, Stages
<1> QED
  BY <1>3, <1>4, <1>5 DEF OnDisk

LEMMA FitsGoesOn ==
  ASSUME NEW m, Fits(m), env \in EnvTypes, EnvGoesOn, UNCHANGED <<rows, archive>>,
         config'.policy = config.policy
  PROVE  Fits(m)'
<1>1. Sound(m)'
  BY SoundGoesOn DEF Fits
<1>2. Earned(m)'
  BY DEF Fits, Earned, Stages, EnvGoesOn
<1> QED
  BY <1>1, <1>2 DEF Fits

\* An event puts a new copy and a new place of the runner into the process, and saves nothing.
LEMMA EventKeeps ==
  ASSUME IInv, NEW m, NEW r \in Runs, Event(m, r), WorldTypes', OnDisk', Fits(m)',
         config'.policy = config.policy, r.pc # "off",
         r.pc \in Working => m.stage <= Len(Stages(m)),
         r.pc \in {"worker", "report"} => Headroom(m, r.errs)',
         r.pc = "worker" => r.task \in 1..Tasks,
         r.pc = "leaving" /\ m.state = "provider_quota_exhausted" /\ config.policy = "collect" =>
           m.partition.made /\ m.partition.rows = rows'
  PROVE  IInv'
<1>1. /\ run' = [r EXCEPT !.mem = m, !.dirty = TRUE] /\ status' = status
      /\ ahead' = IF ahead > 0 THEN ahead ELSE ahead + 1
  BY DEF Event
<1>2. m \in Statuses
  BY DEF Fits
<1>3. /\ run' \in Runs /\ run'.mem = m /\ run'.dirty /\ run'.pc = r.pc /\ run'.errs = r.errs
      /\ run'.task = r.task
  BY <1>1, <1>2 DEF Runs
<1>4. ahead' = 1
  BY <1>1 DEF IInv, Saved
<1>5. Types'
  BY <1>1, <1>3 DEF IInv, Types
<1>6. InHand'
  <2>1. Fits(run.mem)'
    BY <1>3 DEF Fits, Earned
  <2>2. /\ run'.pc \in Working => run'.mem.stage <= Len(Stages(run'.mem))
        /\ run'.pc = "worker" => run'.task \in 1..Tasks
    BY <1>3
  <2>3. run'.pc \in {"worker", "report"} => Headroom(run.mem, run.errs)'
    BY <1>3 DEF Headroom, Overrides, Planned
  <2> QED
    BY <2>1, <2>2, <2>3 DEF InHand
<1>7. Saved'
  BY <1>3, <1>4 DEF Saved
<1>8. QuotaParted'
  BY <1>3 DEF QuotaParted, QuotaEndIsPartitioned
<1> QED
  BY <1>5, <1>6, <1>7, <1>8 DEF IInv

\* The same, when neither the rows nor the archive change.
LEMMA PlainEventKeeps ==
  ASSUME IInv, NEW m, NEW r \in Runs, Event(m, r), Fits(m), UNCHANGED <<rows, archive, config>>,
         clock' \in Nat, EnvGoesOn, r.pc # "off",
         r.pc \in Working => m.stage <= Len(Stages(m)),
         r.pc \in {"worker", "report"} => Headroom(m, r.errs)',
         r.pc = "worker" => r.task \in 1..Tasks,
         r.pc = "leaving" /\ m.state = "provider_quota_exhausted" /\ config.policy = "collect" =>
           m.partition.made /\ m.partition.rows = rows
  PROVE  IInv'
<1>1. WorldTypes'
  BY DEF IInv, Types, WorldTypes, EnvGoesOn
<1>2. status' = status /\ OnDisk'
  BY OnDiskKept DEF IInv, Event
<1>3. Fits(m)'
  BY FitsGoesOn DEF IInv, Types, WorldTypes
<1> QED
  BY <1>1, <1>2, <1>3, EventKeeps

------------------------------------------------------------------------------
(* The loop *)

LEMMA InHandFacts ==
  ASSUME IInv, run.pc # "off"
  PROVE  /\ Fits(run.mem) /\ run.mem \in Statuses /\ run \in Runs /\ status \in Statuses
         /\ rows \in RowSets /\ clock \in Nat /\ env \in EnvTypes
         /\ env' = env => EnvGoesOn
  BY DEF IInv, InHand, Fits, Types, WorldTypes, EnvTypes, EnvGoesOn

\* A copy with another state fits as before; it may say complete past its last stage only.
LEMMA NewState ==
  ASSUME NEW b, Fits(b), NEW s \in States, NEW x \in BOOLEAN, NEW y \in BOOLEAN,
         s = "complete" => b.stage > Len(Stages(b)),
         NEW n, n = [b EXCEPT !.state = s, !.busy = x, !.cooldown = y]
  PROVE  /\ Fits(n) /\ n.state = s /\ n.stage = b.stage /\ n.quarantined = b.quarantined
         /\ Stages(n) = Stages(b) /\ n.partition = b.partition /\ n.retry = b.retry
         /\ n.contract = b.contract
<1>1. b \in Statuses
  BY DEF Fits
<1>2. /\ n \in Statuses /\ n.state = s /\ n.stage = b.stage /\ n.quarantined = b.quarantined
      /\ n.attempts = b.attempts /\ n.binding = b.binding /\ n.contract = b.contract
      /\ n.retry = b.retry /\ n.partition = b.partition /\ n.incomplete = b.incomplete
  BY <1>1 DEF Statuses
<1>3. Stages(n) = Stages(b)
  BY <1>2 DEF Stages
<1>4. \A k \in Keys : /\ n.attempts[k] <= MaxRetries + 1 + env.overrides
                      /\ k \in n.quarantined <=> n.attempts[k] > MaxRetries
  BY <1>2 DEF Fits, Sound
<1>5. n.state = "complete" => n.stage > Len(Stages(n))
  BY <1>2, <1>3
<1>6. Fits(n)
  <2> HIDE DEF Stages, Fits, Keys
  <2> QED
    BY <1>2, <1>3, <1>4, <1>5, Restated, ZenonT(30)
<1> QED
  BY <1>2, <1>3, <1>6

LEMMA OnlyState ==
  ASSUME NEW b, Fits(b), NEW s \in States, s = "complete" => b.stage > Len(Stages(b)),
         NEW n, n = [b EXCEPT !.state = s]
  PROVE  /\ Fits(n) /\ n.state = s /\ n.stage = b.stage /\ n.quarantined = b.quarantined
         /\ Stages(n) = Stages(b) /\ n.partition = b.partition /\ n.retry = b.retry
         /\ n.contract = b.contract
<1>1. b \in Statuses
  BY DEF Fits
<1>2. /\ n \in Statuses /\ n.state = s /\ n.stage = b.stage /\ n.quarantined = b.quarantined
      /\ n.attempts = b.attempts /\ n.binding = b.binding /\ n.contract = b.contract
      /\ n.retry = b.retry /\ n.partition = b.partition /\ n.incomplete = b.incomplete
  BY <1>1 DEF Statuses
<1>3. Stages(n) = Stages(b)
  BY <1>2 DEF Stages
<1>4. \A k \in Keys : /\ n.attempts[k] <= MaxRetries + 1 + env.overrides
                      /\ k \in n.quarantined <=> n.attempts[k] > MaxRetries
  BY <1>2 DEF Fits, Sound
<1>5. Fits(n)
  <2> HIDE DEF Stages
  <2> QED
    BY <1>2, <1>3, <1>4, Restated
<1> QED
  BY <1>2, <1>3, <1>5

LEMMA LeaveKeeps ==
  ASSUME IInv, run.pc # "off", NEW m, Leave(m), Fits(m), UNCHANGED <<rows, archive, config>>,
         clock' \in Nat, EnvGoesOn,
         m.state = "provider_quota_exhausted" /\ config.policy = "collect" =>
           m.partition.made /\ m.partition.rows = rows
  PROVE  IInv'
<1>1. PICK r : r = [run EXCEPT !.pc = "leaving"]
  OBVIOUS
<1>2. r \in Runs /\ r.pc = "leaving" /\ "leaving" \notin Working
  BY <1>1, InHandFacts DEF Runs, Working
<1>3. Event(m, r)
  BY <1>1 DEF Leave
<1> QED
  BY <1>2, <1>3, PlainEventKeeps

\* A run that goes back to its loop.
LEMMA LoopKeeps ==
  ASSUME IInv, NEW m, NEW r \in Runs, r.pc = "loop", Event(m, r), Fits(m),
         UNCHANGED <<rows, archive, config>>, clock' \in Nat,
         EnvGoesOn
  PROVE  IInv'
<1>1. "loop" \notin Working
  BY DEF Working
<1> QED
  BY <1>1, PlainEventKeeps

LEMMA LoopActionsKeep ==
  ASSUME IInv, CooldownEnds \/ StopOnBudget \/ Complete
  PROVE  IInv'
<1>1. /\ run.pc = "loop" /\ UNCHANGED <<rows, archive, config, clock, env>>
      /\ Fits(run.mem) /\ run.mem \in Statuses /\ run \in Runs
  BY InHandFacts DEF CooldownEnds, StopOnBudget, Complete, At, world
<1>2. clock' \in Nat /\ EnvGoesOn
  BY <1>1, InHandFacts
<1>3. CASE CooldownEnds
  <2>1. PICK m : m = [run.mem EXCEPT !.cooldown = FALSE, !.state = "running"]
    OBVIOUS
  <2>2. PICK r : r = run
    OBVIOUS
  <2>3. PICK b : b = run.mem
    OBVIOUS
  <2>4. m = [b EXCEPT !.state = "running", !.busy = b.busy, !.cooldown = FALSE]
        /\ b.busy \in BOOLEAN /\ "running" \in States
    BY <1>1, <2>1, <2>3 DEF Statuses, States
  <2>5. Fits(m)
    BY <1>1, <2>3, <2>4, NewState
  <2>6. Event(m, r)
    BY <1>3, <2>1, <2>2 DEF CooldownEnds
  <2> QED
    BY <1>1, <1>2, <2>2, <2>5, <2>6, LoopKeeps
<1>4. CASE StopOnBudget
  <2>1. PICK m : m = [run.mem EXCEPT !.state = "budget_exhausted"]
    OBVIOUS
  <2>2. PICK b : b = run.mem
    OBVIOUS
  <2>3. Fits(m) /\ m.state = "budget_exhausted"
    BY <1>1, <2>1, <2>2, OnlyState DEF States, Terminal
  <2>4. Leave(m)
    BY <1>4, <2>1 DEF StopOnBudget
  <2> QED
    BY <1>1, <1>2, <2>3, <2>4, LeaveKeeps
<1>5. CASE Complete
  <2>1. PICK m : m = [run.mem EXCEPT !.state = "complete"]
    OBVIOUS
  <2>2. PICK b : b = run.mem
    OBVIOUS
  <2>3. b.stage > Len(Stages(b))
    <3>1. ~(b.stage <= Len(Stages(b)))
      BY <1>5, <2>2 DEF Complete, MoreStages
    <3>2. b \in Statuses
      BY <1>1, <2>2
    <3>3. b.stage \in Nat /\ Len(Stages(b)) \in Nat
      BY <3>2, StageFacts DEF Statuses
    <3> QED
      BY <3>1, <3>3
  <2>4. Fits(m) /\ m.state = "complete"
    BY <1>1, <2>1, <2>2, <2>3, OnlyState DEF States, Terminal
  <2>5. Leave(m)
    BY <1>5, <2>1 DEF Complete
  <2> QED
    BY <1>1, <1>2, <2>4, <2>5, LeaveKeeps
<1> QED
  BY <1>3, <1>4, <1>5

LEMMA StartStageKeeps ==
  ASSUME IInv, StartStage
  PROVE  IInv'
<1>1. /\ run.pc = "loop" /\ UNCHANGED <<rows, archive, plans, config, clock>>
      /\ Fits(run.mem) /\ run.mem \in Statuses /\ run \in Runs /\ run.mem.stage <= Len(Stages(run.mem))
  BY InHandFacts DEF StartStage, At, world, MoreStages
<1>2. /\ clock' \in Nat /\ EnvGoesOn /\ env.overrides \in Nat
      /\ Overrides(run.mem) => env'.overrides = env.overrides + 1
  <2>1. env \in EnvTypes /\ clock \in Nat
    BY <1>1, InHandFacts
  <2>2. env' = [env EXCEPT !.overrides = IF Overrides(run.mem) THEN @ + 1 ELSE @]
    BY DEF StartStage
  <2>3. PICK n : n = IF Overrides(run.mem) THEN env.overrides + 1 ELSE env.overrides
    OBVIOUS
  <2>4. env' = [env EXCEPT !.overrides = n]
    BY <2>1, <2>2, <2>3 DEF EnvTypes
  <2>5. n \in Nat /\ env.overrides \in Nat /\ n >= env.overrides
    BY <2>1, <2>3 DEF EnvTypes
  <2>6. env' \in EnvTypes /\ env'.overrides = n /\ env'.undone = env.undone
    BY <2>1, <2>4, <2>5 DEF EnvTypes
  <2> QED
    BY <1>1, <2>1, <2>3, <2>5, <2>6 DEF EnvGoesOn
<1>3. PICK b : b = run.mem
  OBVIOUS
<1>4. PICK t : t = [b.retry EXCEPT !.state = IF @ = "ready" THEN "running" ELSE @]
  OBVIOUS
<1>5. PICK m : m = [b EXCEPT !.state = "running", !.busy = TRUE, !.retry = t]
  OBVIOUS
<1>6. PICK r : r = [run EXCEPT !.pc = "worker", !.task = 1, !.errs = {}, !.signal = "none"]
  OBVIOUS
<1>7. b \in Statuses /\ b.retry \in Retries
  BY <1>1, <1>3 DEF Statuses
<1>8. Event(m, r)
  <2>1. m = [run.mem EXCEPT !.state = "running", !.busy = TRUE,
                            !.retry.state = IF @ = "ready" THEN "running" ELSE @]
    BY <1>3, <1>4, <1>5, <1>7 DEF Statuses
  <2> QED
    BY <1>6, <2>1 DEF StartStage
<1>9. /\ t \in Retries /\ t.gen = b.retry.gen /\ t.rounds = b.retry.rounds
      /\ t.state \in {"ready", "running"} <=> b.retry.state \in {"ready", "running"}
  BY <1>4, <1>7 DEF Retries
<1>10. /\ m \in Statuses /\ m.state = "running" /\ m.stage = b.stage /\ m.quarantined = b.quarantined
       /\ m.attempts = b.attempts /\ m.binding = b.binding /\ m.contract = b.contract
       /\ m.retry = t /\ m.partition = b.partition /\ m.incomplete = b.incomplete
  BY <1>5, <1>7, <1>9 DEF Statuses, States
<1>11. \A k \in Keys : /\ m.attempts[k] <= MaxRetries + 1 + env.overrides
                       /\ k \in m.quarantined <=> m.attempts[k] > MaxRetries
  BY <1>1, <1>3, <1>10 DEF Fits, Sound
<1>12. Fits(m)
  BY <1>1, <1>3, <1>9, <1>10, <1>11, Restated
<1>13. m.stage <= Len(Stages(m))
  BY <1>1, <1>3, <1>10 DEF Stages
<1>14. r \in Runs /\ r.pc = "worker" /\ r.task = 1 /\ r.errs = {}
  BY <1>1, <1>6 DEF Runs, Working
<1>15. 1 \in 1..Tasks
  BY Constants
<1>16. Headroom(m, r.errs)'
  <2>1. Overrides(m)' <=> Overrides(run.mem)
    BY <1>1, <1>3, <1>9, <1>10 DEF Overrides, Planned
  <2>2. Overrides(m)' => \A k \in Keys : m.attempts[k] <= MaxRetries + env'.overrides
    <3> SUFFICES ASSUME Overrides(m)', NEW k \in Keys
                 PROVE  m.attempts[k] <= MaxRetries + env'.overrides
      OBVIOUS
    <3>1. m.attempts[k] \in Nat /\ m.attempts[k] <= MaxRetries + 1 + env.overrides
      BY <1>10, <1>11 DEF Statuses
    <3> QED
      BY <1>2, <2>1, <3>1, Constants
  <2>3. r.errs \cap m.quarantined = {}
    BY <1>14
  <2> QED
    BY <2>2, <2>3 DEF Headroom
<1> QED
  BY <1>1, <1>2, <1>8, <1>12, <1>13, <1>14, <1>15, <1>16, PlainEventKeeps

------------------------------------------------------------------------------
(* Inside a stage *)

\* A worker fills rows of the open target only, so that no status loses its partition by it,
\* and its failures are of identities that are not quarantined.
LEMMA WorkerKeeps ==
  ASSUME IInv, Worker
  PROVE  IInv'
<1>1. PICK done \in SUBSET Jobs(run.mem, run.task), weak \in SUBSET Jobs(run.mem, run.task),
           failed \in SUBSET Jobs(run.mem, run.task),
           signal \in {"none", "quota", "rate", "deadline", "spent"} :
        /\ weak \subseteq done /\ failed \cap done = {}
        /\ signal \in {"none", "spent"} => done \cup failed = Jobs(run.mem, run.task)
        /\ signal # "none" => env.limits < MaxLimits
        /\ rows' = [rows EXCEPT ![run.task] = [s \in Seeds |->
                      IF s \in weak THEN "weak" ELSE IF s \in done THEN "good" ELSE @[s]]]
        /\ env' = [env EXCEPT !.limits = IF signal = "none" THEN @ ELSE @ + 1]
        /\ Event([run.mem EXCEPT !.epoch.spent = @ \/ signal = "spent"],
                 [run EXCEPT !.errs = @ \cup {<<s, run.task>> : s \in failed},
                             !.signal = IF signal = "spent" THEN @ ELSE signal,
                             !.pc = IF run.task = Tasks \/ signal \in {"quota", "rate", "deadline"}
                                    THEN "report" ELSE "worker",
                             !.task = IF @ = Tasks THEN @ ELSE @ + 1])
  BY DEF Worker
<1>2. /\ run.pc = "worker" /\ ~run.dirty /\ UNCHANGED <<archive, plans, config, clock>>
      /\ Fits(run.mem) /\ run.mem \in Statuses /\ run \in Runs
      /\ run.task \in 1..Tasks /\ Headroom(run.mem, run.errs)
      /\ run.mem.stage <= Len(Stages(run.mem)) /\ status = run.mem
  BY InHandFacts DEF Worker, At, IInv, InHand, Saved, Working
<1>3. PICK b : b = run.mem
  OBVIOUS
<1>4. PICK e : e = [b.epoch EXCEPT !.spent = @ \/ signal = "spent"]
  OBVIOUS
<1>5. PICK m : m = [b EXCEPT !.epoch = e]
  OBVIOUS
<1>6. b \in Statuses /\ b.epoch \in Epochs /\ Fits(b) /\ b.stage <= Len(Stages(b)) /\ status = b
  BY <1>2, <1>3 DEF Statuses
<1>7. e \in Epochs
  BY <1>4, <1>6 DEF Epochs
<1>8. /\ m \in Statuses /\ m.state = b.state /\ m.stage = b.stage /\ m.quarantined = b.quarantined
      /\ m.attempts = b.attempts /\ m.binding = b.binding /\ m.contract = b.contract
      /\ m.retry = b.retry /\ m.partition = b.partition /\ m.incomplete = b.incomplete
  BY <1>5, <1>6, <1>7 DEF Statuses
<1>9. PICK bad : bad = run.errs \cup {<<s, run.task>> : s \in failed}
  OBVIOUS
<1>10. PICK next : next = IF run.task = Tasks \/ signal \in {"quota", "rate", "deadline"}
                          THEN "report" ELSE "worker"
  OBVIOUS
<1>11. PICK r : r = [run EXCEPT !.errs = bad, !.signal = IF signal = "spent" THEN @ ELSE signal,
                               !.pc = next, !.task = IF @ = Tasks THEN @ ELSE @ + 1]
  OBVIOUS
<1>12. Event(m, r)
  <2>1. m = [run.mem EXCEPT !.epoch.spent = @ \/ signal = "spent"]
    BY <1>3, <1>4, <1>5, <1>6 DEF Statuses
  <2>2. r = [run EXCEPT !.errs = @ \cup {<<s, run.task>> : s \in failed},
                        !.signal = IF signal = "spent" THEN @ ELSE signal,
                        !.pc = IF run.task = Tasks \/ signal \in {"quota", "rate", "deadline"}
                               THEN "report" ELSE "worker",
                        !.task = IF @ = Tasks THEN @ ELSE @ + 1]
    BY <1>2, <1>9, <1>10, <1>11 DEF Runs
  <2> QED
    BY <1>1, <2>1, <2>2
<1>13. bad \subseteq Keys /\ Headroom(b, bad)
  <2>1. \A s \in failed : s \in Seeds /\ s \notin Excluded(b, run.task)
    BY <1>3 DEF Jobs
  <2>2. run.task \in 1..run.task /\ run.task \in 1..Tasks
    BY <1>2
  <2>3. \A s \in failed : <<s, run.task>> \in b.quarantined => s \in Planned(b, run.task)
    BY <2>1, <2>2 DEF Excluded
  <2>4. run.errs \subseteq Keys
    BY <1>2 DEF Runs
  <2>5. \A s \in failed : <<s, run.task>> \in Keys
    BY <2>1, <2>2 DEF Keys
\* A quarantined job fails in a stage whose plan names it.
  <2>6. \A s \in failed : <<s, run.task>> \in b.quarantined => Overrides(b)
    <3> SUFFICES ASSUME NEW s \in failed, <<s, run.task>> \in b.quarantined PROVE Overrides(b)
      OBVIOUS
    <3>1. PICK k \in b.quarantined : k = <<s, run.task>>
      OBVIOUS
    <3>2. k[1] = s /\ k[2] = run.task
      BY <3>1
    <3>3. k[1] \in Planned(b, k[2])
      BY <2>3, <3>2
    <3> QED
      BY <3>3 DEF Overrides
  <2>7. bad \cap b.quarantined # {} => run.errs \cap b.quarantined # {} \/ Overrides(b)
    BY <1>9, <2>6
  <2>8. Headroom(b, run.errs)
    BY <1>2, <1>3
  <2>9. Headroom(b, bad)
    BY <2>7, <2>8 DEF Headroom
  <2> QED
    BY <1>9, <2>4, <2>5, <2>9
<1>14. /\ r \in Runs /\ r.pc = next /\ r.errs = bad
       /\ r.pc = "worker" => r.task \in 1..Tasks
  <2>1. run.task + 1 \in Nat /\ (run.task # Tasks => run.task + 1 \in 1..Tasks)
    BY <1>2, Constants
  <2>2. next \in {"worker", "report"} /\ (next = "worker" => run.task # Tasks)
    BY <1>10
  <2>3. r \in Runs /\ r.pc = next /\ r.errs = bad /\ (run.task # Tasks => r.task = run.task + 1)
    BY <1>2, <1>11, <1>13, <2>1, <2>2 DEF Runs, Working
  <2> QED
    BY <2>1, <2>2, <2>3
<1>15. rows' \in RowSets
  <2>1. [s \in Seeds |-> IF s \in weak THEN "weak" ELSE IF s \in done THEN "good"
                          ELSE rows[run.task][s]] \in [Seeds -> {"none", "good", "weak"}]
    BY <1>2, InHandFacts DEF RowSets
  <2>2. rows \in RowSets
    BY InHandFacts, <1>2
  <2> QED
    BY <1>1, <1>2, <2>1, <2>2 DEF RowSets
<1>16. EnvGoesOn /\ env \in EnvTypes /\ env'.overrides = env.overrides
  <2>1. env \in EnvTypes
    BY <1>2, InHandFacts
  <2>2. PICK n \in Nat : n = IF signal = "none" THEN env.limits ELSE env.limits + 1
    BY <2>1 DEF EnvTypes
  <2>3. env' = [env EXCEPT !.limits = n]
    BY <1>1, <2>1, <2>2 DEF EnvTypes
  <2> QED
    BY <2>1, <2>2, <2>3 DEF EnvTypes, EnvGoesOn
<1>17. WorldTypes'
  BY <1>2, <1>15, <1>16 DEF IInv, Types, WorldTypes, EnvGoesOn
<1>18. Stages(m) = Stages(b) /\ ~(b.stage > Len(Stages(b)))
  <2>1. b.stage \in Nat /\ Len(Stages(b)) \in Nat
    BY <1>6, StageFacts DEF Statuses
  <2> QED
    BY <1>6, <1>8, <2>1 DEF Stages
\* No stage is over, and so nothing has to match the rows.
<1>19. Fits(m)'
  <2>1. Sound(m)
    BY <1>6, <1>8, <1>18 DEF Fits, Sound
  <2>2. Earned(m)'
    BY <1>8, <1>18 DEF Earned
  <2>3. Sound(m)'
    BY <1>8, <1>16, <2>1, SoundGoesOn
  <2> QED
    BY <1>2, <1>6, <1>8, <2>2, <2>3 DEF Fits
<1>20. status' = status /\ OnDisk'
  <2>1. status' = b
    BY <1>6, <1>12 DEF Event
  <2>2. \A g \in DOMAIN archive : archive[g] # <<>> => g <= MaxRounds
    BY DEF IInv, OnDisk
  <2>3. Sound(b)'
    BY <1>6, <1>16, SoundGoesOn DEF Fits
  <2>4. Earned(b)'
    BY <1>18 DEF Earned, Stages
  <2>5. b.binding = "current" /\ \A g \in DOMAIN archive : archive[g] # <<>> => g <= b.retry.gen
    BY <1>6 DEF Fits
  <2>6. b.retry.gen \in Nat /\ \A g \in DOMAIN archive : g \in Nat
    BY <1>2, <1>6 DEF Statuses, Retries, IInv, Types, WorldTypes
  <2>7. Sound(status)' /\ Earned(status)'
    BY <2>1, <2>3, <2>4 DEF Sound, Earned
  <2>8. \A g \in DOMAIN archive : archive[g] # <<>> =>
          g <= b.retry.gen + 1 /\ (g > b.retry.gen => b.stage <= Len(Stages(b)))
    BY <2>5, <2>6
  <2> HIDE DEF Sound, Earned
  <2> QED
    BY <1>2, <1>6, <2>1, <2>2, <2>5, <2>7, <2>8 DEF OnDisk
<1>21. m.stage <= Len(Stages(m)) /\ Headroom(m, r.errs)'
  <2>1. Overrides(m)' <=> Overrides(b)
    BY <1>2, <1>8 DEF Overrides, Planned
  <2>2. Headroom(m, r.errs)'
    BY <1>8, <1>13, <1>14, <1>16, <2>1 DEF Headroom
  <2> QED
    BY <1>6, <1>8, <1>18, <2>2
<1>22. r.pc \in {"worker", "report"}
  BY <1>10, <1>14
<1> HIDE DEF Event, Fits, OnDisk, WorldTypes, Stages
<1> QED
  BY <1>2, <1>12, <1>14, <1>16, <1>17, <1>19, <1>20, <1>21, <1>22, EventKeeps

------------------------------------------------------------------------------
(* What a stage reports *)

LEMMA StageRaisesKeeps ==
  ASSUME IInv, StageRaises
  PROVE  IInv'
<1>1. /\ run.pc # "off" /\ UNCHANGED <<rows, archive, config, clock>>
      /\ Fits(run.mem) /\ run.mem \in Statuses
      /\ clock' \in Nat /\ EnvGoesOn
  BY InHandFacts DEF StageRaises, At, EnvGoesOn, EnvTypes
<1>2. PICK m : m = [run.mem EXCEPT !.state = "failed", !.busy = FALSE]
  OBVIOUS
<1>3. PICK b : b = run.mem
  OBVIOUS
<1>4. m = [b EXCEPT !.state = "failed", !.busy = FALSE, !.cooldown = b.cooldown]
      /\ b.cooldown \in BOOLEAN
  BY <1>1, <1>2, <1>3 DEF Statuses
<1>5. Fits(m) /\ m.state = "failed"
  <2>1. "failed" \in States
    BY DEF States, Terminal
  <2>2. Fits(m)
    BY <1>1, <1>3, <1>4, <2>1, NewState
  <2>3. m.state = "failed"
    BY <1>1, <1>2 DEF Statuses
  <2> QED
    BY <2>2, <2>3
<1>6. Leave(m)
  BY <1>2 DEF StageRaises
<1> QED
  BY <1>1, <1>5, <1>6, LeaveKeeps

------------------------------------------------------------------------------
(* The end of a stage *)

LEMMA ReportedFacts ==
  ASSUME IInv, At("report"), NEW b, b = Reported
  PROVE  /\ Fits(b) /\ b \in Statuses /\ b.stage <= Len(Stages(b)) /\ b.contract = run.mem.contract
         /\ b.stage = run.mem.stage /\ b.retry = run.mem.retry /\ b.partition = run.mem.partition
         /\ Stages(b) = Stages(run.mem) /\ run.pc = "report" /\ status = run.mem
         /\ b.incomplete = run.mem.incomplete
<1>1. /\ run.pc = "report" /\ Fits(run.mem) /\ run.mem \in Statuses /\ status = run.mem
      /\ Headroom(run.mem, run.errs) /\ env \in EnvTypes /\ run.mem.stage <= Len(Stages(run.mem))
      /\ run.errs \in SUBSET Keys
  BY InHandFacts DEF At, IInv, InHand, Saved, Working, Runs
<1>2. PICK c : c = run.mem
  OBVIOUS
<1>3. PICK errs \in SUBSET Keys : errs = run.errs
  BY <1>1
<1>4. PICK n : n = RecordFailures(c, errs)
  OBVIOUS
<1>5. /\ n \in Statuses
      /\ \A k \in Keys : /\ n.attempts[k] <= MaxRetries + 1 + env.overrides
                         /\ k \in n.quarantined <=> n.attempts[k] > MaxRetries
      /\ n.binding = c.binding /\ n.contract = c.contract /\ n.stage = c.stage
      /\ n.retry = c.retry /\ n.partition = c.partition /\ n.incomplete = c.incomplete
      /\ n.state = c.state
  BY <1>1, <1>2, <1>3, <1>4, FailuresFacts DEF Fits
<1>6. b = [n EXCEPT !.busy = FALSE]
  BY <1>2, <1>3, <1>4 DEF Reported
<1>7. /\ b \in Statuses /\ b.attempts = n.attempts /\ b.quarantined = n.quarantined
      /\ b.binding = c.binding /\ b.contract = c.contract /\ b.stage = c.stage
      /\ b.retry = c.retry /\ b.partition = c.partition /\ b.incomplete = c.incomplete
      /\ b.state = c.state
  BY <1>5, <1>6 DEF Statuses
<1>8. Stages(b) = Stages(c)
  BY <1>7 DEF Stages
<1>9. b.state = "complete" => b.stage > Len(Stages(b))
  BY <1>1, <1>2, <1>7, <1>8 DEF Fits, Sound
<1>10. Fits(b)
  <2> HIDE DEF Stages
  <2> QED
    BY <1>1, <1>2, <1>5, <1>7, <1>9, Restated
<1> QED
  BY <1>1, <1>2, <1>7, <1>8, <1>10

LEMMA SignalsKeep ==
  ASSUME IInv, QuotaEnds \/ RateLimited \/ DeadlinePassed
  PROVE  IInv'
<1>1. /\ At("report") /\ UNCHANGED <<rows, archive, config, env>>
  BY DEF QuotaEnds, RateLimited, DeadlinePassed, world
<1>2. PICK b : b = Reported
  OBVIOUS
<1>3. /\ Fits(b) /\ b \in Statuses /\ b.stage <= Len(Stages(b)) /\ run.pc = "report"
  BY <1>1, <1>2, ReportedFacts
<1>4. /\ run \in Runs /\ run.pc # "off" /\ clock \in Nat
      /\ EnvGoesOn
  BY <1>1, <1>3, InHandFacts
<1>5. CASE QuotaEnds
  <2>1. PICK m : m = [b EXCEPT !.state = "provider_quota_exhausted"]
    OBVIOUS
  <2>2. /\ Fits(m) /\ m.stage = b.stage /\ Stages(m) = Stages(b)
    BY <1>3, <2>1, OnlyState DEF States, Terminal
  <2>3. clock' \in Nat
    BY <1>4, <1>5 DEF QuotaEnds, world
  <2>4. CASE config.policy = "collect"
    <3>1. PICK r : r = [run EXCEPT !.pc = "terminal"]
      OBVIOUS
    <3>2. Event(m, r)
      BY <1>2, <1>5, <2>1, <2>4, <3>1 DEF QuotaEnds
    <3>3. r \in Runs /\ r.pc = "terminal"
      BY <1>4, <3>1 DEF Runs, Working
    <3> QED
      BY <1>1, <1>3, <1>4, <2>2, <2>3, <3>2, <3>3, PlainEventKeeps
  <2>5. CASE config.policy # "collect"
    <3>1. Leave(m)
      BY <1>2, <1>5, <2>1, <2>5 DEF QuotaEnds
    <3> QED
      BY <1>1, <1>4, <2>2, <2>3, <2>5, <3>1, LeaveKeeps
  <2> QED
    BY <2>4, <2>5
<1>6. CASE RateLimited
  <2>1. PICK m : m = [b EXCEPT !.state = "cooldown", !.cooldown = TRUE]
    OBVIOUS
  <2>2. PICK r : r = [run EXCEPT !.pc = IF run.wait THEN "loop" ELSE "leaving"]
    OBVIOUS
  <2>3. m = [b EXCEPT !.state = "cooldown", !.busy = b.busy, !.cooldown = TRUE] /\ b.busy \in BOOLEAN
    BY <1>3, <2>1 DEF Statuses
  <2>4. Fits(m) /\ m.state = "cooldown"
    <3>1. "cooldown" \in States
      BY DEF States
    <3>2. Fits(m)
      BY <1>3, <2>3, <3>1, NewState
    <3>3. m.state = "cooldown"
      BY <1>3, <2>1 DEF Statuses
    <3> QED
      BY <3>2, <3>3
  <2>5. Event(m, r)
    BY <1>2, <1>6, <2>1, <2>2 DEF RateLimited
  <2>6. r \in Runs /\ r.pc \in {"loop", "leaving"} /\ r.pc \notin Working
    BY <1>4, <2>2 DEF Runs, Working
  <2>7. clock' \in Nat
    BY <1>6, Constants DEF RateLimited
  <2> QED
    BY <1>1, <1>4, <2>4, <2>5, <2>6, <2>7, PlainEventKeeps
<1>7. CASE DeadlinePassed
  <2>1. PICK m : m = [b EXCEPT !.state = "client_deadline"]
    OBVIOUS
  <2>2. Fits(m) /\ m.state = "client_deadline"
    BY <1>3, <2>1, OnlyState DEF States, Terminal
  <2>3. Leave(m) /\ clock' \in Nat
    BY <1>2, <1>4, <1>7, <2>1 DEF DeadlinePassed, world
  <2> QED
    BY <1>1, <1>4, <2>2, <2>3, LeaveKeeps
<1> QED
  BY <1>5, <1>6, <1>7

LEMMA BudgetSpentKeeps ==
  ASSUME IInv, BudgetSpent
  PROVE  IInv'
<1>1. At("report") /\ UNCHANGED <<rows, archive, config, clock, env>>
  BY DEF BudgetSpent, world
<1>2. PICK b : b = Reported
  OBVIOUS
<1>3. /\ Fits(b) /\ b \in Statuses /\ b.stage <= Len(Stages(b)) /\ b.contract = run.mem.contract
      /\ b.stage = run.mem.stage /\ b.retry = run.mem.retry
      /\ run.pc = "report" /\ status = run.mem /\ run.pc # "off"
  BY <1>1, <1>2, ReportedFacts
<1>4. PICK m : m = [b EXCEPT !.state = "budget_exhausted"]
  OBVIOUS
<1>5. /\ Fits(m) /\ m.state = "budget_exhausted" /\ m.stage = b.stage /\ Stages(m) = Stages(b)
      /\ m.retry = b.retry /\ m.contract = b.contract
  BY <1>3, <1>4, OnlyState DEF States, Terminal
<1>6. /\ run \in Runs /\ clock' \in Nat /\ run.mem.binding = "current" /\ ~run.dirty
      /\ EnvGoesOn
  BY <1>1, <1>3, InHandFacts DEF At, Fits
<1>7. CASE config.policy = "collect"
  <2>1. run' = [run EXCEPT !.pc = "terminal", !.mem = m] /\ UNCHANGED <<status, ahead>>
    BY <1>2, <1>4, <1>7 DEF BudgetSpent
  <2>2. m \in Statuses
    BY <1>5 DEF Fits
  <2>3. run' \in Runs /\ run'.pc = "terminal" /\ run'.mem = m /\ ~run'.dirty
    BY <1>6, <2>1, <2>2 DEF Runs, Working
  <2>4. Types'
    BY <1>1, <2>1, <2>3 DEF IInv, Types, WorldTypes
  <2>5. OnDisk'
    BY <1>1, <1>6, <2>1, OnDiskKept DEF IInv
  <2>6. InHand'
    <3>1. Fits(m)'
      BY <1>1, <1>3, <1>5, <1>6, InHandFacts, FitsGoesOn
    <3>2. Fits(run.mem)'
      BY <2>3, <3>1 DEF Fits, Earned
    <3>3. run'.mem.stage <= Len(Stages(run'.mem))
      BY <1>3, <1>5, <2>3
    <3> QED
      BY <2>3, <3>2, <3>3 DEF InHand
  <2>7. Saved'
    BY <1>3, <1>5, <1>6, <2>1, <2>3 DEF Saved, IInv
  <2>8. QuotaParted'
    BY <2>3 DEF QuotaParted, QuotaEndIsPartitioned
  <2> QED
    BY <2>4, <2>5, <2>6, <2>7, <2>8 DEF IInv
<1>8. CASE config.policy # "collect"
  <2>1. Leave(m)
    BY <1>2, <1>4, <1>8 DEF BudgetSpent
  <2> QED
    BY <1>1, <1>3, <1>5, <1>6, <2>1, LeaveKeeps
<1> QED
  BY <1>7, <1>8

LEMMA PartitionTerminalKeeps ==
  ASSUME IInv, PartitionTerminal
  PROVE  IInv'
<1>1. /\ run.pc = "terminal" /\ run.pc # "off" /\ UNCHANGED <<rows, archive, config, clock, env>>
  BY DEF PartitionTerminal, At, world
<1>2. /\ Fits(run.mem) /\ run.mem \in Statuses /\ run.mem.stage <= Len(Stages(run.mem))
      /\ rows \in RowSets /\ clock' \in Nat
      /\ EnvGoesOn
  BY <1>1, InHandFacts DEF IInv, InHand, Working
<1>3. PICK b : b = run.mem
  OBVIOUS
<1>4. ASSUME NEW s \in {"gate_blocked", "failed"}, Leave([run.mem EXCEPT !.state = s]) PROVE IInv'
  <2>1. PICK m : m = [b EXCEPT !.state = s]
    OBVIOUS
  <2>2. Fits(m) /\ m.state = s
    BY <1>2, <1>3, <2>1, OnlyState DEF States, Terminal
  <2>3. Leave(m)
    BY <1>3, <1>4, <2>1
  <2> QED
    BY <1>1, <1>2, <2>2, <2>3, LeaveKeeps
<1>5. CASE Leave([run.mem EXCEPT !.partition = PartitionOf(rows, run.mem, Target(run.mem))])
  <2>1. PICK p : p = PartitionOf(rows, run.mem, Target(run.mem))
    OBVIOUS
  <2>2. /\ p \in Partitions /\ p.made /\ p.rows = rows
        /\ p.ready <=> Cardinality(Whole(rows)) >= Contracts[b.contract].minimum
    BY <1>2, <1>3, <2>1, PartitionFacts, StageFacts
  <2>3. PICK m : m = [b EXCEPT !.partition = p]
    OBVIOUS
  <2>4. /\ m \in Statuses /\ m.state = b.state /\ m.stage = b.stage /\ m.quarantined = b.quarantined
        /\ m.attempts = b.attempts /\ m.binding = b.binding /\ m.contract = b.contract
        /\ m.retry = b.retry /\ m.partition = p /\ m.incomplete = b.incomplete
    BY <1>2, <1>3, <2>2, <2>3 DEF Statuses
  <2>5. Stages(m) = Stages(b) /\ ~(b.stage > Len(Stages(b)))
    <3>1. b.stage \in Nat /\ Len(Stages(b)) \in Nat
      BY <1>2, <1>3, StageFacts DEF Statuses
    <3> QED
      BY <1>2, <1>3, <2>4, <3>1 DEF Stages
  <2>6. Fits(m)
    <3>1. Sound(m)
      BY <1>2, <1>3, <2>2, <2>4, <2>5 DEF Fits, Sound
    <3>2. Earned(m)
      BY <2>4, <2>5 DEF Earned
    <3> QED
      BY <1>2, <1>3, <2>4, <3>1, <3>2 DEF Fits
  <2>7. Leave(m)
    BY <1>3, <1>5, <2>1, <2>3
  <2> QED
    BY <1>1, <1>2, <2>2, <2>4, <2>6, <2>7, LeaveKeeps
<1> QED
  BY <1>4, <1>5 DEF PartitionTerminal

------------------------------------------------------------------------------
(* The gate and the partition *)

\* While a stage is open, nothing has to match the rows: the rounds and the partition may move.
LEMMA OpenFits ==
  ASSUME WorldTypes, NEW b, Fits(b), b.stage <= Len(Stages(b)), NEW n \in Statuses,
         n.attempts = b.attempts, n.quarantined = b.quarantined, n.binding = b.binding,
         n.contract = b.contract, n.stage = b.stage, n.state # "complete",
         n.retry.gen >= b.retry.gen, n.retry.rounds <= n.retry.gen,
         n.retry.gen <= n.retry.rounds + 1, n.retry.gen <= MaxRounds,
         n.partition.ready =>
           Cardinality(Whole(n.partition.rows)) >= Contracts[n.contract].minimum
  PROVE  Fits(n) /\ n.stage <= Len(Stages(n))
<1>1. b \in Statuses /\ Stages(n) = Stages(b)
  BY DEF Fits, Stages
<1>2. b.stage \in Nat /\ Len(Stages(b)) \in Nat /\ b.retry.gen \in Nat /\ n.retry.gen \in Nat
  BY <1>1, StageFacts DEF Statuses, Retries
<1> HIDE DEF Stages
<1>3. n.stage <= Len(Stages(n)) /\ ~(n.stage > Len(Stages(n)))
  BY <1>1, <1>2
<1>4. Sound(n) /\ Earned(n)
  BY <1>3 DEF Sound, Earned, Fits
<1>5. \A g \in DOMAIN archive : archive[g] # <<>> => g <= n.retry.gen
  <2> SUFFICES ASSUME NEW g \in DOMAIN archive, archive[g] # <<>> PROVE g <= n.retry.gen
    OBVIOUS
  <2>1. g <= b.retry.gen /\ g \in Nat
    BY DEF Fits, WorldTypes
  <2> QED
    BY <1>2, <2>1
<1> QED
  BY <1>3, <1>4, <1>5 DEF Fits

LEMMA GateKeeps ==
  ASSUME IInv, GatePassed \/ GateFailed \/ BlockedAtGate
  PROVE  IInv'
<1>1. /\ At("report") /\ UNCHANGED <<rows, archive, config, clock>>
  BY DEF GatePassed, GateFailed, BlockedAtGate, Clean, world
<1>2. PICK b : b = Reported
  OBVIOUS
<1>3. /\ Fits(b) /\ b \in Statuses /\ b.stage <= Len(Stages(b)) /\ run.pc = "report"
  BY <1>1, <1>2, ReportedFacts
<1>4. /\ run \in Runs /\ run.pc # "off" /\ clock' \in Nat /\ rows \in RowSets
      /\ EnvGoesOn
  BY <1>1, <1>3, InHandFacts DEF GatePassed, GateFailed, BlockedAtGate, world, EnvGoesOn, EnvTypes
<1>5. CASE GatePassed
  <2>1. PICK m : m = [b EXCEPT !.stage = @ + 1]
    OBVIOUS
  <2>2. PICK r : r = [run EXCEPT !.pc = "loop", !.last = 0, !.stagnant = 0]
    OBVIOUS
  <2>3. Event(m, r) /\ config.policy # "collect"
    BY <1>2, <1>5, <2>1, <2>2 DEF GatePassed
  <2>4. r \in Runs /\ r.pc = "loop"
    BY <1>4, <2>2 DEF Runs
  <2>5. /\ m \in Statuses /\ m.state = b.state /\ m.quarantined = b.quarantined
        /\ m.attempts = b.attempts /\ m.binding = b.binding /\ m.contract = b.contract
        /\ m.retry = b.retry /\ m.partition = b.partition
    <3>1. b.stage + 1 \in Nat \ {0}
      BY <1>3 DEF Statuses
    <3>2. PICK n : n = b.stage + 1
      OBVIOUS
    <3>3. b \in Statuses /\ n \in Nat \ {0} /\ m = [b EXCEPT !.stage = n]
      BY <1>3, <2>1, <3>1, <3>2
    <3>4. m \in Statuses
      BY <3>3 DEF Statuses
    <3> QED
      BY <3>3, <3>4 DEF Statuses
  <2>6. b.state # "complete"
    <3>1. b.stage \in Nat /\ Len(Stages(b)) \in Nat
      BY <1>3, StageFacts DEF Statuses
    <3> QED
      BY <1>3, <3>1 DEF Fits, Sound
  <2>7. Fits(m)
    BY <1>3, <2>3, <2>5, <2>6 DEF Fits, Sound, Earned
  <2> QED
    BY <1>1, <1>4, <2>3, <2>4, <2>7, LoopKeeps
<1>6. ASSUME NEW s \in {"gate_blocked", "failed"}, Leave([Reported EXCEPT !.state = s]) PROVE IInv'
  <2>1. PICK m : m = [b EXCEPT !.state = s]
    OBVIOUS
  <2>2. Fits(m) /\ m.state = s
    BY <1>3, <2>1, OnlyState DEF States, Terminal
  <2>3. Leave(m)
    BY <1>2, <1>6, <2>1
  <2> QED
    BY <1>1, <1>4, <2>2, <2>3, LeaveKeeps
<1>7. CASE GateFailed
  <2> DEFINE records == Cardinality(Rows(rows)) + 1
             stuck == IF run.last # 0 /\ records <= run.last THEN run.stagnant + 1 ELSE 0
  <2>1. records \in Nat /\ stuck \in Nat
    <3>1. Cardinality(Rows(rows)) \in Nat
      BY KeysFinite, FS_Subset, FS_CardinalityType DEF Rows
    <3> QED
      BY <1>4, <3>1 DEF Runs
  <2>2. CASE stuck >= MaxStagnant
    <3>1. Leave([Reported EXCEPT !.state = "gate_blocked"])
      BY <1>7, <2>2 DEF GateFailed
    <3> QED
      BY <1>6, <3>1
  <2>3. CASE ~(stuck >= MaxStagnant)
    <3>1. PICK m : m = [b EXCEPT !.state = "running"]
      OBVIOUS
    <3>2. PICK r : r = [run EXCEPT !.pc = "loop", !.last = records, !.stagnant = stuck]
      OBVIOUS
    <3>3. Event(m, r)
      BY <1>2, <1>7, <2>3, <3>1, <3>2 DEF GateFailed
    <3>4. r \in Runs /\ r.pc = "loop"
      <4> HIDE DEF records, stuck
      <4> QED
        BY <1>4, <2>1, <3>2 DEF Runs
    <3>5. Fits(m)
      BY <1>3, <3>1, OnlyState DEF States
    <3> QED
      BY <1>1, <1>4, <3>3, <3>4, <3>5, LoopKeeps
  <2> QED
    BY <2>2, <2>3
<1>8. CASE BlockedAtGate
  BY <1>6, <1>8 DEF BlockedAtGate
<1> QED
  BY <1>5, <1>7, <1>8

\* A ready partition of the rows that are there opens the next stage.
LEMMA PartitionStageKeeps ==
  ASSUME IInv, PartitionStage
  PROVE  IInv'
<1>1. /\ At("report") /\ UNCHANGED <<rows, archive, config, clock, env>>
  BY DEF PartitionStage, Clean, world
<1>2. PICK b : b = Reported
  OBVIOUS
<1>3. /\ Fits(b) /\ b \in Statuses /\ b.stage <= Len(Stages(b)) /\ run.pc = "report"
      /\ b.contract = run.mem.contract /\ b.stage = run.mem.stage /\ Stages(b) = Stages(run.mem)
  BY <1>1, <1>2, ReportedFacts
<1>4. /\ run \in Runs /\ run.pc # "off" /\ clock' \in Nat /\ rows \in RowSets
      /\ run.mem \in Statuses /\ WorldTypes
      /\ EnvGoesOn
  BY <1>1, <1>3, InHandFacts DEF IInv, Types
<1>5. PICK p : p = PartitionOf(rows, run.mem, Target(run.mem))
  OBVIOUS
<1>6. /\ p \in Partitions /\ p.made /\ p.rows = rows
      /\ p.ready <=> Cardinality(Whole(rows)) >= Contracts[b.contract].minimum
  <2>1. PICK n \in Nat : n = Target(run.mem)
    BY <1>3, <1>4, StageFacts
  <2> QED
    BY <1>3, <1>4, <1>5, <2>1, PartitionFacts
<1>7. b.state # "complete"
  <2>1. b.stage \in Nat /\ Len(Stages(b)) \in Nat
    BY <1>3, StageFacts DEF Statuses
  <2> QED
    BY <1>3, <2>1 DEF Fits, Sound
<1>8. CASE p.ready
  <2>1. PICK t : t = [b.retry EXCEPT !.state = IF @ = "none" THEN @ ELSE "completed"]
    OBVIOUS
  <2>2. PICK m : m = [b EXCEPT !.partition = p, !.stage = @ + 1, !.incomplete = FALSE, !.retry = t]
    OBVIOUS
  <2>3. PICK r : r = [run EXCEPT !.pc = "loop"]
    OBVIOUS
  <2>4. b.retry \in Retries
    BY <1>3 DEF Statuses
  <2>5. Event(m, r)
    <3>1. Event([[Reported EXCEPT !.partition = p] EXCEPT
                    !.stage = @ + 1, !.incomplete = FALSE,
                    !.retry.state = IF @ = "none" THEN @ ELSE "completed"],
                [run EXCEPT !.pc = "loop"])
      BY <1>5, <1>8 DEF PartitionStage
    <3>2. m = [[Reported EXCEPT !.partition = p] EXCEPT
                  !.stage = @ + 1, !.incomplete = FALSE,
                  !.retry.state = IF @ = "none" THEN @ ELSE "completed"]
      BY <1>2, <1>3, <2>1, <2>2, <2>4 DEF Statuses
    <3> QED
      BY <2>3, <3>1, <3>2
  <2>6. t \in Retries /\ t.gen = b.retry.gen /\ t.rounds = b.retry.rounds
    BY <2>1, <2>4 DEF Retries
  <2>7. /\ m \in Statuses /\ m.state = b.state /\ m.quarantined = b.quarantined
        /\ m.attempts = b.attempts /\ m.binding = b.binding /\ m.contract = b.contract
        /\ m.retry = t /\ m.partition = p /\ ~m.incomplete
    <3>1. PICK i \in Nat \ {0} : i = b.stage + 1
      BY <1>3 DEF Statuses
    <3>2. m = [b EXCEPT !.partition = p, !.stage = i, !.incomplete = FALSE, !.retry = t]
      BY <1>3, <2>2, <3>1 DEF Statuses
    <3>3. m \in Statuses
      BY <1>3, <1>6, <2>6, <3>2 DEF Statuses
    <3> QED
      BY <1>3, <3>2, <3>3 DEF Statuses
  <2>8. r \in Runs /\ r.pc = "loop"
    BY <1>4, <2>3 DEF Runs
  <2>9. Fits(m)
    <3>1. Sound(m)
      BY <1>3, <1>6, <1>7, <2>6, <2>7 DEF Fits, Sound
    <3>2. Earned(m)
      BY <1>6, <1>8, <2>7 DEF Earned
    <3> QED
      BY <1>3, <2>6, <2>7, <3>1, <3>2 DEF Fits
  <2> QED
    BY <1>1, <1>4, <2>5, <2>8, <2>9, LoopKeeps
<1>9. CASE ~p.ready
  <2>1. PICK m : m = [b EXCEPT !.partition = p]
    OBVIOUS
  <2>2. PICK r : r = [run EXCEPT !.pc = "assess"]
    OBVIOUS
  <2>3. Event(m, r)
    BY <1>2, <1>5, <1>9, <2>1, <2>2 DEF PartitionStage
  <2>4. /\ m \in Statuses /\ m.state = b.state /\ m.stage = b.stage /\ m.quarantined = b.quarantined
        /\ m.attempts = b.attempts /\ m.binding = b.binding /\ m.contract = b.contract
        /\ m.retry = b.retry /\ m.partition = p
    BY <1>3, <1>6, <2>1 DEF Statuses
  <2>5. b.retry \in Retries
    BY <1>3 DEF Statuses
  <2>6. /\ b.retry.gen >= b.retry.gen /\ b.retry.rounds <= b.retry.gen
        /\ b.retry.gen <= b.retry.rounds + 1 /\ b.retry.gen <= MaxRounds
    BY <1>3, <2>5 DEF Fits, Sound, Retries
  <2>7. Fits(m) /\ m.stage <= Len(Stages(m))
    <3> HIDE DEF Stages
    <3> QED
      BY <1>3, <1>4, <1>7, <1>9, <2>4, <2>6, OpenFits
  <2>8. r \in Runs /\ r.pc = "assess"
    BY <1>4, <2>2 DEF Runs, Working
  <2> QED
    BY <1>1, <1>4, <2>3, <2>7, <2>8, PlainEventKeeps
<1> QED
  BY <1>8, <1>9

------------------------------------------------------------------------------
(* Quality rounds *)

LEMMA AssessKeeps ==
  ASSUME IInv, AssessRound
  PROVE  IInv'
<1>1. /\ run.pc = "assess" /\ ~run.dirty /\ run.pc # "off"
      /\ UNCHANGED <<rows, archive, config, clock, env>>
  BY DEF AssessRound, At, world
<1>2. /\ Fits(run.mem) /\ run.mem \in Statuses /\ run.mem.stage <= Len(Stages(run.mem))
      /\ run \in Runs /\ clock' \in Nat /\ WorldTypes /\ status = run.mem
      /\ EnvGoesOn
  BY <1>1, InHandFacts DEF IInv, InHand, Working, Saved, Types
<1>3. PICK b : b = run.mem
  OBVIOUS
<1>4. PICK old : old = b.retry
  OBVIOUS
<1>5. /\ b \in Statuses /\ Fits(b) /\ b.stage <= Len(Stages(b)) /\ old \in Retries
      /\ old.rounds <= old.gen /\ old.gen <= old.rounds + 1 /\ old.gen <= MaxRounds
  BY <1>2, <1>3, <1>4 DEF Statuses, Fits, Sound
<1> DEFINE better == old.before # <<>> /\ Improved(old.before, b.partition.deficits)
           stuck == IF better THEN 0 ELSE old.stagnant + 1
<1>6. stuck \in Nat
  BY <1>5 DEF Retries
<1>7. PICK n \in Nat : n = stuck
  BY <1>6
<1>8. PICK t : t = [old EXCEPT !.state = "completed", !.rounds = old.gen, !.stagnant = n]
  OBVIOUS
<1>9. /\ t \in Retries /\ t.gen = old.gen /\ t.rounds = old.gen
  BY <1>5, <1>8 DEF Retries
<1>10. PICK m : m = [b EXCEPT !.retry = t]
  OBVIOUS
<1>11. /\ m \in Statuses /\ m.state = b.state /\ m.stage = b.stage /\ m.quarantined = b.quarantined
       /\ m.attempts = b.attempts /\ m.binding = b.binding /\ m.contract = b.contract
       /\ m.retry = t /\ m.partition = b.partition
  BY <1>5, <1>9, <1>10 DEF Statuses
<1>12. b.state # "complete"
  <2>1. b.stage \in Nat /\ Len(Stages(b)) \in Nat
    BY <1>5, StageFacts DEF Statuses
  <2> QED
    BY <1>5, <2>1 DEF Fits, Sound
<1>13. Fits(m) /\ m.stage <= Len(Stages(m))
  <2>1. /\ t.gen >= old.gen /\ t.rounds <= t.gen /\ t.gen <= t.rounds + 1 /\ t.gen <= MaxRounds
    BY <1>5, <1>9 DEF Retries
  <2>2. m.partition.ready =>
          Cardinality(Whole(m.partition.rows)) >= Contracts[m.contract].minimum
    BY <1>5, <1>11 DEF Fits, Sound
  <2> HIDE DEF Stages
  <2> QED
    BY <1>2, <1>4, <1>5, <1>11, <1>12, <2>1, <2>2, OpenFits
<1>14. PICK r : r = [run EXCEPT !.pc = "prepare"]
  OBVIOUS
<1>15. r \in Runs /\ r.pc = "prepare" /\ r.mem = run.mem /\ r.dirty = run.dirty
  BY <1>2, <1>14 DEF Runs, Working
<1>16. CASE old.state # "running"
  <2>1. run' = r /\ UNCHANGED <<status, ahead>>
    BY <1>3, <1>4, <1>14, <1>16 DEF AssessRound
  <2>2. Types'
    BY <1>1, <1>15, <2>1 DEF IInv, Types, WorldTypes
  <2>3. OnDisk'
    BY <1>1, <1>2, <2>1, OnDiskKept DEF IInv
  <2>4. InHand'
    <3>1. Fits(b)'
      BY <1>1, <1>2, <1>5, InHandFacts, FitsGoesOn
    <3>2. Fits(run.mem)'
      BY <1>3, <1>15, <2>1, <3>1 DEF Fits, Earned
    <3>3. run'.mem.stage <= Len(Stages(run'.mem))
      BY <1>3, <1>5, <1>15, <2>1
    <3> QED
      BY <1>15, <2>1, <3>2, <3>3 DEF InHand
  <2>5. Saved'
    BY <1>1, <1>2, <1>15, <2>1 DEF Saved, IInv
  <2>6. QuotaParted'
    BY <1>15, <2>1 DEF QuotaParted, QuotaEndIsPartitioned
  <2> QED
    BY <2>2, <2>3, <2>4, <2>5, <2>6 DEF IInv
<1>17. CASE old.state = "running" /\ stuck >= MaxStagnant
  <2>1. PICK k : k = [m EXCEPT !.state = "gate_blocked"]
    OBVIOUS
  <2>2. Fits(k) /\ k.state = "gate_blocked"
    BY <1>13, <2>1, OnlyState DEF States, Terminal
  <2>3. Leave(k)
    BY <1>3, <1>4, <1>7, <1>8, <1>10, <1>17, <2>1 DEF AssessRound
  <2> QED
    BY <1>1, <1>2, <2>2, <2>3, LeaveKeeps
<1>18. CASE old.state = "running" /\ ~(stuck >= MaxStagnant)
  <2>1. Event(m, r)
    BY <1>3, <1>4, <1>7, <1>8, <1>10, <1>14, <1>18 DEF AssessRound
  <2> QED
    BY <1>1, <1>2, <1>13, <1>15, <2>1, PlainEventKeeps
<1> QED
  BY <1>16, <1>17, <1>18

\* A round archives rows once, in the generation it is given.
LEMMA ArchiveFacts ==
  ASSUME WorldTypes, NEW g \in 1..MaxRounds, NEW m, Archive(m, g)
  PROVE  /\ rows' \in RowSets
         /\ archive' \in [1..(MaxRounds + 1) -> RowSets \cup {<<>>}]
         /\ \A h \in DOMAIN archive' : archive'[h] # <<>> => archive[h] # <<>> \/ h = g
         /\ DOMAIN archive' = DOMAIN archive
<1>1. /\ g \in 1..(MaxRounds + 1) /\ rows \in RowSets
      /\ archive \in [1..(MaxRounds + 1) -> RowSets \cup {<<>>}]
  BY Constants DEF WorldTypes
<1>2. PICK new : new = IF archive[g] = <<>> THEN rows ELSE archive[g]
  OBVIOUS
<1>3. new \in RowSets
  BY <1>1, <1>2
<1>4. archive' = [archive EXCEPT ![g] = new]
  BY <1>1, <1>2 DEF Archive
<1>5. archive' \in [1..(MaxRounds + 1) -> RowSets \cup {<<>>}] /\ archive'[g] = new
  BY <1>1, <1>3, <1>4
<1>6. rows' = Projection(new, plans'[g])
  BY <1>5 DEF Archive
<1> QED
  BY <1>1, <1>3, <1>4, <1>5, <1>6, ProjectionType

\* The next generation: what a status becomes when it prepares a round.
LEMMA PreparedFacts ==
  ASSUME NEW b \in Statuses, NEW n \in Nat, n < MaxRounds, NEW m, m = Prepared(b, n)
  PROVE  /\ m \in Statuses /\ m.state = "quality_retry_ready" /\ m.stage = b.stage
         /\ m.quarantined = b.quarantined /\ m.attempts = b.attempts /\ m.binding = b.binding
         /\ m.contract = b.contract /\ m.partition = b.partition
         /\ m.retry.gen = n + 1 /\ m.retry.rounds = n /\ n + 1 \in 1..MaxRounds
<1>1. b.retry \in Retries /\ b.partition \in Partitions
  BY DEF Statuses
<1>2. b.retry.stagnant \in Nat /\ b.partition.deficits \in Vectors
  BY <1>1 DEF Retries, Partitions
<1>3. PICK t : t = [state |-> "ready", gen |-> n + 1, rounds |-> n,
                    stagnant |-> b.retry.stagnant, before |-> b.partition.deficits]
  OBVIOUS
<1>4. t \in Retries /\ t.gen = n + 1 /\ t.rounds = n
  BY <1>2, <1>3 DEF Retries
<1>5. m = [b EXCEPT !.retry = t, !.incomplete = TRUE, !.state = "quality_retry_ready"]
  BY <1>3 DEF Prepared
<1>6. /\ m \in Statuses /\ m.state = "quality_retry_ready" /\ m.stage = b.stage
      /\ m.quarantined = b.quarantined /\ m.attempts = b.attempts /\ m.binding = b.binding
      /\ m.contract = b.contract /\ m.partition = b.partition /\ m.retry = t
  BY <1>4, <1>5 DEF Statuses, States
<1>7. n + 1 \in 1..MaxRounds
  BY Constants
<1> QED
  BY <1>4, <1>6, <1>7

\* The rows move to the archive of the round before the status that says so is saved: until
\* then the archive is one round ahead of it, and its stage is open.
LEMMA PrepareRoundKeeps ==
  ASSUME IInv, PrepareRound
  PROVE  IInv'
<1>1. /\ run.pc = "prepare" /\ ~run.dirty /\ run.pc # "off" /\ run.mem.retry.rounds < MaxRounds
      /\ UNCHANGED <<config, clock, env>>
  BY DEF PrepareRound, At
<1>2. /\ Fits(run.mem) /\ run.mem \in Statuses /\ run.mem.stage <= Len(Stages(run.mem))
      /\ run \in Runs /\ WorldTypes /\ status = run.mem
  BY <1>1, InHandFacts DEF IInv, InHand, Working, Saved, Types
<1>3. PICK b : b = run.mem
  OBVIOUS
<1>4. PICK m : m = Prepared(b, b.retry.rounds)
  OBVIOUS
<1>5. PICK r : r = [run EXCEPT !.pc = "loop"]
  OBVIOUS
<1>6. Event(m, r) /\ r \in Runs /\ r.pc = "loop" /\ status' = status
  BY <1>2, <1>3, <1>4, <1>5 DEF PrepareRound, Runs, Event
<1>7. /\ b \in Statuses /\ Fits(b) /\ b.stage <= Len(Stages(b)) /\ Sound(b) /\ b.retry.rounds < MaxRounds
  BY <1>1, <1>2, <1>3 DEF Fits
<1>8. /\ m \in Statuses /\ m.state = "quality_retry_ready" /\ m.stage = b.stage
      /\ m.quarantined = b.quarantined /\ m.attempts = b.attempts /\ m.binding = b.binding
      /\ m.contract = b.contract /\ m.partition = b.partition
      /\ m.retry.gen = b.retry.rounds + 1 /\ m.retry.rounds = b.retry.rounds
      /\ b.retry.rounds \in Nat /\ b.retry.gen \in Nat /\ b.retry.gen <= b.retry.rounds + 1
      /\ b.retry.rounds + 1 \in 1..MaxRounds
  <2>1. b.retry.rounds \in Nat /\ b.retry.gen \in Nat
    BY <1>7 DEF Statuses, Retries
  <2>2. b.retry.gen <= b.retry.rounds + 1
    BY <1>7 DEF Sound
  <2> QED
    BY <1>4, <1>7, <2>1, <2>2, PreparedFacts
<1>9. PICK g \in 1..MaxRounds : g = b.retry.rounds + 1
  BY <1>8
<1>10. Archive(b, g)
  BY <1>3, <1>9 DEF PrepareRound, Upcoming
<1>11. /\ rows' \in RowSets
       /\ archive' \in [1..(MaxRounds + 1) -> RowSets \cup {<<>>}]
       /\ \A h \in DOMAIN archive' : archive'[h] # <<>> => archive[h] # <<>> \/ h = g
       /\ DOMAIN archive' = DOMAIN archive
  BY <1>2, <1>10, ArchiveFacts
<1>12. WorldTypes' /\ EnvGoesOn /\ env \in EnvTypes
  BY <1>1, <1>2, <1>11, InHandFacts DEF WorldTypes
<1>13. b.binding = "current" /\ \A h \in DOMAIN archive : archive[h] # <<>> => h <= b.retry.gen
  BY <1>7 DEF Fits
<1>14. \A h \in DOMAIN archive' : archive'[h] # <<>> =>
         h \in Nat /\ h <= b.retry.rounds + 1 /\ h <= b.retry.gen + 1 /\ h <= MaxRounds
  <2> SUFFICES ASSUME NEW h \in DOMAIN archive', archive'[h] # <<>>
               PROVE  h \in Nat /\ h <= b.retry.rounds + 1 /\ h <= b.retry.gen + 1 /\ h <= MaxRounds
    OBVIOUS
  <2>1. h \in Nat /\ (h <= b.retry.gen \/ h = g) /\ b.retry.rounds <= b.retry.gen
        /\ b.retry.gen <= MaxRounds
    BY <1>7, <1>11, <1>13 DEF Sound
  <2> QED
    BY <1>8, <1>9, <2>1, Constants
<1>15. ~(b.stage > Len(Stages(b))) /\ Stages(m) = Stages(b)
  <2>1. b.stage \in Nat /\ Len(Stages(b)) \in Nat
    BY <1>7, StageFacts DEF Statuses
  <2> QED
    BY <1>7, <1>8, <2>1 DEF Stages
<1>16. Fits(m)'
  <2>1. Sound(m)
    BY <1>7, <1>8, <1>9, <1>15, Constants DEF Sound
  <2>2. Sound(m)'
    BY <1>8, <1>12, <2>1, SoundGoesOn
  <2>3. Earned(m)'
    BY <1>8, <1>15 DEF Earned, Stages
  <2> QED
    BY <1>8, <1>13, <1>14, <2>2, <2>3 DEF Fits
<1>17. OnDisk'
  <2>1. status' = b
    BY <1>2, <1>3, <1>6
  <2>2. Sound(b)' /\ Earned(b)'
    <3>1. Sound(b)'
      BY <1>7, <1>12, SoundGoesOn
    <3> QED
      BY <1>15, <3>1 DEF Earned, Stages
  <2>3. Sound(status)' /\ Earned(status)'
    BY <2>1, <2>2 DEF Sound, Earned
  <2> HIDE DEF Sound, Earned
  <2> QED
    BY <1>7, <1>13, <1>14, <2>1, <2>3 DEF OnDisk
<1>18. "loop" \notin Working
  BY DEF Working
<1> HIDE DEF Event, Fits, OnDisk, WorldTypes, Stages
<1> QED
  BY <1>1, <1>6, <1>12, <1>16, <1>17, <1>18, EventKeeps

LEMMA NoRoundKeeps ==
  ASSUME IInv, PrepareRaises \/ NoRoundLeft
  PROVE  IInv'
<1>1. /\ run.pc # "off" /\ UNCHANGED <<rows, archive, config, clock, env>>
  BY DEF PrepareRaises, NoRoundLeft, At, world
<1>2. /\ Fits(run.mem) /\ clock' \in Nat
      /\ EnvGoesOn
  BY <1>1, InHandFacts
<1>3. PICK b : b = run.mem
  OBVIOUS
<1>4. PICK s \in {"gate_blocked", "failed"} : Leave([run.mem EXCEPT !.state = s])
  BY DEF PrepareRaises, NoRoundLeft
<1>5. PICK m : m = [b EXCEPT !.state = s]
  OBVIOUS
<1>6. Fits(m) /\ m.state = s
  BY <1>2, <1>3, <1>5, OnlyState DEF States, Terminal
<1>7. Leave(m)
  BY <1>3, <1>4, <1>5
<1> QED
  BY <1>1, <1>2, <1>6, <1>7, LeaveKeeps

------------------------------------------------------------------------------
(* Saving and starting *)

\* A status that fits can be on the disk.
LEMMA FittingIsKept ==
  ASSUME IInv, NEW m, Fits(m), status' = m, UNCHANGED <<rows, archive>>,
         config'.policy = config.policy, EnvGoesOn
  PROVE  status' \in Statuses /\ OnDisk' /\ Fits(m)'
<1>1. m \in Statuses /\ m.binding = "current"
  BY DEF Fits
<1>2. \A g \in DOMAIN archive : archive[g] # <<>> =>
        g <= m.retry.gen /\ g <= MaxRounds /\ g <= m.retry.gen + 1 /\ ~(g > m.retry.gen)
  <2> SUFFICES ASSUME NEW g \in DOMAIN archive, archive[g] # <<>>
               PROVE  g <= m.retry.gen /\ g <= MaxRounds /\ g <= m.retry.gen + 1 /\ ~(g > m.retry.gen)
    OBVIOUS
  <2>1. g <= m.retry.gen /\ g <= MaxRounds
    BY DEF Fits, IInv, OnDisk
  <2>2. g \in Nat /\ m.retry.gen \in Nat
    BY <1>1 DEF IInv, Types, WorldTypes, Statuses, Retries
  <2> QED
    BY <2>1, <2>2
<1>3. Sound(m)' /\ Earned(m)'
  BY <1>1, SoundGoesOn DEF Fits, Earned, Stages, IInv, Types, WorldTypes, EnvGoesOn
<1>4. Sound(status)' /\ Earned(status)'
  BY <1>3 DEF Sound, Earned
<1>5. OnDisk'
  <2> HIDE DEF Sound, Earned
  <2> QED
    BY <1>1, <1>2, <1>4 DEF OnDisk
<1> QED
  BY <1>1, <1>2, <1>3, <1>5 DEF Fits

LEMMA IdleFacts == Idle \in Runs /\ Idle.pc = "off" /\ ~Idle.dirty
  BY DEF Idle, Runs

LEMMA SaveStatusKeeps ==
  ASSUME IInv, SaveStatus
  PROVE  IInv'
<1>1. /\ run.dirty /\ run.pc # "off" /\ ahead = 1 /\ status' = run.mem /\ ahead' = 0
      /\ UNCHANGED <<rows, archive, plans, config, clock, env>>
  BY DEF SaveStatus, IInv, Saved
<1>2. Fits(run.mem) /\ run \in Runs /\ run.mem \in Statuses /\ EnvGoesOn
  BY <1>1, InHandFacts
<1>3. PICK b : b = run.mem
  OBVIOUS
<1>4. status' \in Statuses /\ OnDisk' /\ Fits(b)' /\ b.binding = "current"
  BY <1>1, <1>2, <1>3, FittingIsKept DEF Fits
<1>5. WorldTypes'
  BY <1>1 DEF IInv, Types, WorldTypes
<1>6. CASE run.pc = "leaving"
  <2>1. run' = Idle
    BY <1>6 DEF SaveStatus
  <2>2. Types' /\ InHand' /\ Saved'
    BY <1>1, <1>4, <1>5, <2>1, IdleFacts DEF Types, InHand, Saved
  <2>3. QuotaParted'
    BY <1>1, <1>6, <2>1, IdleFacts DEF IInv, QuotaParted, QuotaEndIsPartitioned
  <2> QED
    BY <1>4, <2>2, <2>3 DEF IInv
<1>7. CASE run.pc # "leaving"
  <2>1. run' = [run EXCEPT !.dirty = FALSE]
    BY <1>7 DEF SaveStatus
  <2>2. /\ run' \in Runs /\ run'.pc = run.pc /\ run'.mem = b /\ ~run'.dirty
        /\ run'.errs = run.errs /\ run'.task = run.task
    BY <1>2, <1>3, <2>1 DEF Runs
  <2>3. Types'
    BY <1>4, <1>5, <2>2 DEF Types
  <2>4. InHand'
    <3>1. Fits(run.mem)'
      BY <1>4, <2>2 DEF Fits, Earned
    <3>2. /\ run'.pc \in Working => run'.mem.stage <= Len(Stages(run'.mem))
          /\ run'.pc = "worker" => run'.task \in 1..Tasks
      BY <1>1, <1>3, <2>2 DEF IInv, InHand
    <3>3. run'.pc \in {"worker", "report"} => Headroom(b, run.errs)
      BY <1>1, <1>3, <2>2 DEF IInv, InHand
    <3>4. Headroom(run.mem, run.errs)' <=> Headroom(b, run.errs)
      BY <1>1, <2>2 DEF Headroom, Overrides, Planned
    <3> QED
      BY <3>1, <3>2, <3>3, <3>4 DEF InHand
  <2>5. Saved'
    BY <1>1, <1>3, <1>4, <1>7, <2>2 DEF Saved
  <2>6. QuotaParted'
    BY <1>1, <1>7, <2>2 DEF QuotaParted, QuotaEndIsPartitioned
  <2> QED
    BY <1>4, <2>3, <2>4, <2>5, <2>6 DEF IInv
<1> QED
  BY <1>6, <1>7

LEMMA StopInCooldownKeeps ==
  ASSUME IInv, StopInCooldown
  PROVE  IInv'
<1>1. /\ run.pc = "loop" /\ run.pc # "off" /\ run' = Idle
      /\ UNCHANGED <<rows, archive, config, clock, env, ahead>>
  BY DEF StopInCooldown, At, world
<1>2. PICK b : b = run.mem
  OBVIOUS
<1>3. PICK m : m = [b EXCEPT !.state = "cooldown"]
  OBVIOUS
<1>4. Fits(m) /\ m.state = "cooldown"
  <2>1. "cooldown" \in States
    BY DEF States
  <2>2. Fits(b)
    BY <1>1, <1>2, InHandFacts
  <2> QED
    BY <1>3, <2>1, <2>2, OnlyState
<1>5. status' = m
  BY <1>2, <1>3 DEF StopInCooldown
<1>6. status' \in Statuses /\ OnDisk'
  BY <1>1, <1>4, <1>5, InHandFacts, FittingIsKept
<1>7. Types' /\ InHand' /\ Saved'
  BY <1>1, <1>6, IdleFacts DEF IInv, Types, WorldTypes, InHand, Saved
<1>8. QuotaParted'
  BY <1>1, <1>4, <1>5, IdleFacts DEF QuotaParted, QuotaEndIsPartitioned
<1> QED
  BY <1>6, <1>7, <1>8 DEF IInv

\* A status that starts over has nothing to answer for but its failures.
LEMMA ResetFacts ==
  ASSUME NEW s \in Statuses, NEW n, n = Reset(s)
  PROVE  /\ n \in Statuses /\ n.state = "ready" /\ n.stage = 1 /\ n.binding = "current"
         /\ n.attempts = s.attempts /\ n.quarantined = s.quarantined /\ n.contract = s.contract
         /\ n.retry.gen = 0 /\ n.retry.rounds = 0 /\ ~n.partition.ready
<1>1. PICK t : t = NoRetry
  OBVIOUS
<1>2. PICK p : p = NoPartition
  OBVIOUS
<1>3. t \in Retries /\ t.gen = 0 /\ t.rounds = 0 /\ p \in Partitions /\ ~p.ready
  BY <1>1, <1>2 DEF NoRetry, NoPartition, Retries, Partitions, Vectors
<1>4. n = [s EXCEPT !.state = "ready", !.stage = 1, !.cooldown = FALSE, !.retry = t,
                    !.incomplete = FALSE, !.partition = p, !.binding = "current", !.busy = FALSE]
  BY <1>1, <1>2 DEF Reset
<1>5. PICK k : k = [s EXCEPT !.stage = 1, !.cooldown = FALSE, !.incomplete = FALSE, !.busy = FALSE]
  OBVIOUS
<1>6. /\ k \in Statuses /\ k.stage = 1 /\ k.attempts = s.attempts /\ k.quarantined = s.quarantined
      /\ k.contract = s.contract
  <2>1. PICK i \in Nat \ {0} : i = 1
    OBVIOUS
  <2>2. k = [s EXCEPT !.stage = i, !.cooldown = FALSE, !.incomplete = FALSE, !.busy = FALSE]
    BY <1>5, <2>1
  <2>3. k \in Statuses
    BY <2>2 DEF Statuses
  <2> QED
    BY <2>1, <2>2, <2>3 DEF Statuses
<1>7. n = [k EXCEPT !.state = "ready", !.retry = t, !.partition = p, !.binding = "current"]
  BY <1>4, <1>5 DEF Statuses
<1>8. "ready" \in States
  BY DEF States
<1>9. n \in Statuses
  BY <1>3, <1>6, <1>7, <1>8 DEF Statuses
<1> QED
  BY <1>3, <1>6, <1>7, <1>9 DEF Statuses

LEMMA FreshFits ==
  ASSUME NEW n \in Statuses, n.state = "ready", n.stage = 1, n.binding = "current",
         \A k \in Keys : /\ n.attempts[k] <= MaxRetries + 1 + env.overrides
                         /\ k \in n.quarantined <=> n.attempts[k] > MaxRetries,
         n.retry.gen = 0, n.retry.rounds = 0, ~n.partition.ready,
         \A g \in DOMAIN archive : archive[g] = <<>>
  PROVE  Fits(n)
<1>1. ~(n.stage > Len(Stages(n)))
  BY StageFacts
<1>2. Sound(n) /\ Earned(n)
  <2> HIDE DEF Stages
  <2> QED
    BY <1>1, Constants DEF Sound, Earned
<1> QED
  BY <1>2 DEF Fits

\* A status of the current binding takes over the rounds it finds in the archive.
LEMMA RecoveredFits ==
  ASSUME IInv, status.binding = "current", NEW o, o = Recovered(status)
  PROVE  Fits(o) /\ (o = status \/ (o.state = "quality_retry_ready" /\ o.retry.gen # status.retry.gen))
<1>1. /\ status \in Statuses /\ Sound(status) /\ Earned(status) /\ WorldTypes
      /\ \A g \in DOMAIN archive : archive[g] # <<>> =>
           /\ g <= MaxRounds
           /\ g > status.retry.gen => status.stage <= Len(Stages(status))
  BY DEF IInv, Types, OnDisk
<1>2. /\ status.retry \in Retries /\ status.retry.gen \in Nat /\ status.partition \in Partitions
      /\ status.stage \in Nat
  BY <1>1 DEF Statuses, Retries
<1>3. PICK n : n = LatestArchive
  OBVIOUS
<1>4. /\ n \in Nat
      /\ \A g \in DOMAIN archive : g \in Nat /\ (archive[g] # <<>> => g <= n)
      /\ n > 0 => n \in DOMAIN archive /\ archive[n] # <<>>
  BY <1>1, <1>3, LatestFacts, Constants DEF WorldTypes
<1>5. CASE n > status.retry.gen
  <2>1. n > 0 /\ n <= MaxRounds /\ status.stage <= Len(Stages(status))
    BY <1>1, <1>2, <1>4, <1>5
  <2>2. PICK t : t = [state |-> "ready", gen |-> n, rounds |-> n - 1,
                      stagnant |-> status.retry.stagnant, before |-> status.partition.deficits]
    OBVIOUS
  <2>3. t \in Retries /\ t.gen = n /\ t.rounds = n - 1
    BY <1>2, <1>4, <2>1, <2>2 DEF Retries, Partitions
  <2>4. o = [status EXCEPT !.retry = t, !.incomplete = TRUE, !.state = "quality_retry_ready"]
    BY <1>3, <1>5, <2>2 DEF Recovered
  <2>5. /\ o \in Statuses /\ o.state = "quality_retry_ready" /\ o.stage = status.stage
        /\ o.quarantined = status.quarantined /\ o.attempts = status.attempts
        /\ o.binding = status.binding /\ o.contract = status.contract
        /\ o.partition = status.partition /\ o.retry = t
    BY <1>1, <2>3, <2>4 DEF Statuses, States
  <2>6. ~(o.stage > Len(Stages(o)))
    <3>1. Len(Stages(status)) \in Nat
      BY <1>1, StageFacts
    <3> QED
      BY <1>2, <2>1, <2>5, <3>1 DEF Stages
  <2>7. Sound(o) /\ Earned(o)
    BY <1>1, <1>4, <2>1, <2>3, <2>5, <2>6 DEF Sound, Earned
  <2>8. Fits(o)
    BY <1>4, <2>3, <2>5, <2>7 DEF Fits
  <2>9. o.retry.gen # status.retry.gen
    BY <1>2, <1>4, <1>5, <2>3, <2>5
  <2> QED
    BY <2>5, <2>8, <2>9
<1>6. CASE ~(n > status.retry.gen)
  <2>1. o = status
    BY <1>3, <1>6 DEF Recovered
  <2>2. \A g \in DOMAIN archive : archive[g] # <<>> => g <= status.retry.gen
    BY <1>2, <1>4, <1>6
  <2> QED
    BY <1>1, <2>1, <2>2 DEF Fits
<1> QED
  BY <1>5, <1>6

LEMMA InEpochFacts ==
  ASSUME NEW o, Fits(o), NEW m, m = InEpoch(o), config.epoch \in Nat
  PROVE  /\ Fits(m) /\ m.retry = o.retry
         /\ m = o \/ m.state \in {"running", "complete"}
<1>1. o \in Statuses
  BY DEF Fits
<1>2. CASE o.epoch.id = config.epoch
  BY <1>2 DEF InEpoch
<1>3. CASE o.epoch.id # config.epoch
  <2>1. PICK s : s = IF o.state = "complete" THEN "complete" ELSE "running"
    OBVIOUS
  <2>2. PICK e : e = FreshEpoch(config.epoch)
    OBVIOUS
  <2>3. e \in Epochs
    BY <2>2 DEF FreshEpoch, Epochs
  <2>4. m = [o EXCEPT !.epoch = e, !.cooldown = FALSE, !.state = s]
    BY <1>1, <1>3, <2>1, <2>2 DEF InEpoch, Statuses
  <2>5. s \in States
    BY <2>1 DEF States, Terminal
  <2>6. /\ m \in Statuses /\ m.state = s /\ m.stage = o.stage /\ m.quarantined = o.quarantined
        /\ m.attempts = o.attempts /\ m.binding = o.binding /\ m.contract = o.contract
        /\ m.retry = o.retry /\ m.partition = o.partition /\ m.incomplete = o.incomplete
    BY <1>1, <2>3, <2>4, <2>5 DEF Statuses
  <2>7. m.state = "complete" => m.stage > Len(Stages(m))
    BY <2>1, <2>6 DEF Fits, Sound, Stages
  <2>8. \A k \in Keys : /\ m.attempts[k] <= MaxRetries + 1 + env.overrides
                        /\ k \in m.quarantined <=> m.attempts[k] > MaxRetries
    BY <2>6 DEF Fits, Sound
  <2>9. Fits(m)
    <3> HIDE DEF Stages
    <3> QED
      BY <2>6, <2>7, <2>8, Restated
  <2> QED
    BY <2>1, <2>6, <2>9
<1> QED
  BY <1>2, <1>3

\* Every way a process takes over what it finds gives a copy that fits.
LEMMA MigratedFits ==
  ASSUME IInv, status.binding # "current", NEW o, o = Migrated(status)
  PROVE  Fits(o) /\ o.state = "ready"
<1>1. /\ status \in Statuses /\ status.binding \in {"schema1", "binding1"} /\ config.epoch \in Nat /\ env.overrides \in Nat
      /\ \A g \in DOMAIN archive : archive[g] = <<>>
      /\ \A k \in Keys : /\ status.attempts[k] <= MaxRetries + 1 + env.overrides
                         /\ k \in status.quarantined <=> status.attempts[k] > MaxRetries
  BY DEF IInv, Types, OnDisk, WorldTypes, Statuses, Sound, EnvTypes
<1>2. PICK k : k = Reset(status)
  OBVIOUS
<1>3. /\ k \in Statuses /\ k.state = "ready" /\ k.stage = 1 /\ k.binding = "current"
      /\ k.attempts = status.attempts /\ k.quarantined = status.quarantined
      /\ k.retry.gen = 0 /\ k.retry.rounds = 0 /\ ~k.partition.ready
  BY <1>1, <1>2, ResetFacts
<1>4. CASE status.binding = "binding1"
  <2>1. o = k
    BY <1>2, <1>4 DEF Migrated
  <2> QED
    BY <1>1, <1>3, <2>1, FreshFits
<1>5. CASE status.binding = "schema1"
  <2>1. PICK e : e = FreshEpoch(config.epoch)
    OBVIOUS
  <2>2. PICK a \in [Keys -> Nat] : a = [x \in Keys |-> 0]
    OBVIOUS
  <2>3. o = [k EXCEPT !.epoch = e, !.attempts = a, !.quarantined = {}]
    BY <1>2, <1>5, <2>1, <2>2 DEF Migrated
  <2>4. e \in Epochs
    BY <1>1, <2>1 DEF FreshEpoch, Epochs
  <2>5. /\ o \in Statuses /\ o.state = "ready" /\ o.stage = 1 /\ o.binding = "current"
        /\ o.attempts = a /\ o.quarantined = {} /\ o.retry = k.retry /\ o.partition = k.partition
    BY <1>3, <2>3, <2>4 DEF Statuses
  <2>6. \A x \in Keys : /\ o.attempts[x] <= MaxRetries + 1 + env.overrides
                        /\ x \in o.quarantined <=> o.attempts[x] > MaxRetries
    BY <1>1, <2>2, <2>5, Constants
  <2> QED
    BY <1>1, <1>3, <2>5, <2>6, FreshFits
<1> QED
  BY <1>1, <1>4, <1>5

LEMMA StartKeeps ==
  ASSUME IInv, NEW wait \in BOOLEAN, Start(wait)
  PROVE  IInv'
<1>1. /\ run.pc = "off" /\ status \in Statuses /\ clock \in Nat /\ config.epoch \in Nat
      /\ env \in EnvTypes
      /\ UNCHANGED <<rows, config, env>>
  BY DEF Start, IInv, Types, WorldTypes
<1>2. PICK o : o = IF status.binding = "current" THEN Recovered(status) ELSE Migrated(status)
  OBVIOUS
<1>3. Fits(o) /\ (o = status \/ o.state \in {"quality_retry_ready", "ready"})
  BY <1>2, MigratedFits, RecoveredFits
<1>4. PICK m : m = InEpoch(o)
  OBVIOUS
<1>5. Fits(m) /\ (m = o \/ m.state \in {"running", "complete"})
  BY <1>1, <1>3, <1>4, InEpochFacts
<1>6. PICK over \in BOOLEAN : over <=> m.state \in Terminal
  OBVIOUS
<1>7. PICK begun : begun = IF over THEN m
                           ELSE [m EXCEPT !.state = IF @ = "cooldown" THEN @ ELSE "running"]
  OBVIOUS
<1>8. PICK r : r = [Idle EXCEPT !.pc = IF over THEN "leaving" ELSE "loop", !.wait = wait]
  OBVIOUS
<1>9. /\ archive' = IF Archived(status) THEN [g \in DOMAIN archive |-> <<>>] ELSE archive
      /\ begun # status /\ Event(begun, r)
      /\ clock' = IF run'.mem.cooldown THEN clock ELSE 0
  <2>1. status.binding = "current" => Migrated(status) = status
    BY <1>1 DEF Migrated, Statuses
  <2>2. m = IF Archived(status) \/ status.binding = "schema1"
            THEN InEpoch(Migrated(status)) ELSE InEpoch(Recovered(Migrated(status)))
    BY <1>1, <1>2, <1>4, <2>1 DEF Archived, Statuses
  <2> QED
    BY <1>6, <1>7, <1>8, <2>2 DEF Start
<1>10. UNCHANGED archive
  BY <1>9 DEF Archived, IInv, OnDisk, Types, WorldTypes
<1>11. clock' \in Nat /\ EnvGoesOn
  BY <1>1, <1>9 DEF EnvGoesOn, EnvTypes
<1>12. Fits(begun) /\ (over => begun = m)
  <2>1. PICK s : s = IF m.state = "cooldown" THEN m.state ELSE "running"
    OBVIOUS
  <2>2. s \in States /\ s # "complete"
    BY <2>1 DEF States
  <2>3. ~over => begun = [m EXCEPT !.state = s]
    BY <1>7, <2>1, <1>5 DEF Fits, Statuses
  <2>4. ~over => Fits(begun)
    BY <1>5, <2>2, <2>3, OnlyState
  <2> QED
    BY <1>5, <1>7, <2>4
<1>13. /\ r \in Runs /\ r.pc = (IF over THEN "leaving" ELSE "loop") /\ r.pc \notin Working
  BY <1>8 DEF Idle, Runs, Working
<1>14. r.pc = "leaving" => begun.state # "provider_quota_exhausted"
  BY <1>3, <1>5, <1>9, <1>12, <1>13
<1> QED
  BY <1>1, <1>9, <1>10, <1>11, <1>12, <1>13, <1>14, PlainEventKeeps DEF Working

LEMMA ResumeKeeps ==
  ASSUME IInv, NEW wait \in BOOLEAN, Resume(wait)
  PROVE  IInv'
<1>1. /\ run.pc = "off" /\ status \in Statuses /\ status.binding = "current" /\ config.epoch \in Nat
      /\ status.state \in {"running", "cooldown"}
      /\ UNCHANGED <<status, ahead, rows, archive, config, clock, env>> /\ EnvGoesOn
      /\ run' = [Idle EXCEPT !.pc = "loop", !.wait = wait, !.mem = status]
  BY DEF Resume, IInv, Types, WorldTypes, EnvGoesOn, EnvTypes
<1>2. PICK o : o = Recovered(status)
  OBVIOUS
<1>3. Fits(o) /\ (o = status \/ o.retry.gen # status.retry.gen)
  BY <1>1, <1>2, RecoveredFits
<1>4. status = InEpoch(o)
  BY <1>2 DEF Resume
<1>5. Fits(status)
  BY <1>1, <1>3, <1>4, InEpochFacts
<1>6. /\ run' \in Runs /\ run'.pc = "loop" /\ run'.mem = status /\ ~run'.dirty
  BY <1>1 DEF Idle, Runs
<1>7. Types'
  BY <1>1, <1>6 DEF IInv, Types, WorldTypes
<1>8. OnDisk'
  BY <1>1, OnDiskKept DEF IInv
<1>9. Fits(run.mem)'
  BY <1>1, <1>5, <1>6 DEF Fits, Sound, Earned, Stages, Whole
<1>10. InHand' /\ Saved' /\ QuotaParted'
  BY <1>1, <1>6, <1>9 DEF InHand, Working, IInv, Saved, QuotaParted, QuotaEndIsPartitioned
<1> QED
  BY <1>7, <1>8, <1>10 DEF IInv

------------------------------------------------------------------------------
(* Around the runner *)

\* A step that leaves the files and the process alone.
LEMMA QuietKeeps ==
  ASSUME IInv, UNCHANGED <<status, ahead, rows, archive, plans, run, env>>, WorldTypes',
         config'.policy = config.policy
  PROVE  IInv'
<1>1. env \in EnvTypes /\ EnvGoesOn
  BY DEF IInv, Types, WorldTypes, EnvTypes, EnvGoesOn
<1>2. Types' /\ OnDisk' /\ Saved' /\ QuotaParted'
  BY <1>1, OnDiskKept DEF IInv, Types, Saved, QuotaParted, QuotaEndIsPartitioned
<1>3. InHand'
  <2>1. run.pc # "off" => Fits(run.mem)'
    BY DEF IInv, InHand, Fits, Sound, Earned, Stages, Whole
  <2>2. Headroom(run.mem, run.errs) <=> Headroom(run.mem, run.errs)'
    BY DEF Headroom, Overrides, Planned
  <2> QED
    BY <2>1, <2>2 DEF IInv, InHand, Stages
<1> QED
  BY <1>2, <1>3 DEF IInv

LEMMA TimeKeeps ==
  ASSUME IInv, Tick \/ NewQuotaEpoch \/ UNCHANGED vars
  PROVE  IInv'
<1>1. WorldTypes
  BY DEF IInv, Types
<1>2. CASE Tick
  BY <1>1, <1>2, QuietKeeps DEF Tick, WorldTypes
<1>3. CASE NewQuotaEpoch
  BY <1>1, <1>3, QuietKeeps DEF NewQuotaEpoch, WorldTypes
<1>4. CASE UNCHANGED vars
  BY <1>1, <1>4, QuietKeeps DEF vars, WorldTypes
<1> QED
  BY <1>2, <1>3, <1>4

LEMMA CrashKeeps ==
  ASSUME IInv, Crash
  PROVE  IInv'
<1>1. /\ run' = Idle /\ UNCHANGED <<status, ahead, rows, archive, config, clock>>
      /\ env' = [env EXCEPT !.crashes = @ + 1,
                            !.lost = @ \/ status.state = "provider_quota_exhausted"]
  BY DEF Crash
<1>2. /\ EnvGoesOn /\ env' \in EnvTypes
      /\ status.state = "provider_quota_exhausted" => env'.lost
  <2>1. PICK lost \in BOOLEAN : lost <=> env.lost \/ status.state = "provider_quota_exhausted"
    OBVIOUS
  <2>2. PICK n : n = env.crashes + 1
    OBVIOUS
  <2>3. env \in EnvTypes /\ n \in Nat
    BY <2>2 DEF IInv, Types, WorldTypes, EnvTypes
  <2>4. lost = (env.lost \/ status.state = "provider_quota_exhausted")
    BY <2>1, <2>3 DEF EnvTypes
  <2>5. env' = [env EXCEPT !.crashes = n, !.lost = lost]
    BY <1>1, <2>2, <2>4
  <2>6. /\ env' \in EnvTypes /\ env'.lost = lost /\ env'.overrides = env.overrides
        /\ env'.undone = env.undone /\ env.overrides \in Nat
    BY <2>3, <2>5 DEF EnvTypes
  <2> QED
    BY <2>1, <2>6 DEF EnvGoesOn
<1>3. Types' /\ OnDisk'
  <2>1. OnDisk'
    BY <1>1, <1>2, OnDiskKept DEF IInv
  <2>2. run' \in Runs /\ WorldTypes'
    BY <1>1, <1>2, IdleFacts DEF IInv, Types, WorldTypes
  <2> QED
    BY <1>1, <2>1, <2>2 DEF IInv, Types
<1>4. InHand' /\ Saved' /\ QuotaParted'
  BY <1>1, <1>2, IdleFacts DEF IInv, InHand, Saved, QuotaParted, QuotaEndIsPartitioned
<1> QED
  BY <1>3, <1>4 DEF IInv

\* The operator works while nothing runs, on a status of the current binding.
LEMMA OfflineKeeps ==
  ASSUME IInv, run.pc = "off", UNCHANGED run, ahead' \in {0, 1}, WorldTypes',
         NEW m \in Statuses, status' = m, OnDisk',
         m.state = "provider_quota_exhausted" /\ config'.policy = "collect" =>
           m.partition.made /\ m.partition.rows = rows'
  PROVE  IInv'
<1>1. ~run.dirty /\ run \in Runs
  BY DEF IInv, Saved, Types
<1>2. Types' /\ InHand' /\ Saved'
  BY <1>1 DEF Types, InHand, Saved
<1>3. QuotaParted'
  BY DEF QuotaParted, QuotaEndIsPartitioned
<1> QED
  BY <1>2, <1>3 DEF IInv

\* What the disk says of a status of the current binding.
LEMMA OnDiskFacts ==
  ASSUME IInv, status.binding = "current"
  PROVE  /\ status \in Statuses /\ WorldTypes /\ Sound(status) /\ Earned(status)
         /\ status.retry \in Retries /\ status.retry.gen \in Nat /\ status.retry.rounds \in Nat
         /\ \A g \in DOMAIN archive : g \in Nat
         /\ \A g \in DOMAIN archive : archive[g] # <<>> =>
              /\ g <= status.retry.gen + 1 /\ g <= MaxRounds
              /\ g > status.retry.gen => status.stage <= Len(Stages(status))
         /\ ahead \in {0, 1}
<1>1. status \in Statuses /\ WorldTypes /\ Sound(status) /\ Earned(status) /\ ahead \in {0, 1}
  BY DEF IInv, Types, OnDisk, Saved
<1>2. status.retry \in Retries /\ status.retry.gen \in Nat /\ status.retry.rounds \in Nat
  BY <1>1 DEF Statuses, Retries
<1>3. \A g \in DOMAIN archive : g \in Nat
  BY <1>1 DEF WorldTypes
<1>4. \A g \in DOMAIN archive : archive[g] # <<>> =>
        /\ g <= status.retry.gen + 1 /\ g <= MaxRounds
        /\ g > status.retry.gen => status.stage <= Len(Stages(status))
  BY DEF IInv, OnDisk
<1> QED
  BY <1>1, <1>2, <1>3, <1>4

LEMMA PartitionOnlyKeeps ==
  ASSUME IInv, PartitionOnly
  PROVE  IInv'
<1>1. /\ run.pc = "off" /\ status.binding = "current"
      /\ UNCHANGED <<ahead, rows, archive, run, config, clock>>
      /\ env' = [env EXCEPT !.offline = @ + 1]
  BY DEF PartitionOnly, Offline, Counted
<1>2. /\ status \in Statuses /\ WorldTypes /\ rows \in RowSets /\ Sound(status) /\ ahead \in {0, 1}
      /\ Earned(status) /\ EnvGoesOn /\ env \in EnvTypes
  BY <1>1, OnDiskFacts DEF WorldTypes, EnvTypes, EnvGoesOn
<1>3. PICK p : p = PartitionOf(rows, status, LastTarget(status))
  OBVIOUS
<1>4. /\ p \in Partitions /\ p.made /\ p.rows = rows
      /\ p.ready <=> Cardinality(Whole(rows)) >= Contracts[status.contract].minimum
  BY <1>1, <1>2, <1>3, PartitionFacts, StageFacts
<1>5. PICK m : m = [status EXCEPT !.partition = p]
  OBVIOUS
<1>6. status' = m
  BY <1>3, <1>5 DEF PartitionOnly
<1>7. /\ m \in Statuses /\ m.partition = p /\ m.state = status.state /\ m.stage = status.stage
      /\ m.quarantined = status.quarantined /\ m.attempts = status.attempts
      /\ m.binding = status.binding /\ m.contract = status.contract /\ m.retry = status.retry
      /\ m.incomplete = status.incomplete
  BY <1>2, <1>4, <1>5 DEF Statuses
<1>8. Stages(m) = Stages(status)
  BY <1>7 DEF Stages
<1> HIDE DEF Stages
\* Past the last stage it is the partition of the same rows, and they have not changed.
<1>9. Sound(m) /\ Earned(m)
  <2>1. Sound(m)
    BY <1>2, <1>4, <1>7, <1>8 DEF Sound
  <2>2. Earned(m)
    BY <1>2, <1>4, <1>7, <1>8 DEF Earned, Sound
  <2> QED
    BY <2>1, <2>2
<1>10. Sound(m)' /\ Earned(m)'
  <2>1. Sound(m)'
    BY <1>2, <1>7, <1>9, SoundGoesOn
  <2> QED
    BY <1>1, <1>2, <1>9, <2>1 DEF Earned, Stages, EnvGoesOn
<1>11. Sound(status)' /\ Earned(status)'
  BY <1>6, <1>10 DEF Sound, Earned, Stages
<1>12. OnDisk'
  <2>1. status'.stage = status.stage /\ Stages(status)' = Stages(status)
    BY <1>6, <1>7 DEF Stages
  <2> HIDE DEF Sound, Earned
  <2> QED
    BY <1>1, <1>6, <1>7, <1>11, <2>1, OnDiskFacts DEF OnDisk
<1>13. WorldTypes'
  BY <1>1, <1>2 DEF WorldTypes, EnvGoesOn
<1> HIDE DEF OnDisk, WorldTypes
<1> QED
  BY <1>1, <1>2, <1>4, <1>6, <1>7, <1>12, <1>13, OfflineKeeps

\* An offline round archives before it writes, and the operator finds both or neither.
LEMMA PrepareOfflineKeeps ==
  ASSUME IInv, PrepareOffline
  PROVE  IInv'
<1>1. /\ run.pc = "off" /\ status.binding = "current" /\ Completed(status.retry) < MaxRounds
      /\ ~status.partition.ready /\ UNCHANGED <<run, config, clock>>
      /\ env' = [env EXCEPT !.offline = @ + 1] /\ ahead' = 0
      /\ status' = Prepared(status, Completed(status.retry))
  BY DEF PrepareOffline, Offline, Counted, Write
<1>2. /\ status \in Statuses /\ WorldTypes /\ Sound(status) /\ Earned(status)
      /\ status.retry.gen \in Nat /\ status.retry.rounds \in Nat /\ \A g \in DOMAIN archive : g \in Nat
      /\ \A g \in DOMAIN archive : archive[g] # <<>> =>
           /\ g <= status.retry.gen + 1 /\ g <= MaxRounds
           /\ g > status.retry.gen => status.stage <= Len(Stages(status))
  BY <1>1, OnDiskFacts
<1>3. env \in EnvTypes /\ EnvGoesOn
  BY <1>1, <1>2 DEF WorldTypes, EnvTypes, EnvGoesOn
<1>4. PICK b : b = status
  OBVIOUS
<1>5. b.retry.rounds <= b.retry.gen /\ b.retry.gen <= b.retry.rounds + 1
  BY <1>2, <1>4 DEF Sound
<1>6. PICK n : n = Completed(b.retry)
  OBVIOUS
<1>7. n \in Nat /\ n < MaxRounds /\ b.retry.gen <= n + 1 /\ n <= b.retry.gen
  BY <1>1, <1>2, <1>4, <1>6, <1>5 DEF Completed
<1>8. PICK m : m = Prepared(b, n)
  OBVIOUS
<1>9. /\ m \in Statuses /\ m.state = "quality_retry_ready" /\ m.stage = b.stage
      /\ m.quarantined = b.quarantined /\ m.attempts = b.attempts /\ m.binding = b.binding
      /\ m.contract = b.contract /\ m.partition = b.partition
      /\ m.retry.gen = n + 1 /\ m.retry.rounds = n /\ n + 1 \in 1..MaxRounds
  BY <1>2, <1>4, <1>7, <1>8, PreparedFacts
<1>10. PICK g \in 1..MaxRounds : g = n + 1
  BY <1>9
<1>11. Archive(b, g)
  BY <1>4, <1>6, <1>10 DEF PrepareOffline
<1>12. /\ rows' \in RowSets
       /\ archive' \in [1..(MaxRounds + 1) -> RowSets \cup {<<>>}]
       /\ \A h \in DOMAIN archive' : archive'[h] # <<>> => archive[h] # <<>> \/ h = g
       /\ DOMAIN archive' = DOMAIN archive
  BY <1>2, <1>11, ArchiveFacts
<1>13. WorldTypes'
  BY <1>1, <1>2, <1>3, <1>12 DEF WorldTypes, EnvGoesOn
<1>14. Stages(m) = Stages(b) /\ b.stage \in Nat /\ Len(Stages(b)) \in Nat
  BY <1>2, <1>4, <1>9, StageFacts DEF Stages, Statuses
<1> HIDE DEF Stages
<1>15. config.policy = "collect" /\ ~env.undone => ~(b.stage > Len(Stages(b)))
  BY <1>1, <1>2, <1>4 DEF Earned
<1>16. \A h \in DOMAIN archive' : archive'[h] # <<>> =>
         /\ h <= m.retry.gen + 1 /\ h <= MaxRounds
         /\ h > m.retry.gen => m.stage <= Len(Stages(m))
  <2> SUFFICES ASSUME NEW h \in DOMAIN archive', archive'[h] # <<>>
               PROVE  /\ h <= m.retry.gen + 1 /\ h <= MaxRounds
                      /\ h > m.retry.gen => m.stage <= Len(Stages(m))
    OBVIOUS
  <2>1. h \in Nat /\ m.retry.gen = g
    BY <1>2, <1>9, <1>10, <1>12
  <2>2. CASE h = g
    BY <2>1, <2>2, Constants
  <2>3. CASE archive[h] # <<>>
    <3>1. /\ h <= b.retry.gen + 1 /\ h <= MaxRounds
          /\ h > b.retry.gen => b.stage <= Len(Stages(b))
      BY <1>2, <1>4, <1>12, <2>3
    <3> QED
      BY <1>2, <1>4, <1>7, <1>9, <1>10, <1>14, <2>1, <3>1
  <2> QED
    BY <1>12, <2>2, <2>3
<1>17. Sound(m) /\ Earned(m)
  BY <1>2, <1>4, <1>7, <1>9, <1>14, <1>15, Constants DEF Sound, Earned
<1>18. Sound(status)' /\ Earned(status)'
  <2>1. Sound(m)' /\ Earned(m)'
    <3>1. Sound(m)'
      BY <1>3, <1>9, <1>17, SoundGoesOn
    <3> QED
      BY <1>1, <1>3, <1>9, <1>14, <1>15, <3>1 DEF Earned, Stages, EnvGoesOn
  <2> QED
    BY <1>1, <1>4, <1>6, <1>8, <2>1 DEF Sound, Earned, Stages
<1>19. OnDisk'
  <2>1. status' = m /\ Stages(status)' = Stages(m) /\ m.binding = "current"
    BY <1>1, <1>4, <1>6, <1>8, <1>9 DEF Stages
  <2>2. \A h \in DOMAIN archive' : archive'[h] # <<>> =>
         /\ h <= status'.retry.gen + 1 /\ h <= MaxRounds
         /\ h > status'.retry.gen => status'.stage <= Len(Stages(status)')
    BY <1>16, <2>1
  <2> HIDE DEF Sound, Earned
  <2> QED
    BY <1>18, <2>1, <2>2 DEF OnDisk
<1> HIDE DEF OnDisk, WorldTypes
<1> QED
  BY <1>1, <1>4, <1>6, <1>8, <1>9, <1>13, <1>19, OfflineKeeps

\* A restore brings the archived rows back and keeps the stage and the partition.
LEMMA RestoreOfflineKeeps ==
  ASSUME IInv, RestoreOffline
  PROVE  IInv'
<1>1. /\ run.pc = "off" /\ status.binding = "current"
      /\ status.retry.gen > 0 /\ status.retry.gen = LatestArchive
      /\ rows' = archive[status.retry.gen] /\ UNCHANGED <<archive, run, config, clock>>
      /\ env' = [env EXCEPT !.offline = @ + 1,
                            !.undone = @ \/ status.stage > Len(Stages(status))]
      /\ ahead' = 0
  BY DEF RestoreOffline, Offline, Write
<1>2. /\ status \in Statuses /\ WorldTypes /\ Sound(status) /\ Earned(status)
      /\ status.retry \in Retries
      /\ \A g \in DOMAIN archive : archive[g] # <<>> =>
           /\ g <= status.retry.gen + 1 /\ g <= MaxRounds
           /\ g > status.retry.gen => status.stage <= Len(Stages(status))
  BY <1>1, OnDiskFacts
<1>3. rows' \in RowSets
  <2>1. PICK n : n = LatestArchive
    OBVIOUS
  <2>2. n \in DOMAIN archive /\ archive[n] # <<>> /\ rows' = archive[n]
    BY <1>1, <1>2, <2>1, LatestFacts
  <2> QED
    BY <1>2, <2>2 DEF WorldTypes
<1>4. PICK t : t = [status.retry EXCEPT !.state = "restored"]
  OBVIOUS
<1>5. PICK m : m = [status EXCEPT !.retry = t, !.incomplete = FALSE, !.state = "gate_blocked"]
  OBVIOUS
<1>6. status' = m
  <2>1. m = [status EXCEPT !.retry.state = "restored", !.incomplete = FALSE, !.state = "gate_blocked"]
    BY <1>2, <1>4, <1>5 DEF Statuses
  <2> QED
    BY <2>1 DEF RestoreOffline, Write
<1>7. /\ t \in Retries /\ t.gen = status.retry.gen /\ t.rounds = status.retry.rounds
      /\ t.state = "restored"
  BY <1>2, <1>4 DEF Retries
<1>8. /\ m \in Statuses /\ m.state = "gate_blocked" /\ m.stage = status.stage
      /\ m.quarantined = status.quarantined /\ m.attempts = status.attempts
      /\ m.binding = status.binding /\ m.contract = status.contract
      /\ m.partition = status.partition /\ m.retry = t /\ ~m.incomplete
  BY <1>2, <1>5, <1>7 DEF Statuses, States, Terminal
<1>9. Stages(m) = Stages(status)
  BY <1>8 DEF Stages
<1> HIDE DEF Stages
<1>10. /\ env \in EnvTypes /\ env' \in EnvTypes /\ env'.overrides = env.overrides
       /\ status.stage > Len(Stages(status)) => env'.undone
  <2>1. PICK undone \in BOOLEAN : undone <=> env.undone \/ status.stage > Len(Stages(status))
    OBVIOUS
  <2>2. env \in EnvTypes
    BY <1>2 DEF WorldTypes
  <2>3. PICK n \in Nat : n = env.offline + 1
    BY <2>2 DEF EnvTypes
  <2>4. status.stage \in Nat /\ Len(Stages(status)) \in Nat
    BY <1>2, StageFacts DEF Statuses
  <2>5. undone = (env.undone \/ status.stage > Len(Stages(status)))
    BY <2>1, <2>2, <2>4 DEF EnvTypes
  <2>6. env' = [env EXCEPT !.offline = n, !.undone = undone]
    BY <1>1, <2>3, <2>5
  <2> QED
    BY <2>1, <2>2, <2>6 DEF EnvTypes
<1>11. Sound(status)' /\ Earned(status)'
  <2>1. Sound(m)
    BY <1>2, <1>7, <1>8, <1>9 DEF Sound
  <2>2. Sound(m)'
    BY <1>10, <2>1 DEF Sound, Whole, Stages
\* Past the last stage the restored rows are not looked at again.
  <2>3. Earned(m)'
    BY <1>8, <1>9, <1>10 DEF Earned, Stages
  <2> QED
    BY <1>6, <2>2, <2>3 DEF Sound, Earned, Stages
<1>12. OnDisk'
  <2>1. Stages(status)' = Stages(status)
    BY <1>6, <1>9 DEF Stages
  <2> HIDE DEF Sound, Earned
  <2> QED
    BY <1>1, <1>2, <1>6, <1>7, <1>8, <1>11, <2>1 DEF OnDisk
<1>13. WorldTypes'
  BY <1>1, <1>2, <1>3, <1>10 DEF WorldTypes
<1> HIDE DEF OnDisk, WorldTypes
<1> QED
  BY <1>1, <1>6, <1>8, <1>12, <1>13, OfflineKeeps

\* A larger contract starts over, with its failures and without its rounds.
LEMMA ExpandKeeps ==
  ASSUME IInv, Expand
  PROVE  IInv'
<1>1. /\ run.pc = "off" /\ status.binding = "current" /\ config.contract < Len(Contracts)
      /\ config' = [config EXCEPT !.contract = @ + 1]
      /\ status' = [Reset(status) EXCEPT !.contract = config.contract + 1]
      /\ archive' = [g \in DOMAIN archive |-> <<>>]
      /\ env' = [env EXCEPT !.offline = @ + 1, !.undone = FALSE]
      /\ UNCHANGED <<ahead, rows, run, clock>>
  BY DEF Expand, Offline
<1>2. status \in Statuses /\ WorldTypes /\ Sound(status) /\ ahead \in {0, 1}
  BY <1>1, OnDiskFacts
<1>3. PICK c \in 1..Len(Contracts) : c = config.contract + 1
  BY <1>1, <1>2, Constants DEF WorldTypes
<1>4. PICK k : k = Reset(status)
  OBVIOUS
<1>5. PICK m : m = [k EXCEPT !.contract = c]
  OBVIOUS
<1>6. status' = m
  BY <1>1, <1>3, <1>4, <1>5
<1>7. /\ k \in Statuses /\ k.state = "ready" /\ k.stage = 1 /\ k.binding = "current"
      /\ k.attempts = status.attempts /\ k.quarantined = status.quarantined
      /\ k.retry.gen = 0 /\ k.retry.rounds = 0 /\ ~k.partition.ready
  BY <1>2, <1>4, ResetFacts
<1>8. /\ m \in Statuses /\ m.state = "ready" /\ m.stage = 1 /\ m.binding = "current"
      /\ m.attempts = status.attempts /\ m.quarantined = status.quarantined
      /\ m.retry.gen = 0 /\ m.retry.rounds = 0 /\ ~m.partition.ready
  BY <1>5, <1>7 DEF Statuses
<1>9. ~(m.stage > Len(Stages(m)))
  BY <1>8, StageFacts
<1> HIDE DEF Stages
<1>10. env \in EnvTypes /\ env' \in EnvTypes /\ env'.overrides = env.overrides
  <2>1. PICK n \in Nat : n = env.offline + 1
    BY <1>2 DEF WorldTypes, EnvTypes
  <2>2. env' = [env EXCEPT !.offline = n, !.undone = FALSE]
    BY <1>1, <2>1
  <2> QED
    BY <1>2, <2>2 DEF WorldTypes, EnvTypes
<1>11. Sound(status)' /\ Earned(status)'
  <2>1. Sound(m)' /\ Earned(m)'
    BY <1>2, <1>8, <1>9, <1>10, Constants DEF Sound, Earned, Stages
  <2> QED
    BY <1>6, <2>1 DEF Sound, Earned, Stages
<1>12. \A g \in DOMAIN archive' : archive'[g] = <<>>
  BY <1>1
<1>13. OnDisk'
  <2> HIDE DEF Sound, Earned
  <2> QED
    BY <1>6, <1>8, <1>11, <1>12 DEF OnDisk
<1>14. WorldTypes'
  <2>1. /\ archive' \in [1..(MaxRounds + 1) -> RowSets \cup {<<>>}]
        /\ config' \in [policy : {"collect", "gate"}, contract : 1..Len(Contracts), epoch : Nat]
    BY <1>1, <1>2, <1>3 DEF WorldTypes
  <2> QED
    BY <1>1, <1>2, <1>10, <2>1 DEF WorldTypes
<1> HIDE DEF OnDisk, WorldTypes
<1> QED
  BY <1>1, <1>2, <1>6, <1>8, <1>13, <1>14, OfflineKeeps

------------------------------------------------------------------------------
(* The invariant *)

LEMMA InitIInv == Init => IInv
<1> SUFFICES ASSUME Init PROVE IInv
  OBVIOUS
<1>1. PICK b \in Bindings, s \in {"ready", "gate_blocked", "complete"} :
        /\ s # "ready" => b # "current"
        /\ status = [FreshStatus(config) EXCEPT !.binding = b, !.state = s]
  BY DEF Init
<1>2. /\ config \in [policy : Policies, contract : {1}, epoch : {1}]
      /\ ahead = 0 /\ rows = Empty /\ archive = [g \in 1..(MaxRounds + 1) |-> <<>>]
      /\ run = Idle /\ clock = 0
      /\ env = [crashes |-> 0, limits |-> 0, offline |-> 0, lost |-> FALSE, undone |-> FALSE,
                overrides |-> 0]
  BY DEF Init
<1>3. WorldTypes
  <2>1. rows \in RowSets
    BY <1>2 DEF Empty, RowSets
  <2>2. config \in [policy : {"collect", "gate"}, contract : 1..Len(Contracts), epoch : Nat]
    <3>1. PICK i \in 1..Len(Contracts) : i = 1
      BY Constants
    <3>2. PICK p \in {"collect", "gate"} : config = [policy |-> p, contract |-> 1, epoch |-> 1]
      BY <1>2, Constants
    <3>3. PICK h \in Nat : h = 1
      OBVIOUS
    <3>4. config = [policy |-> p, contract |-> i, epoch |-> h]
      BY <3>1, <3>2, <3>3
    <3> QED
      BY <3>4
  <2>3. archive \in [1..(MaxRounds + 1) -> RowSets \cup {<<>>}]
    BY <1>2
  <2> QED
    BY <1>2, <2>1, <2>2, <2>3 DEF WorldTypes, EnvTypes
<1>4. PICK a \in [Keys -> Nat] : a = [k \in Keys |-> 0]
  OBVIOUS
<1>5. PICK e \in Epochs : e = FreshEpoch(config.epoch)
  BY <1>3 DEF WorldTypes, FreshEpoch, Epochs
<1>6. PICK t \in Retries : t = NoRetry
  BY DEF NoRetry, Retries, Vectors
<1>7. PICK p \in Partitions : p = NoPartition
  BY DEF NoPartition, Partitions, Vectors
<1>8. PICK c \in 1..Len(Contracts) : c = config.contract
  BY <1>3 DEF WorldTypes
<1>9. b \in {"current", "schema1", "binding1"} /\ s \in States
  BY <1>1, Constants DEF States, Terminal
<1>10. PICK i \in Nat \ {0} : i = 1
  OBVIOUS
<1>11. PICK f : f = FreshStatus(config)
  OBVIOUS
<1>12. /\ status \in Statuses /\ status.state = s /\ status.binding = b /\ status.stage = 1
       /\ status.attempts = a /\ status.quarantined = {} /\ status.retry = t /\ status.partition = p
  <2>1. f = [state |-> "ready", binding |-> "current", contract |-> c, stage |-> i,
             cooldown |-> FALSE, epoch |-> e, attempts |-> a, quarantined |-> {}, retry |-> t,
             incomplete |-> FALSE, partition |-> p, busy |-> FALSE]
    BY <1>4, <1>5, <1>6, <1>7, <1>8, <1>10, <1>11 DEF FreshStatus
  <2>2. "ready" \in States
    BY DEF States
  <2>3. /\ f \in Statuses /\ f.stage = 1 /\ f.attempts = a
        /\ f.quarantined = {} /\ f.retry = t /\ f.partition = p
    BY <1>10, <2>1, <2>2 DEF Statuses
  <2>4. status = [f EXCEPT !.binding = b, !.state = s]
    BY <1>1, <1>11
  <2> QED
    BY <1>9, <2>3, <2>4 DEF Statuses
<1>13. ~(status.stage > Len(Stages(status)))
  BY <1>12, StageFacts
<1>14. t.gen = 0 /\ t.rounds = 0 /\ ~p.ready
  BY <1>6, <1>7 DEF NoRetry, NoPartition
<1>15. Sound(status) /\ Earned(status)
  <2> HIDE DEF Stages
  <2>1. \A k \in Keys : /\ status.attempts[k] <= MaxRetries + 1 + env.overrides
                        /\ k \in status.quarantined <=> status.attempts[k] > MaxRetries
    BY <1>2, <1>4, <1>12, Constants
  <2> QED
    BY <1>1, <1>12, <1>13, <1>14, <2>1, Constants DEF Sound, Earned
<1>16. OnDisk
  BY <1>2, <1>15 DEF OnDisk
<1>17. Types /\ InHand /\ Saved
  BY <1>2, <1>3, <1>12, IdleFacts DEF Types, InHand, Saved
<1>18. QuotaParted
  BY <1>1, <1>2, <1>12, IdleFacts DEF QuotaParted, QuotaEndIsPartitioned
<1> QED
  BY <1>16, <1>17, <1>18 DEF IInv

LEMMA RunnerKeeps ==
  ASSUME IInv, Runner
  PROVE  IInv'
<1>1. CASE CooldownEnds \/ StopOnBudget \/ Complete
  BY <1>1, LoopActionsKeep
<1>2. CASE SaveStatus
  BY <1>2, SaveStatusKeeps
<1>3. CASE StopInCooldown
  BY <1>3, StopInCooldownKeeps
<1>4. CASE StartStage
  BY <1>4, StartStageKeeps
<1>5. CASE Worker
  BY <1>5, WorkerKeeps
<1>6. CASE StageRaises
  BY <1>6, StageRaisesKeeps
<1>7. CASE QuotaEnds \/ RateLimited \/ DeadlinePassed
  BY <1>7, SignalsKeep
<1>8. CASE BudgetSpent
  BY <1>8, BudgetSpentKeeps
<1>9. CASE PartitionTerminal
  BY <1>9, PartitionTerminalKeeps
<1>10. CASE GatePassed \/ GateFailed \/ BlockedAtGate
  BY <1>10, GateKeeps
<1>11. CASE PartitionStage
  BY <1>11, PartitionStageKeeps
<1>12. CASE AssessRound
  BY <1>12, AssessKeeps
<1>13. CASE PrepareRound
  BY <1>13, PrepareRoundKeeps
<1>14. CASE PrepareRaises \/ NoRoundLeft
  BY <1>14, NoRoundKeeps
<1> QED
  BY <1>1, <1>2, <1>3, <1>4, <1>5, <1>6, <1>7, <1>8, <1>9, <1>10, <1>11, <1>12, <1>13, <1>14
     DEF Runner

LEMMA Inductive == IInv /\ [Next]_vars => IInv'
<1> SUFFICES ASSUME IInv, [Next]_vars PROVE IInv'
  OBVIOUS
<1>1. CASE Runner
  BY <1>1, RunnerKeeps
<1>2. CASE Tick \/ NewQuotaEpoch \/ UNCHANGED vars
  BY <1>2, TimeKeeps
<1>3. ASSUME NEW wait \in BOOLEAN, Start(wait) PROVE IInv'
  BY <1>3, StartKeeps
<1>4. ASSUME NEW wait \in BOOLEAN, Resume(wait) PROVE IInv'
  BY <1>4, ResumeKeeps
<1>5. CASE Crash
  BY <1>5, CrashKeeps
<1>6. CASE PartitionOnly
  BY <1>6, PartitionOnlyKeeps
<1>7. CASE PrepareOffline
  BY <1>7, PrepareOfflineKeeps
<1>8. CASE RestoreOffline
  BY <1>8, RestoreOfflineKeeps
<1>9. CASE Expand
  BY <1>9, ExpandKeeps
<1> QED
  BY <1>1, <1>2, <1>3, <1>4, <1>5, <1>6, <1>7, <1>8, <1>9 DEF Next

LEMMA Invariant == Spec => []IInv
  BY InitIInv, Inductive, PTL DEF Spec

------------------------------------------------------------------------------
(* What follows from it *)

\* A complete run passed its last stage, and only a partition that was ready opens that.
LEMMA IInvComplete == IInv => CompleteIsReady
<1> SUFFICES ASSUME IInv, status.state = "complete", status.binding = "current",
                    config.policy = "collect", ~env.undone
             PROVE  /\ status.partition.ready /\ status.partition.rows = rows
                    /\ ~status.incomplete
                    /\ Cardinality(Whole(rows)) >= Contracts[status.contract].minimum
  BY DEF CompleteIsReady
<1>1. Sound(status) /\ Earned(status)
  BY DEF IInv, OnDisk
<1>2. status.stage > Len(Stages(status))
  BY <1>1 DEF Sound
<1>3. status.partition.ready /\ status.partition.rows = rows /\ ~status.incomplete
  BY <1>1, <1>2 DEF Earned
<1>4. Cardinality(Whole(status.partition.rows)) >= Contracts[status.contract].minimum
  BY <1>1, <1>3 DEF Sound
<1> QED
  BY <1>3, <1>4

LEMMA IInvRetries == IInv => RetriesBounded
<1> SUFFICES ASSUME IInv PROVE AttemptsBounded /\ RoundsBounded
  BY DEF RetriesBounded
<1>1. status \in Statuses /\ WorldTypes /\ Sound(status)
  BY DEF IInv, Types, OnDisk
<1>2. AttemptsBounded
  BY <1>1 DEF AttemptsBounded, Sound
<1>3. /\ status.retry.gen \in Nat /\ status.retry.rounds \in Nat
      /\ status.retry.rounds <= status.retry.gen /\ status.retry.gen <= MaxRounds
  BY <1>1 DEF Sound, Statuses, Retries
<1>4. PICK n : n = LatestArchive
  OBVIOUS
<1>5. n \in 0..(MaxRounds + 1) /\ (n > 0 => n \in DOMAIN archive /\ archive[n] # <<>>)
  BY <1>1, <1>4, LatestFacts
<1>6. n > 0 => n <= MaxRounds /\ (status.binding = "current" => n <= status.retry.gen + 1)
  BY <1>5 DEF IInv, OnDisk
<1>7. RoundsBounded
  BY <1>3, <1>4, <1>5, <1>6, Constants DEF RoundsBounded
<1> QED
  BY <1>2, <1>7

\* Whatever the order of stages, rounds, crashes, epochs and operator commands, a run of the
\* collect policy that says complete has the corpus its contract asks for, unless it was
\* restored after it had passed its last stage (run, _partition_collected_stage,
\* _recover_orphaned_quality_retry).
THEOREM CompleteMeansReady == Spec => []CompleteIsReady
  BY Invariant, IInvComplete, PTL

\* A seed fails in a task at most once more than the retry limit allows before it is quarantined,
\* and then once at most in each stage whose quality plan names a quarantined job; no quality
\* round is prepared beyond the configured number; restarts and offline rounds included
\* (_record_report_failures, run of the pipeline, _prepare_quality_retry).
THEOREM RetriesAreBounded == Spec => []RetriesBounded
  BY Invariant, IInvRetries, PTL

\* The end of the provider's quota leaves a partition of the rows that were collected, unless a
\* crash came between (_partition_terminal_collection).
THEOREM QuotaEndPartitioned == Spec => []QuotaEndIsPartitioned
<1>1. IInv => QuotaEndIsPartitioned
  BY DEF IInv, QuotaParted
<1> QED
  BY <1>1, Invariant, PTL

\* The event log is never behind the saved status and at most one event ahead (_event,
\* _save_status, JsonlStore.append).
THEOREM EventsLead == Spec => []EventsLeadStatus
<1>1. IInv => EventsLeadStatus
  BY DEF IInv, Saved, EventsLeadStatus
<1> QED
  BY <1>1, Invariant, PTL
==============================================================================
