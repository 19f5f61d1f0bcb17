--------------------------- MODULE QualityRetryProofs ---------------------------
(* Proofs about the quality retries, for every set of seeds and texts, every   *)
(* sequence of stages, and every number of tasks and rounds.                   *)
EXTENDS QualityRetry, FiniteSetTheorems, WellFoundedInduction, TLAPS

(* The files of every generation, and what the steps of a job rely on: a      *)
(* manifest's plan exists, a file is only rewritten after the manifest or the *)
(* intent that keeps its old rows.                                            *)
Files ==
  /\ plan \in [Generations -> Root \cup {None}]
  /\ manifest \in [Generations -> Archive \cup {None}]
  /\ intent \in [Generations -> Corpus \cup {None}]

Kept ==
  /\ Preparing /\ step >= 1 => manifest[goal] # None
  /\ job = "restore" => manifest[goal] # None
  /\ job = "restore" /\ step >= 1 => intent[goal] # None
  /\ \A g \in Manifested : plan[g] # None
  /\ job = "stage" => step >= 1 /\ stage <= Len(StageSeeds)

(* What holds until a generation is restored.                                 *)
OneRow(c) == \A t \in Tasks : \A r, q \in c[t] : r.seed = q.seed => r = q

\* The archives: one row per seed, and what is projected is what the plan leaves.
Archived ==
  \A g \in Manifested :
    /\ OneRow(manifest[g].before)
    /\ \A t \in Tasks :
         manifest[g].after[t] = {r \in manifest[g].before[t] : plan[g][r.seed] > t}

\* How far the rounds are counted.
Counted ==
  /\ retry # "restored"
  /\ retry = "none" => generation = 0 /\ rounds = 0
  /\ retry # "none" => generation \in Manifested
  /\ retry \in {"ready", "running"} => rounds + 1 = generation /\ incomplete
  /\ retry = "completed" =>
       rounds = generation \/ (rounds + 1 = generation /\ stage > 1)

\* Which generation a job prepares: the next one, or the last one once more.
Aimed ==
  /\ job = "stage" => retry # "ready"
  /\ job = "restore" => step = 0
  /\ Preparing => goal \in {generation, generation + 1}
  /\ Preparing /\ goal = generation + 1 => retry \in {"none", "completed"}
  /\ job = "recover" \/ (job = "prepare" /\ stage = 1) => goal = generation + 1

\* An archive newer than the status: the files are not touched but by its projection.
NewArchive ==
  /\ \A g \in Manifested : g <= generation + 1
  /\ generation + 1 \in Manifested =>
       /\ retry \in {"none", "completed"} /\ job # "stage"
       /\ Preparing => goal = generation + 1
       /\ \A t \in Tasks : active[t] \in {manifest[generation + 1].before[t],
                                          manifest[generation + 1].after[t]}

\* A job has projected the files before the one it works on.
Projected ==
  Preparing /\ step >= 1 =>
    \A t \in Tasks : t < step => active[t] = manifest[goal].after[t]

\* The rows of the tasks that a plan in force rebuilds are of its generation.
RejectsOut ==
  retry \in {"ready", "running"} =>
    \A t \in Tasks : \A r \in active[t] :
      plan[generation][r.seed] <= t => r.generation = generation

Unrestored ==
  OneRow(active) /\ Archived /\ Counted /\ Aimed /\ NewArchive /\ Projected /\ RejectsOut

IInv == /\ TypeOK /\ Files /\ Kept /\ HistoryRecoverable
        /\ NothingRestored => Unrestored

\* A set of numbers up to n has the greatest one that Max names.
LEMMA GreatestIsMax ==
  ASSUME NEW n \in Nat, NEW S \in SUBSET (0 .. n), S # {}
  PROVE  Max(S) \in S /\ \A y \in S : y <= Max(S)
<1> DEFINE R == OpToRel(<, Nat)
           T == {n - x : x \in S}
<1>1. IsWellFoundedOn(R, Nat)
  BY NatLessThanWellFounded
<1>2. \A x \in S : x \in Nat /\ x <= n /\ n - x \in Nat
  OBVIOUS
<1>3. T \subseteq Nat /\ T # {}
  BY <1>2
<1>4. \A x, y \in Nat : y < x => <<y, x>> \in R
  BY DEF OpToRel
<1> HIDE DEF R
<1>5. \E a \in T : \A b \in T : <<b, a>> \notin R
  <2> HIDE DEF T
  <2> QED
    BY <1>1, <1>3, WFMin
<1>6. PICK x \in S : \A y \in S : <<n - y, n - x>> \notin R
  BY <1>5
<1>7. \A y \in S : x >= y
  <2> SUFFICES ASSUME NEW y \in S, ~(x >= y) PROVE FALSE
    OBVIOUS
  <2>1. n - y < n - x
    BY <1>2
  <2> QED
    BY <1>2, <1>4, <1>6, <2>1
<1>8. \A y \in S : Max(S) >= y /\ Max(S) \in S
  BY <1>7 DEF Max
<1> QED
  BY <1>7, <1>8

LEMMA Constants ==
  /\ Tasks = 1 .. TaskCount /\ TaskCount \in Nat /\ TaskCount >= 1
  /\ Generations = 1 .. MaxRounds /\ MaxRounds \in Nat /\ MaxRounds >= 1
  /\ Len(StageSeeds) \in Nat /\ Len(StageSeeds) >= 1
  /\ None \notin Corpus /\ None \notin Root /\ None \notin Archive
<1>1. Len(StageSeeds) \in Nat /\ Len(StageSeeds) >= 1
  BY RetryAssumption
<1> QED
  BY <1>1, RetryAssumption, FilesAssumption DEF Tasks, Generations

\* The newest archive, and when it is newer than the status.
LEMMA Newest ==
  ASSUME Manifested # {}
  PROVE  Max(Manifested) \in Manifested /\ \A g \in Manifested : g <= Max(Manifested)
<1>1. Manifested \in SUBSET (0 .. MaxRounds)
  BY Constants DEF Manifested
<1> QED
  BY <1>1, GreatestIsMax, Constants

LEMMA GreaterOf ==
  ASSUME NEW m \in Nat, NEW n \in Nat
  PROVE  Max({m, n}) \in {m, n} /\ Max({m, n}) >= m /\ Max({m, n}) >= n
<1>1. {m, n} \in SUBSET (0 .. m + n) /\ {m, n} # {} /\ m + n \in Nat
  OBVIOUS
<1> QED
  BY <1>1, GreatestIsMax

\* A corpus with one row per seed gives every seed at most one row.
LEMMA RowsCounted ==
  ASSUME OneRow(active)
  PROVE  OneRowPerSeed
<1> SUFFICES ASSUME NEW s \in Seeds, NEW t \in Tasks
             PROVE  Cardinality(RowsOf(s, t)) <= 1
  BY DEF OneRowPerSeed
<1>1. CASE RowsOf(s, t) = {}
  BY <1>1, FS_EmptySet
<1>2. CASE RowsOf(s, t) # {}
  <2>1. PICK r \in RowsOf(s, t) : TRUE
    BY <1>2
  <2>2. RowsOf(s, t) = {r}
    BY <2>1 DEF RowsOf, OneRow
  <2> QED
    <3>1. Cardinality({r}) = 1
      BY FS_Singleton
    <3> QED
      BY <2>2, <3>1
<1> QED
  BY <1>1, <1>2


\* A step that touches no file: what is said of the files stays.
LEMMA Still ==
  ASSUME IInv, UNCHANGED <<active, plan, manifest, intent, collected>>
  PROVE  /\ Files' /\ HistoryRecoverable'
         /\ Manifested' = Manifested
         /\ NothingRestored' => NothingRestored /\ OneRow(active)' /\ Archived'
<1>1. Manifested' = Manifested
  BY DEF Manifested
<1>2. Files' /\ HistoryRecoverable'
  BY <1>1 DEF IInv, Files, HistoryRecoverable
<1>3. NothingRestored' => NothingRestored
  BY DEF NothingRestored
<1>4. ASSUME NothingRestored PROVE OneRow(active)' /\ Archived'
  BY <1>1, <1>4 DEF IInv, Unrestored, OneRow, Archived
<1> QED
  BY <1>1, <1>2, <1>3, <1>4

LEMMA InitIInv == Init => IInv
<1> SUFFICES ASSUME Init PROVE IInv
  OBVIOUS
<1> USE Constants DEF Init
<1>1. Manifested = {}
  BY DEF Manifested
<1>2. active \in Corpus
  BY DEF Corpus
<1>3. TypeOK
  <2>1. state \in States /\ retry \in {"none", "ready", "running", "completed", "restored"}
    BY DEF States, Terminal
  <2>2. partition \in {"none", "unready", "ready"} /\ job \in Jobs
    BY DEF Jobs
  <2>3. stage \in 1 .. Len(StageSeeds) + 1
    OBVIOUS
  <2>7. worker \in BOOLEAN /\ incomplete \in BOOLEAN
    OBVIOUS
  <2>4. generation \in 0 .. MaxRounds /\ rounds \in 0 .. MaxRounds /\ goal \in Generations
    OBVIOUS
  <2>5. step \in 0 .. TaskCount + 1 /\ collected \subseteq (Tasks \X Row)
    OBVIOUS
  <2>6. \A g \in Generations : plan[g] = None /\ manifest[g] = None /\ intent[g] = None
    OBVIOUS
  <2> QED
    BY <1>2, <2>1, <2>2, <2>3, <2>4, <2>5, <2>6, <2>7 DEF TypeOK
<1>4. Files /\ Kept
  BY <1>1 DEF Files, Kept, Preparing
<1>5. HistoryRecoverable
  BY DEF HistoryRecoverable
<1>6. OneRow(active) /\ Archived /\ Counted
  BY <1>1 DEF OneRow, Archived, Counted
<1>7. Aimed /\ NewArchive /\ Projected /\ RejectsOut
  BY <1>1 DEF Aimed, NewArchive, Projected, RejectsOut, Preparing
<1> QED
  BY <1>3, <1>4, <1>5, <1>6, <1>7 DEF IInv, Unrestored

\* A job that ends and leaves the files, the retry and the stage as they are.
LEMMA JobEnds ==
  ASSUME IInv, UNCHANGED <<active, plan, manifest, intent, collected>>, job' = "none",
         UNCHANGED <<stage, retry, generation, rounds, incomplete, goal, step>>,
         TypeOK'
  PROVE  IInv'
<1>1. Kept'
  BY Still DEF IInv, Kept, Preparing
<1>2. ASSUME NothingRestored' PROVE Unrestored'
  <2>1. Unrestored /\ OneRow(active)' /\ Archived'
    BY <1>2, Still DEF IInv
  <2>2. Counted' /\ Aimed' /\ NewArchive' /\ Projected' /\ RejectsOut'
    BY <2>1, Still
    DEF Unrestored, Counted, Aimed, NewArchive, Projected, RejectsOut, Preparing
  <2> QED
    BY <2>1, <2>2 DEF Unrestored
<1> QED
  BY <1>1, <1>2, Still DEF IInv

LEMMA BeginRoundKeeps ==
  ASSUME IInv, BeginRound
  PROVE  IInv'
<1> USE Constants
<1>0. UNCHANGED <<active, plan, manifest, intent, collected>>
  BY DEF BeginRound, files, status
<1>1. TypeOK'
  BY <1>0 DEF IInv, TypeOK, BeginRound, files, status, States, Terminal, Jobs
<1>2. Kept'
  BY <1>0, Still DEF IInv, Kept, Preparing, TypeOK, BeginRound, files, status
<1>3. ASSUME NothingRestored PROVE Unrestored'
  <2>1. Unrestored
    BY <1>3 DEF IInv
  <2>2. OneRow(active)' /\ Archived'
    BY <1>0, <1>3, Still DEF NothingRestored
  <2>3. Counted'
    BY <1>0, <2>1, Still DEF IInv, TypeOK, Unrestored, Counted, BeginRound, files, status
  <2>4. Aimed'
    BY <1>0, <2>1
    DEF IInv, TypeOK, Unrestored, Aimed, Preparing, BeginRound, files, status
  <2>5. NewArchive'
    <3>1. \A g \in Manifested : g \in Nat
      BY DEF Manifested
    <3>2. Manifested # {} => Max(Manifested) \in Nat /\ ~(Max(Manifested) > generation)
      BY <3>1, Newest DEF Orphaned, BeginRound
    <3>3. generation \in Nat
      BY DEF IInv, TypeOK
    <3>4. generation + 1 \notin Manifested
      BY <3>1, <3>2, <3>3, Newest
    <3> QED
      BY <1>0, <2>1, <3>4, Still
      DEF IInv, TypeOK, Unrestored, NewArchive, Preparing, BeginRound, files, status
  <2>6. Projected'
    BY <1>0, <2>1
    DEF IInv, TypeOK, Unrestored, Projected, Preparing, BeginRound, files, status
  <2>7. RejectsOut'
    BY <1>0, <2>1 DEF IInv, TypeOK, Unrestored, RejectsOut, BeginRound, files, status
  <2> QED
    BY <2>2, <2>3, <2>4, <2>5, <2>6, <2>7 DEF Unrestored
<1> QED
  BY <1>0, <1>1, <1>2, <1>3, Still DEF IInv

LEMMA NextTaskKeeps ==
  ASSUME IInv, NextTask
  PROVE  IInv'
<1> USE Constants
<1>0. UNCHANGED <<active, plan, manifest, intent, collected>>
  BY DEF NextTask, files, status
<1>1. TypeOK'
  BY <1>0 DEF IInv, TypeOK, NextTask, files, status, States, Terminal, Jobs
<1>2. Kept'
  BY <1>0, Still DEF IInv, Kept, Preparing, TypeOK, NextTask, files, status
<1>3. ASSUME NothingRestored PROVE Unrestored'
  <2>1. Unrestored
    BY <1>3 DEF IInv
  <2>2. OneRow(active)' /\ Archived'
    BY <1>0, <1>3, Still DEF NothingRestored
  <2>3. Counted'
    BY <1>0, <2>1, Still DEF IInv, TypeOK, Unrestored, Counted, NextTask, files, status
  <2>4. Aimed'
    BY <1>0, <2>1 DEF IInv, TypeOK, Unrestored, Aimed, Preparing, NextTask, files, status
  <2>5. NewArchive'
    BY <1>0, <2>1, Still
    DEF IInv, TypeOK, Unrestored, NewArchive, Preparing, NextTask, files, status
  <2>6. Projected'
    BY <1>0, <2>1
    DEF IInv, TypeOK, Unrestored, Projected, Preparing, NextTask, files, status
  <2>7. RejectsOut'
    BY <1>0, <2>1 DEF IInv, TypeOK, Unrestored, RejectsOut, NextTask, files, status
  <2> QED
    BY <2>2, <2>3, <2>4, <2>5, <2>6, <2>7 DEF Unrestored
<1> QED
  BY <1>0, <1>1, <1>2, <1>3, Still DEF IInv

LEMMA StageStopsKeeps == IInv /\ StageStops => IInv'
<1> SUFFICES ASSUME IInv, StageStops PROVE IInv'
  OBVIOUS
<1>1. /\ UNCHANGED <<active, plan, manifest, intent, collected>> /\ job' = "none"
      /\ UNCHANGED <<stage, retry, generation, rounds, incomplete, goal, step>>
  BY DEF StageStops, files, status
<1>2. TypeOK'
  BY <1>1 DEF IInv, TypeOK, StageStops, status, States, Terminal, Jobs
<1> QED
  BY <1>1, <1>2, JobEnds

LEMMA StageClosesKeeps == IInv /\ StageCloses => IInv'
<1> SUFFICES ASSUME IInv, StageCloses PROVE IInv'
  OBVIOUS
<1>1. /\ UNCHANGED <<active, plan, manifest, intent, collected>> /\ job' = "none"
      /\ UNCHANGED <<stage, retry, generation, rounds, incomplete, goal, step>>
  BY DEF StageCloses, files, status
<1>2. TypeOK'
  BY <1>1 DEF IInv, TypeOK, StageCloses, status, States, Terminal, Jobs
<1> QED
  BY <1>1, <1>2, JobEnds

LEMMA StageFailsKeeps == IInv /\ StageFails => IInv'
<1> SUFFICES ASSUME IInv, StageFails PROVE IInv'
  OBVIOUS
<1>1. /\ UNCHANGED <<active, plan, manifest, intent, collected>> /\ job' = "none"
      /\ UNCHANGED <<stage, retry, generation, rounds, incomplete, goal, step>>
  BY DEF StageFails, files, status
<1>2. TypeOK'
  BY <1>1 DEF IInv, TypeOK, StageFails, status, States, Terminal, Jobs
<1> QED
  BY <1>1, <1>2, JobEnds

LEMMA CollectionBlockedKeeps == IInv /\ CollectionBlocked => IInv'
<1> SUFFICES ASSUME IInv, CollectionBlocked PROVE IInv'
  OBVIOUS
<1>1. /\ UNCHANGED <<active, plan, manifest, intent, collected>> /\ job' = "none"
      /\ UNCHANGED <<stage, retry, generation, rounds, incomplete, goal, step>>
  BY DEF CollectionBlocked, files, status
<1>2. TypeOK'
  BY <1>1 DEF IInv, TypeOK, CollectionBlocked, status, States, Terminal, Jobs
<1> QED
  BY <1>1, <1>2, JobEnds

LEMMA PartitionReadyKeeps ==
  ASSUME IInv, PartitionReady
  PROVE  IInv'
<1> USE Constants
<1>0. UNCHANGED <<active, plan, manifest, intent, collected>>
  BY DEF PartitionReady, files, status
<1>1. TypeOK'
  <2>1. stage' \in 1 .. Len(StageSeeds) + 1
    BY DEF IInv, TypeOK, Kept, PartitionReady
  <2>2. state' \in States
    BY DEF IInv, TypeOK, PartitionReady, States, Terminal
  <2>3. partition' = "ready" /\ worker' = FALSE /\ incomplete' = FALSE /\ job' = "none"
    BY DEF PartitionReady
  <2>4. retry' \in {"none", "ready", "running", "completed", "restored"}
    BY DEF PartitionReady
  <2> QED
    BY <1>0, <2>1, <2>2, <2>3, <2>4 DEF IInv, TypeOK, PartitionReady, files, Jobs
<1>2. Kept'
  BY <1>0, Still DEF IInv, Kept, Preparing, TypeOK, PartitionReady, files, status
<1>3. ASSUME NothingRestored PROVE Unrestored'
  <2>1. Unrestored
    BY <1>3 DEF IInv
  <2>2. OneRow(active)' /\ Archived'
    BY <1>0, <1>3, Still DEF NothingRestored
  <2>3. Counted'
    BY <1>0, <2>1, Still
    DEF IInv, TypeOK, Unrestored, Counted, PartitionReady, files, status
  <2>4. Aimed'
    BY <1>0, <2>1
    DEF IInv, TypeOK, Unrestored, Aimed, Preparing, PartitionReady, files, status
  <2>5. NewArchive'
    BY <1>0, <2>1, Still
    DEF IInv, TypeOK, Unrestored, NewArchive, Preparing, PartitionReady, files, status
  <2>6. Projected'
    BY <1>0, <2>1
    DEF IInv, TypeOK, Unrestored, Projected, Preparing, PartitionReady, files, status
  <2>7. RejectsOut'
    BY <1>0, <2>1 DEF IInv, TypeOK, Unrestored, RejectsOut, PartitionReady, files, status
  <2> QED
    BY <2>2, <2>3, <2>4, <2>5, <2>6, <2>7 DEF Unrestored
<1> QED
  BY <1>0, <1>1, <1>2, <1>3, Still DEF IInv

LEMMA PartitionNotReadyKeeps ==
  ASSUME IInv, PartitionNotReady
  PROVE  IInv'
<1> USE Constants
<1>0. UNCHANGED <<active, plan, manifest, intent, collected>>
  BY DEF PartitionNotReady, files, status
<1>1. TypeOK'
  <2>1. rounds' \in 0 .. MaxRounds
    BY DEF IInv, TypeOK, PartitionNotReady
  <2>2. goal' \in Generations /\ job' \in Jobs /\ step' \in 0 .. TaskCount + 1
    BY <2>1 DEF IInv, TypeOK, PartitionNotReady, Jobs
  <2>3. state' \in States
    BY DEF IInv, TypeOK, PartitionNotReady, States, Terminal
  <2>4. retry' \in {"none", "ready", "running", "completed", "restored"}
    BY DEF IInv, TypeOK, PartitionNotReady
  <2>5. partition' = "unready" /\ worker' = FALSE
    BY DEF PartitionNotReady
  <2> QED
    BY <1>0, <2>1, <2>2, <2>3, <2>4, <2>5 DEF IInv, TypeOK, PartitionNotReady, files
<1>2. Kept'
  BY <1>0, Still DEF IInv, Kept, Preparing, TypeOK, PartitionNotReady, files, status
<1>3. ASSUME NothingRestored PROVE Unrestored'
  <2>1. Unrestored
    BY <1>3 DEF IInv
  <2>2. OneRow(active)' /\ Archived'
    BY <1>0, <1>3, Still DEF NothingRestored
  <2>3. Counted'
    BY <1>0, <2>1, Still
    DEF IInv, TypeOK, Unrestored, Counted, PartitionNotReady, files, status
  <2>4. Aimed'
    <3>1. retry \in {"none", "running", "completed"}
      BY <2>1 DEF IInv, TypeOK, Unrestored, Counted, Aimed, PartitionNotReady
    <3>2. rounds' + 1 \in {generation, generation + 1} /\ (stage = 1 => rounds' = generation)
      BY <2>1, <3>1 DEF IInv, TypeOK, Unrestored, Counted, PartitionNotReady
    <3>3. retry' \in {"none", "completed"} /\ retry' # "ready"
      BY <3>1 DEF PartitionNotReady
    <3>4. job' = "none" \/ (job' = "prepare" /\ goal' = rounds' + 1)
      BY DEF PartitionNotReady
    <3>5. generation' = generation /\ stage' = stage /\ rounds' \in Nat
      BY <1>1 DEF PartitionNotReady, TypeOK
    <3> QED
      BY <3>2, <3>3, <3>4, <3>5 DEF Aimed, Preparing
  <2>5. NewArchive'
    BY <1>0, <2>1, Still
    DEF IInv, TypeOK, Unrestored, NewArchive, Preparing, PartitionNotReady, files,
        status
  <2>6. Projected'
    BY <1>0, <2>1
    DEF IInv, TypeOK, Unrestored, Projected, Preparing, PartitionNotReady, files, status
  <2>7. RejectsOut'
    BY <1>0, <2>1
    DEF IInv, TypeOK, Unrestored, RejectsOut, PartitionNotReady, files, status
  <2> QED
    BY <2>2, <2>3, <2>4, <2>5, <2>6, <2>7 DEF Unrestored
<1> QED
  BY <1>0, <1>1, <1>2, <1>3, Still DEF IInv

LEMMA OfflinePrepareKeeps ==
  ASSUME IInv, OfflinePrepare
  PROVE  IInv'
<1> USE Constants
<1>0. UNCHANGED <<active, plan, manifest, intent, collected>>
  BY DEF OfflinePrepare, files, status
<1>4. PICK done \in {rounds, generation} :
        /\ done < MaxRounds /\ goal' = done + 1
        /\ retry # "completed" => done = rounds
        /\ retry = "completed" => done >= rounds /\ done >= generation
  <2>1. rounds \in Nat /\ generation \in Nat
    BY DEF IInv, TypeOK
  <2> QED
    BY <2>1, GreaterOf DEF OfflinePrepare
<1>1. TypeOK'
  BY <1>0, <1>4 DEF IInv, TypeOK, OfflinePrepare, files, status, Jobs
<1>2. Kept'
  BY <1>0, Still DEF IInv, Kept, Preparing, TypeOK, OfflinePrepare, files, status
<1>3. ASSUME NothingRestored PROVE Unrestored'
  <2>1. Unrestored
    BY <1>3 DEF IInv
  <2>2. OneRow(active)' /\ Archived'
    BY <1>0, <1>3, Still DEF NothingRestored
  <2>3. Counted'
    BY <1>0, <2>1, Still
    DEF IInv, TypeOK, Unrestored, Counted, OfflinePrepare, files, status
  <2>4. Aimed'
    <3>2. goal' \in {generation, generation + 1}
      BY <1>4, <2>1 DEF IInv, TypeOK, Unrestored, Counted
    <3>3. goal' = generation + 1 => retry \in {"none", "completed"}
      BY <1>4, <2>1 DEF IInv, TypeOK, Unrestored, Counted
    <3> QED
      BY <3>2, <3>3 DEF OfflinePrepare, Aimed, Preparing, status
  <2>5. NewArchive'
    <3>2. retry \in {"none", "completed"} => goal' = generation + 1
      BY <1>4, <2>1 DEF IInv, TypeOK, Unrestored, Counted
    <3> QED
      BY <1>0, <2>1, <3>2, Still DEF IInv, Unrestored, NewArchive, OfflinePrepare, status
  <2>6. Projected'
    BY <1>0, <2>1
    DEF IInv, TypeOK, Unrestored, Projected, Preparing, OfflinePrepare, files, status
  <2>7. RejectsOut'
    BY <1>0, <2>1 DEF IInv, TypeOK, Unrestored, RejectsOut, OfflinePrepare, files, status
  <2> QED
    BY <2>2, <2>3, <2>4, <2>5, <2>6, <2>7 DEF Unrestored
<1> QED
  BY <1>0, <1>1, <1>2, <1>3, Still DEF IInv

LEMMA RecoverOrphanKeeps ==
  ASSUME IInv, RecoverOrphan
  PROVE  IInv'
<1> USE Constants
<1>0. UNCHANGED <<active, plan, manifest, intent, collected>>
  BY DEF RecoverOrphan, files, status
<1>1. TypeOK'
  <2>1. Max(Manifested) \in Generations
    BY Newest DEF RecoverOrphan, Orphaned, Manifested
  <2> QED
    BY <1>0, <2>1 DEF IInv, TypeOK, RecoverOrphan, files, status, Jobs
<1>2. Kept'
  BY <1>0, Still DEF IInv, Kept, Preparing, TypeOK, RecoverOrphan, files, status
<1>3. ASSUME NothingRestored PROVE Unrestored'
  <2>1. Unrestored
    BY <1>3 DEF IInv
  <2>2. OneRow(active)' /\ Archived'
    BY <1>0, <1>3, Still DEF NothingRestored
  <2>3. Counted'
    BY <1>0, <2>1, Still
    DEF IInv, TypeOK, Unrestored, Counted, RecoverOrphan, files, status
  <2>4. Aimed'
    <3>1. Max(Manifested) = generation + 1 /\ generation + 1 \in Manifested
      BY <2>1, Newest
      DEF IInv, TypeOK, Unrestored, NewArchive, RecoverOrphan, Orphaned, Manifested
    <3> QED
      BY <2>1, <3>1
      DEF IInv, TypeOK, Unrestored, Aimed, NewArchive, Preparing, RecoverOrphan, status
  <2>5. NewArchive'
    <3>1. Max(Manifested) = generation + 1 /\ generation + 1 \in Manifested
      BY <2>1, Newest
      DEF IInv, TypeOK, Unrestored, NewArchive, RecoverOrphan, Orphaned, Manifested
    <3> QED
      BY <1>0, <2>1, <3>1, Still
      DEF IInv, TypeOK, Unrestored, NewArchive, Preparing, RecoverOrphan, status
  <2>6. Projected'
    BY <1>0, <2>1
    DEF IInv, TypeOK, Unrestored, Projected, Preparing, RecoverOrphan, files, status
  <2>7. RejectsOut'
    BY <1>0, <2>1 DEF IInv, TypeOK, Unrestored, RejectsOut, RecoverOrphan, files, status
  <2> QED
    BY <2>2, <2>3, <2>4, <2>5, <2>6, <2>7 DEF Unrestored
<1> QED
  BY <1>0, <1>1, <1>2, <1>3, Still DEF IInv

LEMMA ReplayManifestKeeps ==
  ASSUME IInv, ReplayManifest
  PROVE  IInv'
<1> USE Constants
<1>0. UNCHANGED <<active, plan, manifest, intent, collected>>
  BY DEF ReplayManifest, files, status
<1>1. TypeOK'
  BY <1>0 DEF IInv, TypeOK, ReplayManifest, files, status, States, Terminal, Jobs
<1>2. Kept'
  BY <1>0, Still DEF IInv, Kept, Preparing, TypeOK, ReplayManifest, files, status
<1>3. ASSUME NothingRestored PROVE Unrestored'
  <2>1. Unrestored
    BY <1>3 DEF IInv
  <2>2. OneRow(active)' /\ Archived'
    BY <1>0, <1>3, Still DEF NothingRestored
  <2>3. Counted'
    BY <1>0, <2>1, Still
    DEF IInv, TypeOK, Unrestored, Counted, ReplayManifest, files, status
  <2>4. Aimed'
    BY <1>0, <2>1
    DEF IInv, TypeOK, Unrestored, Aimed, Preparing, ReplayManifest, files, status
  <2>5. NewArchive'
    BY <1>0, <2>1, Still
    DEF IInv, TypeOK, Unrestored, NewArchive, Preparing, ReplayManifest, files, status
  <2>6. Projected'
    BY <1>0, <2>1
    DEF IInv, TypeOK, Unrestored, Projected, Preparing, ReplayManifest, files, status
  <2>7. RejectsOut'
    BY <1>0, <2>1 DEF IInv, TypeOK, Unrestored, RejectsOut, ReplayManifest, files, status
  <2> QED
    BY <2>2, <2>3, <2>4, <2>5, <2>6, <2>7 DEF Unrestored
<1> QED
  BY <1>0, <1>1, <1>2, <1>3, Still DEF IInv

LEMMA ProjectRefusedKeeps == IInv /\ ProjectRefused => IInv'
<1> SUFFICES ASSUME IInv, ProjectRefused PROVE IInv'
  OBVIOUS
<1>1. /\ UNCHANGED <<active, plan, manifest, intent, collected>> /\ job' = "none"
      /\ UNCHANGED <<stage, retry, generation, rounds, incomplete, goal, step>>
  BY DEF ProjectRefused, files, status
<1>2. TypeOK'
  BY <1>1 DEF IInv, TypeOK, ProjectRefused, status, States, Terminal, Jobs
<1> QED
  BY <1>1, <1>2, JobEnds

LEMMA PrepareCommitKeeps ==
  ASSUME IInv, PrepareCommit
  PROVE  IInv'
<1> USE Constants
<1>0. UNCHANGED <<active, plan, manifest, intent, collected>>
  BY DEF PrepareCommit, files, status
<1>1. TypeOK'
  BY <1>0 DEF IInv, TypeOK, PrepareCommit, files, status, States, Terminal, Jobs
<1>2. Kept'
  BY <1>0, Still DEF IInv, Kept, Preparing, TypeOK, PrepareCommit, files, status
<1>3. ASSUME NothingRestored PROVE Unrestored'
  <2>1. Unrestored
    BY <1>3 DEF IInv
  <2>2. OneRow(active)' /\ Archived'
    BY <1>0, <1>3, Still DEF NothingRestored
  <2>3. Counted'
    <3>1. goal \in Manifested /\ goal \in {generation, generation + 1} /\ goal \in Nat
      BY <2>1
      DEF IInv, TypeOK, Kept, Manifested, Preparing, Unrestored, Aimed, PrepareCommit
    <3> QED
      BY <1>0, <3>1, Still DEF Counted, PrepareCommit
  <2>4. Aimed'
    BY <1>0, <2>1
    DEF IInv, TypeOK, Unrestored, Aimed, Preparing, PrepareCommit, files, status
  <2>5. NewArchive'
    <3>1. goal \in Manifested /\ goal \in {generation, generation + 1} /\ goal \in Nat
      BY <2>1
      DEF IInv, TypeOK, Kept, Manifested, Preparing, Unrestored, Aimed, PrepareCommit
    <3>2. goal + 1 \notin Manifested /\ \A g \in Manifested : g <= goal + 1
      BY <2>1, <3>1 DEF IInv, TypeOK, Unrestored, NewArchive, PrepareCommit, Manifested
    <3> QED
      BY <1>0, <3>2, Still DEF NewArchive, PrepareCommit
  <2>6. Projected'
    BY <1>0, <2>1
    DEF IInv, TypeOK, Unrestored, Projected, Preparing, PrepareCommit, files, status
  <2>7. RejectsOut'
    <3>1. goal \in Manifested /\ goal \in {generation, generation + 1} /\ goal \in Nat
      BY <2>1
      DEF IInv, TypeOK, Kept, Manifested, Preparing, Unrestored, Aimed, PrepareCommit
    <3>2. \A t \in Tasks : active[t] = manifest[goal].after[t]
      BY <2>1 DEF IInv, TypeOK, Unrestored, Projected, PrepareCommit
    <3>3. \A t \in Tasks : \A r \in active[t] : plan[goal][r.seed] > t /\ r.seed \in Seeds
      BY <2>1, <3>1, <3>2 DEF IInv, TypeOK, Unrestored, Archived, Corpus, Row
    <3>4. \A s \in Seeds : plan[goal][s] \in Nat
      BY <3>1 DEF IInv, Files, Kept, Root, Manifested
    <3> QED
      BY <1>0, <3>3, <3>4 DEF RejectsOut, PrepareCommit
  <2> QED
    BY <2>2, <2>3, <2>4, <2>5, <2>6, <2>7 DEF Unrestored
<1> QED
  BY <1>0, <1>1, <1>2, <1>3, Still DEF IInv

LEMMA RestoreBeginKeeps ==
  ASSUME IInv, RestoreBegin
  PROVE  IInv'
<1> USE Constants
<1>0. UNCHANGED <<active, plan, manifest, intent, collected>>
  BY DEF RestoreBegin, files, status
<1>1. TypeOK'
  <2>1. generation \in Generations
    BY Newest DEF RestoreBegin, Manifested
  <2> QED
    BY <1>0, <2>1 DEF IInv, TypeOK, RestoreBegin, files, status, Jobs
<1>2. Kept'
  <2>1. generation \in Manifested
    BY Newest DEF RestoreBegin
  <2> QED
    BY <1>0, <2>1, Still DEF IInv, Kept, Preparing, Manifested, RestoreBegin, status
<1>3. ASSUME NothingRestored PROVE Unrestored'
  <2>1. Unrestored
    BY <1>3 DEF IInv
  <2>2. OneRow(active)' /\ Archived'
    BY <1>0, <1>3, Still DEF NothingRestored
  <2>3. Counted'
    BY <1>0, <2>1, Still
    DEF IInv, TypeOK, Unrestored, Counted, RestoreBegin, files, status
  <2>4. Aimed'
    BY <1>0, <2>1
    DEF IInv, TypeOK, Unrestored, Aimed, Preparing, RestoreBegin, files, status
  <2>5. NewArchive'
    BY <1>0, <2>1, Still
    DEF IInv, TypeOK, Unrestored, NewArchive, Preparing, RestoreBegin, files, status
  <2>6. Projected'
    BY <1>0, <2>1
    DEF IInv, TypeOK, Unrestored, Projected, Preparing, RestoreBegin, files, status
  <2>7. RejectsOut'
    BY <1>0, <2>1 DEF IInv, TypeOK, Unrestored, RejectsOut, RestoreBegin, files, status
  <2> QED
    BY <2>2, <2>3, <2>4, <2>5, <2>6, <2>7 DEF Unrestored
<1> QED
  BY <1>0, <1>1, <1>2, <1>3, Still DEF IInv

LEMMA RestoreRefusedKeeps == IInv /\ RestoreRefused => IInv'
<1> SUFFICES ASSUME IInv, RestoreRefused PROVE IInv'
  OBVIOUS
<1>1. /\ UNCHANGED <<active, plan, manifest, intent, collected>> /\ job' = "none"
      /\ UNCHANGED <<stage, retry, generation, rounds, incomplete, goal, step>>
  BY DEF RestoreRefused, files, status
<1>2. TypeOK'
  BY <1>1 DEF IInv, TypeOK, RestoreRefused, status, States, Terminal, Jobs
<1> QED
  BY <1>1, <1>2, JobEnds

LEMMA RestoreCommitKeeps ==
  ASSUME IInv, RestoreCommit
  PROVE  IInv'
<1> USE Constants
<1>0. UNCHANGED <<active, plan, manifest, intent, collected>>
  BY DEF RestoreCommit, files, status
<1>1. TypeOK'
  BY <1>0 DEF IInv, TypeOK, RestoreCommit, files, status, States, Terminal, Jobs
<1>2. Kept'
  BY <1>0, Still DEF IInv, Kept, Preparing, TypeOK, RestoreCommit, files, status
<1>3. ~NothingRestored
  BY DEF IInv, Unrestored, Aimed, RestoreCommit, TypeOK
<1> QED
  BY <1>0, <1>1, <1>2, <1>3, Still DEF IInv

LEMMA CrashKeeps == IInv /\ Crash => IInv'
<1> SUFFICES ASSUME IInv, Crash PROVE IInv'
  OBVIOUS
<1>1. /\ UNCHANGED <<active, plan, manifest, intent, collected>> /\ job' = "none"
      /\ UNCHANGED <<stage, retry, generation, rounds, incomplete, goal, step>>
  BY DEF Crash, files, status
<1>2. TypeOK'
  BY <1>1 DEF IInv, TypeOK, Crash, status, States, Terminal, Jobs
<1> QED
  BY <1>1, <1>2, JobEnds

LEMMA CollectKeeps ==
  ASSUME IInv, NEW s \in Seeds, NEW x \in Texts, Collect(s, x)
  PROVE  IInv'
<1> USE Constants
<1> DEFINE gen == IF InForce(s, step) THEN generation ELSE 0
           row == [seed |-> s, text |-> x, generation |-> gen]
<1>1. /\ UNCHANGED <<plan, manifest, intent, stage, state, partition, worker, retry,
                     generation, rounds, incomplete, job, goal, step>>
      /\ job = "stage" /\ step \in Tasks /\ Pending(s, step)
      /\ active' = [active EXCEPT ![step] = @ \cup {row}]
      /\ collected' = collected \cup {<<step, row>>}
  BY DEF Collect, files, status
<1>2. row \in Row
  BY DEF IInv, TypeOK, Row
<1>3. active \in Corpus
  BY DEF IInv, TypeOK
<1>4. /\ active' \in Corpus
      /\ active'[step] = active[step] \cup {row}
      /\ \A t \in Tasks : t # step => active'[t] = active[t]
  BY <1>1, <1>2, <1>3 DEF Corpus
<1>5. Manifested' = Manifested
  BY <1>1 DEF Manifested
<1> HIDE DEF row, gen
<1>6. TypeOK'
  BY <1>1, <1>2, <1>4 DEF IInv, TypeOK
<1>7. Files' /\ Kept'
  BY <1>1, <1>5 DEF IInv, Files, Kept, Preparing
<1>8. HistoryRecoverable'
  <2> SUFFICES ASSUME NEW t \in Tasks, NEW r \in Row, <<t, r>> \in collected'
               PROVE  \/ r \in active'[t]
                      \/ \E g \in Manifested : r \in manifest[g].before[t]
                      \/ \E g \in Generations : intent[g] # None /\ r \in intent[g][t]
    BY <1>1, <1>5 DEF HistoryRecoverable
  <2>1. CASE <<t, r>> = <<step, row>>
    BY <1>4, <2>1
  <2>2. CASE <<t, r>> \in collected
    BY <1>4, <2>2 DEF IInv, HistoryRecoverable
  <2> QED
    BY <1>1, <2>1, <2>2
<1>9. ASSUME NothingRestored' PROVE Unrestored'
  <2>1. NothingRestored /\ Unrestored
    BY <1>1, <1>9 DEF IInv, NothingRestored
  <2>2. \A r \in active[step] : r.seed # s
    <3>1. CASE InForce(s, step)
      <4>1. \A r \in RowsOf(s, step) : r.generation # generation
        BY <1>1, <3>1 DEF Pending
      <4>2. retry \in {"ready", "running"} /\ plan[generation][s] <= step
        BY <3>1 DEF InForce, Planned
      <4>3. \A r \in RowsOf(s, step) : r.generation = generation
        BY <1>1, <2>1, <4>2 DEF Unrestored, RejectsOut, RowsOf
      <4> QED
        BY <4>1, <4>3 DEF RowsOf
    <3>2. CASE ~InForce(s, step)
      BY <1>1, <3>2 DEF Pending, RowsOf
    <3> QED
      BY <3>1, <3>2
  <2>3. row.seed = s
    BY DEF row
  <2>4. OneRow(active)'
    <3> SUFFICES ASSUME NEW t \in Tasks, NEW r \in active'[t], NEW q \in active'[t],
                        r.seed = q.seed
                 PROVE  r = q
      BY DEF OneRow
    <3>1. CASE t = step
      BY <1>4, <2>1, <2>2, <2>3, <3>1 DEF Unrestored, OneRow
    <3>2. CASE t # step
      BY <1>4, <2>1, <3>2 DEF Unrestored, OneRow
    <3> QED
      BY <3>1, <3>2
  <2>5. Archived' /\ Counted' /\ Aimed' /\ Projected'
    BY <1>1, <1>5, <2>1 DEF Unrestored, Archived, Counted, Aimed, Projected, Preparing
  <2>6. NewArchive'
    BY <1>1, <1>5, <2>1 DEF Unrestored, NewArchive
  <2>7. RejectsOut'
    <3> SUFFICES ASSUME retry \in {"ready", "running"}, NEW t \in Tasks, NEW r \in active'[t],
                        plan[generation][r.seed] <= t
                 PROVE  r.generation = generation
      BY <1>1 DEF RejectsOut
    <3>1. CASE r \in active[t]
      BY <2>1, <3>1 DEF Unrestored, RejectsOut
    <3>2. CASE r \notin active[t]
      <4>1. t = step /\ r = row
        BY <1>4, <3>2
      <4>2. generation \in Manifested
        BY <2>1 DEF Unrestored, Counted
      <4>3. plan[generation] # None
        BY <4>2 DEF IInv, Kept
      <4>4. InForce(s, step)
        BY <2>3, <4>1, <4>3 DEF InForce, Planned
      <4> QED
        BY <4>1, <4>4 DEF row, gen
    <3> QED
      BY <3>1, <3>2
  <2> QED
    BY <2>4, <2>5, <2>6, <2>7 DEF Unrestored
<1> QED
  BY <1>6, <1>7, <1>8, <1>9 DEF IInv

LEMMA WritePlanKeeps ==
  ASSUME IInv, WritePlan
  PROVE  IInv'
<1> USE Constants
<1>1. /\ UNCHANGED <<active, manifest, intent, stage, state, partition, worker, retry,
                     generation, rounds, incomplete, job, goal, step, collected>>
      /\ Preparing /\ step = 0 /\ plan[goal] = None
  BY DEF WritePlan, status
<1>2. PICK p \in PlansNow : plan' = [plan EXCEPT ![goal] = p]
  BY DEF WritePlan
<1>3. p \in Root
  BY DEF PlansNow
<1>4. goal \in Generations /\ plan \in [Generations -> Root \cup {None}]
  BY DEF IInv, TypeOK, Files
<1>5. /\ plan' \in [Generations -> Root \cup {None}]
      /\ plan'[goal] # None
      /\ \A g \in Generations : g # goal => plan'[g] = plan[g]
  BY <1>2, <1>3, <1>4
<1>6. Manifested' = Manifested /\ goal \notin Manifested
  BY <1>1 DEF Manifested, IInv, Kept
<1>7. TypeOK' /\ Files'
  BY <1>1, <1>5 DEF IInv, TypeOK, Files
<1>8. Kept' /\ HistoryRecoverable'
  BY <1>1, <1>5, <1>6 DEF IInv, Kept, Preparing, HistoryRecoverable, Manifested
<1>9. ASSUME NothingRestored' PROVE Unrestored'
  <2>1. NothingRestored /\ Unrestored
    BY <1>1, <1>9 DEF IInv, NothingRestored
  <2>2. OneRow(active)' /\ Counted' /\ Aimed' /\ NewArchive' /\ Projected'
    BY <1>1, <1>6, <2>1
    DEF Unrestored, OneRow, Counted, Aimed, NewArchive, Projected, Preparing
  <2>3. Archived'
    BY <1>1, <1>5, <1>6, <2>1 DEF Unrestored, Archived, Manifested
  <2>4. RejectsOut'
    <3>1. retry \in {"ready", "running"} => plan'[generation] = plan[generation]
      BY <1>5, <1>6, <2>1 DEF Unrestored, Counted, Manifested
    <3> QED
      BY <1>1, <2>1, <3>1 DEF Unrestored, RejectsOut
  <2> QED
    BY <2>2, <2>3, <2>4 DEF Unrestored
<1> QED
  BY <1>7, <1>8, <1>9 DEF IInv

LEMMA WriteManifestKeeps ==
  ASSUME IInv, WriteManifest
  PROVE  IInv'
<1> USE Constants
<1> DEFINE archive == [before |-> active, after |-> Projection(plan[goal])]
<1>1. /\ UNCHANGED <<active, plan, intent, stage, state, partition, worker, retry,
                     generation, rounds, incomplete, job, goal, collected>>
      /\ Preparing /\ step = 0 /\ plan[goal] # None /\ manifest[goal] = None
      /\ step' = 1 /\ manifest' = [manifest EXCEPT ![goal] = archive]
  BY DEF WriteManifest, status
<1>2. active \in Corpus /\ Projection(plan[goal]) \in Corpus
  BY DEF IInv, TypeOK, Projection, Corpus
<1>3. archive \in Archive /\ archive # None
  BY <1>2 DEF Archive
<1>4. /\ \A t \in Tasks : archive.after[t] = {r \in archive.before[t] : plan[goal][r.seed] > t}
      /\ archive.before = active
  BY DEF Projection
<1> HIDE DEF archive
<1>5. goal \in Generations /\ manifest \in [Generations -> Archive \cup {None}]
  BY DEF IInv, TypeOK, Files
<1>6. /\ manifest' \in [Generations -> Archive \cup {None}]
      /\ manifest'[goal] = archive
      /\ \A g \in Generations : g # goal => manifest'[g] = manifest[g]
  BY <1>1, <1>3, <1>5
<1>7. Manifested' = Manifested \cup {goal} /\ goal \notin Manifested
  BY <1>1, <1>3, <1>5, <1>6 DEF Manifested
<1>8. TypeOK' /\ Files'
  BY <1>1, <1>6 DEF IInv, TypeOK, Files
<1>9. Kept'
  BY <1>1, <1>3, <1>6, <1>7 DEF IInv, Kept, Preparing
<1>10. HistoryRecoverable'
  BY <1>1, <1>6, <1>7 DEF IInv, HistoryRecoverable, Manifested
<1>11. ASSUME NothingRestored' PROVE Unrestored'
  <2>1. NothingRestored /\ Unrestored
    BY <1>1, <1>11 DEF IInv, NothingRestored
  <2>2. goal = generation + 1
    <3>1. goal \in {generation, generation + 1} /\ (retry = "none" => generation = 0)
      BY <1>1, <2>1 DEF Unrestored, Aimed, Counted
    <3>2. retry # "none" => generation \in Manifested
      BY <2>1 DEF Unrestored, Counted
    <3> QED
      BY <1>5, <1>7, <3>1, <3>2
  <2>3. retry \in {"none", "completed"}
    BY <1>1, <2>1, <2>2 DEF Unrestored, Aimed
  <2>4. OneRow(active)' /\ Aimed' /\ Counted'
    BY <1>1, <1>7, <2>1 DEF Unrestored, OneRow, Aimed, Counted, Preparing
  <2>5. Archived'
    <3> SUFFICES ASSUME NEW g \in Manifested'
                 PROVE  /\ OneRow(manifest'[g].before)
                        /\ \A t \in Tasks : manifest'[g].after[t] =
                             {r \in manifest'[g].before[t] : plan[g][r.seed] > t}
      BY <1>1 DEF Archived, OneRow
    <3>1. CASE g = goal
      BY <1>4, <1>6, <2>1, <3>1 DEF Unrestored
    <3>2. CASE g # goal
      BY <1>6, <1>7, <2>1, <3>2 DEF Unrestored, Archived, Manifested
    <3> QED
      BY <3>1, <3>2
  <2>6. NewArchive'
    <3>1. \A g \in Manifested' : g <= generation + 1
      BY <1>5, <1>7, <2>1, <2>2 DEF Unrestored, NewArchive
    <3>2. \A t \in Tasks : active[t] = manifest'[generation + 1].before[t]
      BY <1>4, <1>6, <2>2
    <3> QED
      BY <1>1, <2>2, <2>3, <3>1, <3>2 DEF NewArchive, Preparing
  <2>7. Projected' /\ RejectsOut'
    BY <1>1, <2>3 DEF Projected, RejectsOut
  <2> QED
    BY <2>4, <2>5, <2>6, <2>7 DEF Unrestored
<1> QED
  BY <1>8, <1>9, <1>10, <1>11 DEF IInv

LEMMA ProjectFileKeeps ==
  ASSUME IInv, ProjectFile
  PROVE  IInv'
<1> USE Constants
<1> DEFINE old == manifest[goal].before[step]
           new == manifest[goal].after[step]
<1>1. /\ UNCHANGED <<plan, manifest, intent, stage, state, partition, worker, retry,
                     generation, rounds, incomplete, job, goal, collected>>
      /\ Preparing /\ step \in Tasks /\ active[step] \in {old, new}
      /\ step' = step + 1 /\ active' = [active EXCEPT ![step] = new]
  BY DEF ProjectFile, files, status
<1>2. goal \in Generations /\ manifest[goal] \in Archive /\ goal \in Manifested
  BY <1>1 DEF IInv, TypeOK, Files, Kept, Manifested
<1>3. active \in Corpus /\ new \in SUBSET Row
  BY <1>1, <1>2 DEF IInv, TypeOK, Archive, Corpus
<1>4. /\ active' \in Corpus /\ active'[step] = new
      /\ \A t \in Tasks : t # step => active'[t] = active[t]
  BY <1>1, <1>3 DEF Corpus
<1>5. Manifested' = Manifested
  BY <1>1 DEF Manifested
<1>6. TypeOK' /\ Files'
  BY <1>1, <1>4 DEF IInv, TypeOK, Files
<1>7. Kept'
  BY <1>1, <1>2, <1>5 DEF IInv, Kept, Preparing, Manifested
<1>8. HistoryRecoverable'
  <2> SUFFICES ASSUME NEW t \in Tasks, NEW r \in Row, <<t, r>> \in collected
               PROVE  \/ r \in active'[t]
                      \/ \E g \in Manifested : r \in manifest[g].before[t]
                      \/ \E g \in Generations : intent[g] # None /\ r \in intent[g][t]
    BY <1>1, <1>5 DEF HistoryRecoverable
  <2>1. \/ r \in active[t]
        \/ \E g \in Manifested : r \in manifest[g].before[t]
        \/ \E g \in Generations : intent[g] # None /\ r \in intent[g][t]
    BY DEF IInv, HistoryRecoverable
  <2>2. CASE r \in active[t] /\ t = step
    BY <1>1, <1>2, <1>4, <2>2
  <2>3. CASE r \in active[t] /\ t # step
    BY <1>4, <2>3
  <2> QED
    BY <2>1, <2>2, <2>3
<1>9. ASSUME NothingRestored' PROVE Unrestored'
  <2>1. NothingRestored /\ Unrestored
    BY <1>1, <1>9 DEF IInv, NothingRestored
  <2>2. new = {r \in old : plan[goal][r.seed] > step}
    BY <1>1, <1>2, <2>1 DEF Unrestored, Archived
  <2>3. OneRow(active)'
    <3>1. \A r, q \in new : r.seed = q.seed => r = q
      BY <1>1, <1>2, <2>1, <2>2 DEF Unrestored, Archived, OneRow
    <3> SUFFICES ASSUME NEW t \in Tasks, NEW r \in active'[t], NEW q \in active'[t],
                        r.seed = q.seed
                 PROVE  r = q
      BY DEF OneRow
    <3>2. CASE t = step
      BY <1>4, <3>1, <3>2
    <3>3. CASE t # step
      BY <1>4, <2>1, <3>3 DEF Unrestored, OneRow
    <3> QED
      BY <3>2, <3>3
  <2>4. Archived' /\ Counted'
    BY <1>1, <1>5, <2>1 DEF Unrestored, Archived, Counted
  <2>5. Aimed'
    BY <1>1, <2>1 DEF Unrestored, Aimed, Preparing
  <2>6. NewArchive'
    <3>1. generation + 1 \in Manifested => goal = generation + 1
      BY <1>1, <2>1 DEF Unrestored, NewArchive
    <3>2. generation + 1 \in Manifested =>
            \A t \in Tasks : active'[t] \in {manifest[generation + 1].before[t],
                                             manifest[generation + 1].after[t]}
      BY <1>4, <2>1, <3>1 DEF Unrestored, NewArchive
    <3> QED
      BY <1>1, <1>5, <2>1, <3>2 DEF Unrestored, NewArchive, Preparing
  <2>7. Projected'
    <3> SUFFICES ASSUME NEW t \in Tasks, t < step + 1
                 PROVE  active'[t] = manifest[goal].after[t]
      BY <1>1 DEF Projected
    <3>1. CASE t = step
      BY <1>4, <3>1
    <3>2. CASE t # step
      BY <1>1, <1>4, <2>1, <3>2 DEF Unrestored, Projected
    <3> QED
      BY <3>1, <3>2
  <2>8. RejectsOut'
    <3> SUFFICES ASSUME retry \in {"ready", "running"}, NEW t \in Tasks, NEW r \in active'[t],
                        plan[generation][r.seed] <= t
                 PROVE  r.generation = generation
      BY <1>1 DEF RejectsOut
    <3>1. goal = generation
      BY <1>1, <2>1 DEF Unrestored, Aimed
    <3>2. CASE t = step
      <4>1. r \in Row /\ plan[generation] \in Root
        BY <1>2, <1>3, <1>4, <3>1, <3>2 DEF IInv, Files, Kept
      <4>2. plan[generation][r.seed] \in Nat
        BY <4>1 DEF Root, Row
      <4>3. plan[generation][r.seed] > step
        BY <1>4, <2>2, <3>1, <3>2
      <4> QED
        BY <1>1, <3>2, <4>2, <4>3
    <3>3. CASE t # step
      BY <1>4, <2>1, <3>3 DEF Unrestored, RejectsOut
    <3> QED
      BY <3>2, <3>3
  <2> QED
    BY <2>3, <2>4, <2>5, <2>6, <2>7, <2>8 DEF Unrestored
<1> QED
  BY <1>6, <1>7, <1>8, <1>9 DEF IInv

LEMMA RestoreIntentKeeps ==
  ASSUME IInv, RestoreIntent
  PROVE  IInv'
<1> USE Constants
<1>1. /\ UNCHANGED <<active, plan, manifest, stage, state, partition, worker, retry,
                     generation, rounds, incomplete, job, goal, collected>>
      /\ job = "restore" /\ step' = 1
      /\ intent' = IF intent[goal] = None THEN [intent EXCEPT ![goal] = active] ELSE intent
  BY DEF RestoreIntent, status
<1>2. goal \in Generations /\ active \in Corpus /\ active # None
  BY DEF IInv, TypeOK
<1>3. intent \in [Generations -> Corpus \cup {None}]
  BY DEF IInv, Files
<1>4. /\ intent' \in [Generations -> Corpus \cup {None}]
      /\ intent'[goal] # None
      /\ \A g \in Generations : intent[g] # None => intent'[g] = intent[g]
  BY <1>1, <1>2, <1>3
<1>5. Manifested' = Manifested
  BY <1>1 DEF Manifested
<1>6. TypeOK' /\ Files'
  BY <1>1, <1>4 DEF IInv, TypeOK, Files
<1>7. Kept'
  BY <1>1, <1>4, <1>5 DEF IInv, Kept, Preparing
<1>8. HistoryRecoverable'
  BY <1>1, <1>4, <1>5 DEF IInv, HistoryRecoverable
<1>9. ~NothingRestored'
  BY <1>2, <1>4 DEF NothingRestored
<1> QED
  BY <1>6, <1>7, <1>8, <1>9 DEF IInv

LEMMA RestoreFileKeeps ==
  ASSUME IInv, RestoreFile
  PROVE  IInv'
<1> USE Constants
<1> DEFINE old == manifest[goal].before[step]
<1>1. /\ UNCHANGED <<plan, manifest, intent, stage, state, partition, worker, retry,
                     generation, rounds, incomplete, job, goal, collected>>
      /\ job = "restore" /\ step \in Tasks /\ active[step] \in {intent[goal][step], old}
      /\ step' = step + 1 /\ active' = [active EXCEPT ![step] = old]
  BY DEF RestoreFile, files, status
<1>2. /\ goal \in Generations /\ manifest[goal] \in Archive /\ goal \in Manifested
      /\ intent[goal] # None
  BY <1>1 DEF IInv, TypeOK, Files, Kept, Manifested
<1>3. active \in Corpus /\ old \in SUBSET Row
  BY <1>1, <1>2 DEF IInv, TypeOK, Archive, Corpus
<1>4. /\ active' \in Corpus /\ active'[step] = old
      /\ \A t \in Tasks : t # step => active'[t] = active[t]
  BY <1>1, <1>3 DEF Corpus
<1>5. Manifested' = Manifested
  BY <1>1 DEF Manifested
<1>6. TypeOK' /\ Files'
  BY <1>1, <1>4 DEF IInv, TypeOK, Files
<1>7. Kept'
  BY <1>1, <1>2, <1>5 DEF IInv, Kept, Preparing
<1>8. HistoryRecoverable'
  <2> SUFFICES ASSUME NEW t \in Tasks, NEW r \in Row, <<t, r>> \in collected
               PROVE  \/ r \in active'[t]
                      \/ \E g \in Manifested : r \in manifest[g].before[t]
                      \/ \E g \in Generations : intent[g] # None /\ r \in intent[g][t]
    BY <1>1, <1>5 DEF HistoryRecoverable
  <2>1. \/ r \in active[t]
        \/ \E g \in Manifested : r \in manifest[g].before[t]
        \/ \E g \in Generations : intent[g] # None /\ r \in intent[g][t]
    BY DEF IInv, HistoryRecoverable
  <2>2. CASE r \in active[t] /\ t = step
    BY <1>1, <1>2, <1>4, <2>2
  <2>3. CASE r \in active[t] /\ t # step
    BY <1>4, <2>3
  <2> QED
    BY <2>1, <2>2, <2>3
<1>9. ~NothingRestored'
  BY <1>1, <1>2 DEF NothingRestored
<1> QED
  BY <1>6, <1>7, <1>8, <1>9 DEF IInv

LEMMA NextKeeps ==
  ASSUME IInv, [Next]_vars
  PROVE  IInv'
<1>1. ASSUME NEW s \in Seeds, NEW x \in Texts, Collect(s, x) PROVE IInv'
  BY <1>1, CollectKeeps
<1>2. ASSUME Round PROVE IInv'
  BY <1>2, BeginRoundKeeps, NextTaskKeeps, StageStopsKeeps, StageClosesKeeps, StageFailsKeeps,
     CollectionBlockedKeeps, PartitionReadyKeeps, PartitionNotReadyKeeps DEF Round
<1>3. ASSUME Prepare PROVE IInv'
  BY <1>3, OfflinePrepareKeeps, RecoverOrphanKeeps, WritePlanKeeps, WriteManifestKeeps,
     ReplayManifestKeeps, ProjectFileKeeps, ProjectRefusedKeeps, PrepareCommitKeeps DEF Prepare
<1>4. ASSUME Restore PROVE IInv'
  BY <1>4, RestoreBeginKeeps, RestoreIntentKeeps, RestoreFileKeeps, RestoreRefusedKeeps,
     RestoreCommitKeeps DEF Restore
<1>5. CASE Crash
  BY <1>5, CrashKeeps
<1>6. CASE UNCHANGED vars
  <2>1. UNCHANGED <<active, plan, manifest, intent, collected>> /\ UNCHANGED status
        /\ UNCHANGED <<job, goal, step>>
    BY <1>6 DEF vars, status
  <2>2. TypeOK' /\ Kept'
    BY <2>1, Still DEF IInv, TypeOK, Kept, Preparing, status
  <2>3. NothingRestored' => Counted' /\ Aimed' /\ NewArchive' /\ Projected' /\ RejectsOut'
    BY <2>1, Still
    DEF IInv, Unrestored, Counted, Aimed, NewArchive, Projected, RejectsOut,
       Preparing, status
  <2> QED
    BY <2>1, <2>2, <2>3, Still DEF IInv, Unrestored
<1> QED
  BY <1>1, <1>2, <1>3, <1>4, <1>5, <1>6 DEF Next

(* Every reachable state satisfies the invariant: the types, the steps a job   *)
(* relies on, and while nothing was restored what the retries keep.           *)
THEOREM Invariance == Spec => []IInv
<1>1. Init => IInv
  BY InitIInv
<1>2. IInv /\ [Next]_vars => IInv'
  BY NextKeeps
<1> QED
  BY <1>1, <1>2, PTL DEF Spec

(* Raw teacher history is never lost, with or without restores.               *)
THEOREM HistoryStays == Spec => []HistoryRecoverable
<1>1. IInv => HistoryRecoverable
  BY DEF IInv
<1> QED
  BY <1>1, Invariance, PTL

(* Until a generation is restored, no retry doubles a row, lets a rejected one *)
(* back in, or is refused by a task file it does not know.                     *)
THEOREM RetriesAreSafe == Spec => []Safety
<1>1. ASSUME IInv, NothingRestored PROVE OneRowPerSeed /\ RejectedRowsStayOut /\ FirstStageReplays
  <2>1. Unrestored
    BY <1>1 DEF IInv
  <2>2. OneRowPerSeed
    BY <2>1, RowsCounted DEF Unrestored
  <2>3. RejectedRowsStayOut
    BY <2>1 DEF Unrestored, RejectsOut, RejectedRowsStayOut, InForce, Planned, RowsOf
  <2>4. FirstStageReplays
    <3> SUFFICES ASSUME stage = 1, job \in {"prepare", "recover"}, step \in Tasks
                 PROVE  active[step] \in {manifest[goal].before[step],
                                          manifest[goal].after[step]}
      BY DEF FirstStageReplays, ReplayMeetsKnownFiles
    <3>1. goal = generation + 1
      BY <2>1 DEF Unrestored, Aimed
    <3>2. goal \in Manifested
      BY <1>1, Constants DEF IInv, TypeOK, Kept, Preparing, Manifested
    <3> QED
      BY <2>1, <3>1, <3>2 DEF Unrestored, NewArchive
  <2> QED
    BY <2>2, <2>3, <2>4
<1>2. IInv => Safety
  BY <1>1 DEF Safety, IInv
<1> QED
  BY <1>2, Invariance, PTL

(* A stage that does not see a row of the newest archive is flagged, or the    *)
(* retry that hid it is over.                                                  *)
THEOREM HidingIsFlagged == Spec => []HiddenRowsAreFlagged
<1>1. ASSUME IInv, job = "stage", NothingRestored, NEW g \in Manifested
      PROVE  incomplete \/ retry = "completed"
  <2>1. Unrestored
    BY <1>1 DEF IInv
  <2>2. retry # "none"
    <3>1. retry = "none" => generation + 1 # g /\ g <= generation + 1 /\ generation = 0
      BY <1>1, <2>1 DEF Unrestored, NewArchive, Counted
    <3> QED
      BY <3>1, Constants DEF Manifested
  <2> QED
    BY <1>1, <2>1, <2>2 DEF Unrestored, Counted, IInv, TypeOK
<1>2. IInv => HiddenRowsAreFlagged
  BY <1>1 DEF HiddenRowsAreFlagged
<1> QED
  BY <1>2, Invariance, PTL
===============================================================================
