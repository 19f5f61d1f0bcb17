------------------------- MODULE DistillationStageProofs -------------------------
(* Proofs about the task workers of a stage, for every set of seeds, workers   *)
(* and error classes and every number of tasks: what is stored, what is still  *)
(* sent after a signal, and what the report and the quarantine count.          *)
EXTENDS DistillationStage, FiniteSetTheorems, TLAPS

\* The jobs that are left have no row, and a job has one worker; workers run in open tasks.
JobsAreOpen ==
  /\ \A w \in Workers : at[w] # "off" => task \in Tasks
  /\ task \in Tasks => \A s \in todo : rows[task][s] = 0
  /\ \A w \in Workers : at[w] = "calling" =>
       /\ seed[w] \in Seeds /\ seed[w] \notin todo
       /\ rows[task][seed[w]] = 0
       /\ \A u \in Sources(task) : rows[u][seed[w]] = 1
       /\ \A v \in Workers : at[v] = "calling" /\ seed[v] = seed[w] => v = w

\* The types of what the jobs are made of.
JobTypes ==
  /\ rows \in [Tasks -> [Seeds -> Nat]]
  /\ task \in 0 .. TaskCount + 1
  /\ todo \subseteq Seeds
  /\ at \in [Workers -> Places]
  /\ seed \in [Workers -> Seeds \cup {None}]

\* A signal has stopped the workers of the task it met, and is of the run that is on.
SignalsStop == signals # {} => task # 0 /\ (task \in Tasks => terminal)

IInv == JobTypes /\ JobsAreOpen /\ OneRowPerSeed /\ SourceBeforeRow

LEMMA Bounds == TaskCount \in Nat \ {0} /\ None \notin Seeds
  BY StageAssumption

\* The tasks a task reads from are earlier tasks of the chain.
LEMMA SourcesAreOthers ==
  ASSUME NEW t \in Tasks
  PROVE  Sources(t) \subseteq Tasks /\ t \notin Sources(t) /\ \A u \in Sources(t) : u < t
  BY Bounds DEF Sources, Tasks

LEMMA InitIInv == Init => IInv /\ SignalsStop
<1> SUFFICES ASSUME Init PROVE IInv /\ SignalsStop
  OBVIOUS
<1>1. JobTypes
  BY Bounds DEF Init, JobTypes, Places
<1>2. JobsAreOpen /\ SignalsStop
  BY Bounds DEF Init, JobsAreOpen, SignalsStop, Tasks
<1>3. \A t \in Tasks, s \in Seeds : rows[t][s] = 0
  BY DEF Init
<1>4. OneRowPerSeed /\ SourceBeforeRow
  BY <1>3 DEF OneRowPerSeed, SourceBeforeRow
<1> QED
  BY <1>1, <1>2, <1>4 DEF IInv

------------------------------------------------------------------------------
(* The workers *)

\* A worker leaves its place without asking anything.
LEMMA QuietKeeps ==
  ASSUME IInv, NEW w \in Workers, NEW a \in Places \ {"calling"}, NEW s \in Seeds \cup {None},
         a # "off" => at[w] # "off",
         at' = [at EXCEPT ![w] = a], seed' = [seed EXCEPT ![w] = s],
         todo' \subseteq todo, UNCHANGED <<rows, task>>
  PROVE  IInv'
<1>1. JobTypes'
  BY DEF IInv, JobTypes
<1>2. at'[w] = a /\ \A v \in Workers : v # w => at'[v] = at[v] /\ seed'[v] = seed[v]
  BY DEF IInv, JobTypes
<1>3. JobsAreOpen'
  BY <1>2 DEF IInv, JobsAreOpen
<1> QED
  BY <1>1, <1>3 DEF IInv, OneRowPerSeed, SourceBeforeRow

LEMMA CallKeeps ==
  ASSUME IInv, NEW w \in Workers, Call(w)
  PROVE  IInv'
<1>1. PICK s \in Seeds :
        /\ at[w] = "free" /\ s \in todo /\ todo' = todo \ {s} /\ HasSource(s)
        /\ at' = [at EXCEPT ![w] = "calling"] /\ seed' = [seed EXCEPT ![w] = s]
        /\ UNCHANGED <<rows, task>>
  BY DEF Call, TakeJob, stored, run
<1>2. task \in Tasks /\ rows[task][s] = 0 /\ \A u \in Sources(task) : rows[u][s] = 1
  BY <1>1 DEF IInv, JobsAreOpen, HasSource
<1>3. JobTypes'
  BY <1>1 DEF IInv, JobTypes, Places
<1>4. /\ at'[w] = "calling" /\ seed'[w] = s
      /\ \A v \in Workers : v # w => at'[v] = at[v] /\ seed'[v] = seed[v]
  BY <1>1 DEF IInv, JobTypes
<1>5. \A v \in Workers : at[v] = "calling" => seed[v] # s
  BY <1>1 DEF IInv, JobsAreOpen
<1>6. JobsAreOpen'
  <2>1. \A v \in Workers : at'[v] # "off" => task' \in Tasks
    BY <1>1, <1>2
  <2>2. \A r \in todo' : rows'[task'][r] = 0
    BY <1>1, <1>2 DEF IInv, JobsAreOpen
  <2>3. ASSUME NEW v \in Workers, at'[v] = "calling"
        PROVE  /\ seed'[v] \in Seeds /\ seed'[v] \notin todo'
               /\ rows'[task'][seed'[v]] = 0
               /\ \A u \in Sources(task') : rows'[u][seed'[v]] = 1
               /\ \A x \in Workers : at'[x] = "calling" /\ seed'[x] = seed'[v] => x = v
    <3>1. CASE v = w
      BY <1>1, <1>2, <1>4, <1>5, <3>1
    <3>2. CASE v # w
      BY <1>1, <1>4, <1>5, <2>3, <3>2 DEF IInv, JobsAreOpen
    <3> QED
      BY <3>1, <3>2
  <2> QED
    BY <2>1, <2>2, <2>3 DEF JobsAreOpen
<1> QED
  BY <1>1, <1>3, <1>6 DEF IInv, OneRowPerSeed, SourceBeforeRow

LEMMA AnswerStoredKeeps ==
  ASSUME IInv, NEW w \in Workers, AnswerStored(w)
  PROVE  IInv'
<1> DEFINE s == seed[w]
<1>1. /\ at[w] = "calling" /\ rows' = [rows EXCEPT ![task][s] = @ + 1]
      /\ at' = [at EXCEPT ![w] = "saving"] /\ UNCHANGED <<todo, seed, task>>
  BY DEF AnswerStored, run
<1>2. /\ task \in Tasks /\ s \in Seeds /\ s \notin todo /\ rows[task][s] = 0
      /\ \A u \in Sources(task) : rows[u][s] = 1
      /\ \A v \in Workers : at[v] = "calling" /\ seed[v] = s => v = w
  BY <1>1 DEF IInv, JobsAreOpen
<1> HIDE DEF s
<1>3. /\ rows' \in [Tasks -> [Seeds -> Nat]] /\ rows'[task][s] = 1
      /\ \A t \in Tasks, r \in Seeds : t # task \/ r # s => rows'[t][r] = rows[t][r]
  BY <1>1, <1>2 DEF IInv, JobTypes
<1>4. JobTypes'
  BY <1>1, <1>3 DEF IInv, JobTypes, Places
<1>5. at'[w] = "saving" /\ \A v \in Workers : v # w => at'[v] = at[v]
  BY <1>1 DEF IInv, JobTypes
<1>6. Sources(task) \subseteq Tasks /\ task \notin Sources(task)
  BY <1>2, SourcesAreOthers
<1>7. JobsAreOpen'
  <2>1. \A v \in Workers : at'[v] # "off" => task' \in Tasks
    BY <1>1, <1>2
  <2>2. \A r \in todo' : rows'[task'][r] = 0
    BY <1>1, <1>2, <1>3 DEF IInv, JobsAreOpen, JobTypes
  <2>3. ASSUME NEW v \in Workers, at'[v] = "calling"
        PROVE  /\ seed'[v] \in Seeds /\ seed'[v] \notin todo'
               /\ rows'[task'][seed'[v]] = 0
               /\ \A u \in Sources(task') : rows'[u][seed'[v]] = 1
               /\ \A x \in Workers : at'[x] = "calling" /\ seed'[x] = seed'[v] => x = v
    <3>1. v # w /\ at[v] = "calling" /\ seed'[v] = seed[v] /\ seed[v] # s
      BY <1>1, <1>2, <1>5, <2>3
    <3>2. /\ seed[v] \in Seeds /\ seed[v] \notin todo /\ rows[task][seed[v]] = 0
          /\ \A u \in Sources(task) : rows[u][seed[v]] = 1
          /\ \A x \in Workers : at[x] = "calling" /\ seed[x] = seed[v] => x = v
      BY <3>1 DEF IInv, JobsAreOpen
    <3>3. \A x \in Workers : at'[x] = "calling" => at[x] = "calling"
      BY <1>5
    <3> QED
      BY <1>1, <1>2, <1>3, <1>6, <3>1, <3>2, <3>3
  <2> QED
    BY <2>1, <2>2, <2>3 DEF JobsAreOpen
<1>8. OneRowPerSeed'
  <2> SUFFICES ASSUME NEW t \in Tasks, NEW r \in Seeds PROVE rows'[t][r] <= 1
    BY DEF OneRowPerSeed
  <2>1. CASE t = task /\ r = s
    BY <1>3, <2>1
  <2>2. CASE t # task \/ r # s
    BY <1>3, <2>2 DEF IInv, OneRowPerSeed
  <2> QED
    BY <2>1, <2>2
<1>9. SourceBeforeRow'
  <2> SUFFICES ASSUME NEW t \in Tasks, NEW r \in Seeds, rows'[t][r] > 0, NEW u \in Sources(t)
               PROVE  rows'[u][r] = 1
    BY DEF SourceBeforeRow
  <2>1. u \in Tasks /\ u # t
    BY SourcesAreOthers
  <2>2. CASE t = task /\ r = s
    BY <1>2, <1>3, <2>1, <2>2
  <2>3. CASE t # task \/ r # s
    \* The row was there before, and so were its sources: this one is none of them.
    <3>1. rows[u][r] = 1
      BY <1>3, <2>3 DEF IInv, SourceBeforeRow
    <3>2. u # task \/ r # s
      BY <1>2, <3>1
    <3> QED
      BY <1>3, <2>1, <3>1, <3>2
  <2> QED
    BY <2>2, <2>3
<1> QED
  BY <1>4, <1>7, <1>8, <1>9 DEF IInv

LEMMA WorkerKeeps ==
  ASSUME IInv, NEW w \in Workers,
         \/ RefuseJob(w) \/ Leave(w) \/ Saved(w) \/ AnswerError(w) \/ AnswerSignal(w)
         \/ AppendRaises(w) \/ CheckpointRaises(w)
  PROVE  IInv'
<1> USE DEF stored, opened, run, history, EndJob, Die
<1>1. None \in Seeds \cup {None} /\ seed[w] \in Seeds \cup {None} /\ at[w] \in Places
  BY DEF IInv, JobTypes
<1>2. "off" \in Places \ {"calling"} /\ "free" \in Places \ {"calling"}
  BY DEF Places
<1>3. at = [at EXCEPT ![w] = at[w]] /\ seed = [seed EXCEPT ![w] = seed[w]]
  BY DEF IInv, JobTypes
<1>4. CASE RefuseJob(w)
  <2>1. /\ at[w] # "off"
        /\ at' = [at EXCEPT ![w] = "free"] /\ seed' = [seed EXCEPT ![w] = seed[w]]
        /\ todo' \subseteq todo /\ UNCHANGED <<rows, task>>
    BY <1>3, <1>4 DEF RefuseJob, TakeJob
  <2> QED
    BY <1>1, <1>2, <2>1, QuietKeeps
<1>5. CASE Leave(w)
  <2>1. /\ at' = [at EXCEPT ![w] = "off"] /\ seed' = [seed EXCEPT ![w] = seed[w]]
        /\ todo' \subseteq todo /\ UNCHANGED <<rows, task>>
    BY <1>3, <1>5 DEF Leave
  <2> QED
    BY <1>1, <1>2, <2>1, QuietKeeps
<1>6. CASE Saved(w) \/ AnswerError(w) \/ AnswerSignal(w)
  <2>1. /\ at[w] # "off"
        /\ at' = [at EXCEPT ![w] = "free"] /\ seed' = [seed EXCEPT ![w] = None]
        /\ todo' \subseteq todo /\ UNCHANGED <<rows, task>>
    BY <1>6 DEF Saved, AnswerError, AnswerSignal
  <2> QED
    BY <1>1, <1>2, <2>1, QuietKeeps
<1>7. CASE AppendRaises(w) \/ CheckpointRaises(w)
  <2>1. /\ at' = [at EXCEPT ![w] = "off"] /\ seed' = [seed EXCEPT ![w] = None]
        /\ todo' \subseteq todo /\ UNCHANGED <<rows, task>>
    BY <1>7 DEF AppendRaises, CheckpointRaises
  <2> QED
    BY <1>1, <1>2, <2>1, QuietKeeps
<1> QED
  BY <1>4, <1>5, <1>6, <1>7

------------------------------------------------------------------------------
(* The runner *)

LEMMA OpenKeeps ==
  ASSUME IInv, NEW t \in Tasks, Open(t), UNCHANGED rows
  PROVE  IInv'
<1>1. /\ task' = t /\ todo' \subseteq Seeds /\ \A s \in todo' : rows[t][s] = 0
      /\ at' = [w \in Workers |-> "free"] /\ seed' = [w \in Workers |-> None]
  BY DEF Open, Pending
<1>2. JobTypes'
  BY <1>1, Bounds DEF IInv, JobTypes, Places, Tasks
<1>3. JobsAreOpen'
  BY <1>1 DEF JobsAreOpen
<1> QED
  BY <1>2, <1>3 DEF IInv, OneRowPerSeed, SourceBeforeRow

\* A task closes with no worker left in it.
LEMMA CloseKeeps ==
  ASSUME IInv, task' \in {0, TaskCount + 1}, UNCHANGED rows, todo' \subseteq Seeds,
         \A w \in Workers : at'[w] = "off",
         at' \in [Workers -> Places], seed' \in [Workers -> Seeds \cup {None}]
  PROVE  IInv'
<1>1. task' \notin Tasks /\ task' \in 0 .. TaskCount + 1
  BY Bounds DEF Tasks
<1>2. JobTypes' /\ JobsAreOpen'
  BY <1>1 DEF IInv, JobTypes, JobsAreOpen
<1> QED
  BY <1>2 DEF IInv, OneRowPerSeed, SourceBeforeRow

LEMMA PlanKeeps == ASSUME IInv, PlanRetry PROVE IInv'
<1>1. PICK root \in [Seeds -> 1 .. TaskCount + 1] :
        /\ \A s \in Seeds, t \in Tasks : t < root[s] => rows[t][s] = 1
        /\ rows' = [t \in Tasks |-> [s \in Seeds |-> IF root[s] <= t THEN 0 ELSE rows[t][s]]]
  BY DEF PlanRetry
<1>2. task = 0 /\ UNCHANGED <<task, todo, at, seed>>
  BY DEF PlanRetry, opened, run
<1>3. \A t \in Tasks, s \in Seeds : rows'[t][s] = IF t < root[s] THEN 1 ELSE 0
  <2> SUFFICES ASSUME NEW t \in Tasks, NEW s \in Seeds
               PROVE  rows'[t][s] = IF t < root[s] THEN 1 ELSE 0
    OBVIOUS
  <2>1. root[s] \in Nat /\ t \in Nat
    BY Bounds DEF Tasks
  <2>2. rows'[t][s] = IF root[s] <= t THEN 0 ELSE rows[t][s]
    BY <1>1
  <2>3. root[s] <= t <=> ~(t < root[s])
    BY <2>1
  <2> QED
    BY <1>1, <2>2, <2>3
<1>4. JobTypes'
  BY <1>1, <1>2 DEF IInv, JobTypes
<1>5. JobsAreOpen'
  BY <1>2, Bounds DEF IInv, JobsAreOpen, Tasks
<1>6. OneRowPerSeed'
  BY <1>3 DEF OneRowPerSeed
\* What is left of a chain ends before its root, and so do its sources.
<1>7. SourceBeforeRow'
  <2> SUFFICES ASSUME NEW t \in Tasks, NEW s \in Seeds, rows'[t][s] > 0, NEW u \in Sources(t)
               PROVE  rows'[u][s] = 1
    BY DEF SourceBeforeRow
  <2>1. t < root[s] /\ u \in Tasks /\ u < t
    BY <1>3, SourcesAreOthers
  <2>2. u < root[s]
    BY <2>1, Bounds DEF Tasks
  <2> QED
    BY <1>3, <2>1, <2>2
<1> QED
  BY <1>4, <1>5, <1>6, <1>7 DEF IInv

LEMMA RunnerKeeps ==
  ASSUME IInv, BeginRun \/ Control \/ Crash
  PROVE  IInv'
<1> USE DEF stored, opened, history
<1>1. CASE BeginRun
  BY <1>1, OpenKeeps, Bounds DEF BeginRun, Tasks
<1>2. CASE NextTask
  <2>1. task + 1 \in Tasks /\ Open(task + 1) /\ UNCHANGED rows
    BY <1>2, Bounds DEF NextTask, Tasks
  <2>2. ASSUME NEW t \in Tasks, t = task + 1 PROVE IInv'
    BY <2>1, <2>2, OpenKeeps
  <2> QED
    BY <2>1, <2>2
<1>3. CASE EndTasks
  BY <1>3, CloseKeeps DEF EndTasks, AllOff, IInv, JobTypes
<1>4. CASE RunFails \/ Report \/ Crash
  <2>1. EndRun /\ UNCHANGED rows
    BY <1>4 DEF RunFails, Report, Crash
  <2>2. /\ task' \in {0, TaskCount + 1} /\ todo' \subseteq Seeds /\ \A w \in Workers : at'[w] = "off"
        /\ at' \in [Workers -> Places] /\ seed' \in [Workers -> Seeds \cup {None}]
    BY <2>1 DEF EndRun, Places
  <2> QED
    BY <2>1, <2>2, CloseKeeps
<1> QED
  BY <1>1, <1>2, <1>3, <1>4 DEF Control

LEMMA Inductive == IInv /\ [Next]_vars => IInv'
<1> SUFFICES ASSUME IInv, [Next]_vars PROVE IInv'
  OBVIOUS
<1>1. ASSUME NEW w \in Workers, EventLoop(w) \/ Outcome(w) \/ CheckpointRaises(w) PROVE IInv'
  BY <1>1, CallKeeps, AnswerStoredKeeps, WorkerKeeps DEF EventLoop, Outcome
<1>2. CASE UNCHANGED vars
  BY <1>2 DEF vars, IInv, JobTypes, JobsAreOpen, OneRowPerSeed, SourceBeforeRow
<1> QED
  BY <1>1, <1>2, RunnerKeeps, PlanKeeps DEF Next

\* Whatever workers race, die or are stopped, and however often the stage is run again, a seed
\* has at most one row in each task file, and each row has exactly one row of each source.
THEOREM RowsAreUniqueAndSourced == Spec => [](OneRowPerSeed /\ SourceBeforeRow)
<1>1. IInv => OneRowPerSeed /\ SourceBeforeRow
  BY DEF IInv
<1> QED
  BY InitIInv, Inductive, <1>1, PTL DEF Spec

------------------------------------------------------------------------------
(* Signals *)

LEMMA SignalsStopKept == IInv /\ SignalsStop /\ [Next]_vars => SignalsStop'
<1> SUFFICES ASSUME IInv, SignalsStop, [Next]_vars PROVE SignalsStop'
  OBVIOUS
<1> USE DEF SignalsStop, stored, opened, run, history
<1>1. ASSUME NEW w \in Workers, EventLoop(w) \/ Outcome(w) \/ CheckpointRaises(w)
      PROVE  SignalsStop'
  <2>1. CASE Call(w) \/ RefuseJob(w) \/ Leave(w) \/ Saved(w) \/ AnswerStored(w)
             \/ AnswerError(w) \/ CheckpointRaises(w)
    BY <2>1 DEF Call, RefuseJob, Leave, Saved, AnswerStored, AnswerError, CheckpointRaises
  <2>2. CASE AnswerSignal(w) \/ AppendRaises(w)
    <3>1. task \in Tasks /\ task # 0
      BY <2>2, Bounds DEF AnswerSignal, AppendRaises, IInv, JobsAreOpen, Tasks
    <3> QED
      BY <2>2, <3>1 DEF AnswerSignal, AppendRaises
  <2> QED
    BY <1>1, <2>1, <2>2 DEF EventLoop, Outcome
<1>2. CASE BeginRun \/ NextTask \/ PlanRetry
  BY <1>2, Bounds DEF BeginRun, NextTask, PlanRetry, Tasks
<1>3. CASE EndTasks \/ RunFails \/ Report \/ Crash
  BY <1>3, Bounds DEF EndTasks, RunFails, Report, Crash, EndRun, Tasks
<1>4. CASE UNCHANGED vars
  BY <1>4 DEF vars
<1> QED
  BY <1>1, <1>2, <1>3, <1>4 DEF Next, Control

\* After a rate limit, a deadline or a failed append no worker asks anything new in that run,
\* in this task or a later one.
THEOREM NoRequestAfterSignal == Spec => NothingSentAfterSignal
<1>1. IInv /\ SignalsStop /\ [Next]_vars =>
        [\A w \in Workers : (at[w] # "calling" /\ at'[w] = "calling") => signals = {}]_vars
  <2> SUFFICES ASSUME IInv, SignalsStop, Next, NEW w \in Workers,
                      at[w] # "calling", at'[w] = "calling"
               PROVE  signals = {}
    OBVIOUS
  <2> USE DEF stored, opened, run, history, EndJob, Die
  <2>1. at \in [Workers -> Places]
    BY DEF IInv, JobTypes
  <2>2. ASSUME NEW v \in Workers, Call(v) PROVE signals = {}
    <3>1. at[v] = "free" /\ ~terminal
      BY <2>2 DEF Call, TakeJob
    <3> QED
      BY <3>1 DEF IInv, JobsAreOpen, SignalsStop
  <2>3. ASSUME NEW v \in Workers,
               \/ RefuseJob(v) \/ Leave(v) \/ Saved(v) \/ AnswerStored(v) \/ AnswerError(v)
               \/ AnswerSignal(v) \/ AppendRaises(v) \/ CheckpointRaises(v)
        PROVE  FALSE
    BY <2>1, <2>3 DEF RefuseJob, Leave, Saved, AnswerStored, AnswerError, AnswerSignal,
                      AppendRaises, CheckpointRaises
  <2>4. CASE BeginRun \/ PlanRetry \/ Control \/ Crash
    BY <2>1, <2>4 DEF BeginRun, PlanRetry, Control, NextTask, EndTasks, RunFails, Report, Crash,
                      Open, EndRun
  <2> QED
    BY <2>2, <2>3, <2>4 DEF Next, EventLoop, Outcome
<1>2. Init /\ [][Next]_vars => [](IInv /\ SignalsStop)
  BY InitIInv, Inductive, SignalsStopKept, PTL
<1> QED
  BY <1>1, <1>2, PTL DEF Spec, NothingSentAfterSignal

------------------------------------------------------------------------------
(* The report and the rejections *)

\* The jobs of the open task that are waiting or called.
Left == todo \cup {s \in Seeds : \E w \in Workers : at[w] = "calling" /\ seed[w] = s}

\* While no worker has died, a seed is skipped, written, in error or left; who left has seen
\* that nothing is to do.
Counted ==
  task \in Tasks =>
    /\ errors \cap Left = {}
    /\ ~fatal => skipped + written + Cardinality(errors) + Cardinality(Left) = Cardinality(Seeds)
    /\ ~terminal /\ ~fatal /\ (\E w \in Workers : at[w] = "off") => todo = {}

\* A run charges a seed in the tasks it has opened, with the end of the seed's only job there.
ChargedOnce ==
  /\ task = 0 => charged = {}
  /\ task # 0 => \A k \in charged : k[1] <= task /\ (k[1] = task => k[2] \notin Left)

Charged(t, s) == task # 0 /\ \E c \in Classes : <<t, s, c>> \in charged

\* The failures that were charged to a seed in a task, one by one, up to the quarantine.
Tries(t, s) == {x \in Classes \X (1 .. MaxFailureRetries) : x[2] <= attempts[<<t, s, x[1]>>]}

\* A job that the quarantine would have kept closed, and a plan has opened.
Overriding(t, s) == task = t /\ s \in Left

AsOne(b) == IF b THEN 1 ELSE 0

MaxTries == MaxFailureRetries * Cardinality(Classes)

\* A rejected answer was charged, is about to be, or its report was lost; after the quarantine
\* it, or the one a job may still get, is one that a plan allowed.
RejectionsPaid ==
  \A t \in Tasks, s \in Seeds :
    /\ s \notin Spent(t) => fails[t][s] <= Cardinality(Tries(t, s)) + losses + AsOne(Charged(t, s))
    /\ s \in Spent(t) =>
         fails[t][s] + AsOne(Overriding(t, s)) <= MaxTries + 1 + losses + overrides[t][s]

RInv == TypeOK /\ Counted /\ ChargedOnce /\ RejectionsPaid

LEMMA Numbers == /\ IsFiniteSet(Seeds) /\ Cardinality(Seeds) \in Nat
                 /\ IsFiniteSet(Classes) /\ Cardinality(Classes) \in Nat
                 /\ MaxFailureRetries \in Nat /\ Tasks \subseteq Nat \ {0}
                 /\ TaskCount \in Nat \ {0} /\ None \notin Seeds /\ Workers # {}
                 /\ MaxTries \in Nat
<1>1. Cardinality(Classes) \in Nat /\ MaxFailureRetries \in Nat
  BY StageAssumption, FS_CardinalityType
<1>2. MaxTries \in Nat
  BY <1>1 DEF MaxTries
<1> QED
  BY <1>1, <1>2, StageAssumption, FS_CardinalityType DEF Tasks

\* A class is charged at most MaxFailureRetries failures before the quarantine.
LEMMA TriesFinite ==
  ASSUME NEW t, NEW s
  PROVE  /\ IsFiniteSet(Tries(t, s)) /\ Cardinality(Tries(t, s)) \in Nat
         /\ Cardinality(Tries(t, s)) <= MaxTries
<1> DEFINE P == Classes \X (1 .. MaxFailureRetries)
<1>1. IsFiniteSet(1 .. MaxFailureRetries) /\ Cardinality(1 .. MaxFailureRetries) = MaxFailureRetries
  <2>1. 1 \in Int /\ MaxFailureRetries \in Int
    BY Numbers
  <2>2. /\ IsFiniteSet(1 .. MaxFailureRetries)
        /\ Cardinality(1 .. MaxFailureRetries) =
             IF 1 > MaxFailureRetries THEN 0 ELSE MaxFailureRetries - 1 + 1
    BY <2>1, FS_Interval
  <2> QED
    BY <2>2, Numbers
<1>2. IsFiniteSet(P) /\ Cardinality(P) = Cardinality(Classes) * MaxFailureRetries
  BY <1>1, Numbers, FS_Product
<1>3. Cardinality(P) = MaxTries
  BY <1>2, Numbers DEF MaxTries
<1>4. Tries(t, s) \in SUBSET P
  BY DEF Tries
<1> HIDE DEF P, Tries
<1>5. IsFiniteSet(Tries(t, s)) /\ Cardinality(Tries(t, s)) <= Cardinality(P)
  BY <1>2, <1>4, FS_Subset
<1> QED
  BY <1>3, <1>5, FS_CardinalityType

LEMMA LeftFinite ==
  ASSUME IInv
  PROVE  /\ Left \subseteq Seeds /\ IsFiniteSet(Left) /\ Cardinality(Left) \in Nat
         /\ \A E \in SUBSET Seeds : IsFiniteSet(E) /\ Cardinality(E) \in Nat
<1>1. Left \subseteq Seeds
  BY DEF Left, IInv, JobTypes
<1>2. \A E \in SUBSET Seeds : IsFiniteSet(E) /\ Cardinality(E) \in Nat
  BY Numbers, FS_Subset, FS_CardinalityType
<1> QED
  BY <1>1, <1>2

LEMMA InitRInv == Init => RInv
<1> SUFFICES ASSUME Init PROVE RInv
  OBVIOUS
<1> USE Numbers DEF Init
<1>1. TypeOK
  <2>1. /\ rows \in [Tasks -> [Seeds -> Nat]] /\ fails \in [Tasks -> [Seeds -> Nat]]
        /\ attempts \in [Tasks \X Seeds \X Classes -> Nat]
        /\ overrides \in [Tasks -> [Seeds -> Nat]] /\ planned \in [Tasks -> SUBSET Seeds]
    BY DEF NoPlan
  <2>2. at \in [Workers -> Places] /\ seed \in [Workers -> Seeds \cup {None}] /\ state \in States
    BY DEF States, Places
  <2>3. task \in 0 .. TaskCount + 1 /\ written \in Nat /\ skipped \in Nat /\ losses \in Nat
    OBVIOUS
  <2> QED
    BY <2>1, <2>2, <2>3 DEF TypeOK
<1>2. Counted /\ ChargedOnce
  BY DEF Counted, ChargedOnce, Tasks
<1>3. RejectionsPaid
  <2> SUFFICES ASSUME NEW t \in Tasks, NEW s \in Seeds
               PROVE  /\ s \notin Spent(t)
                      /\ fails[t][s] <= Cardinality(Tries(t, s)) + losses + AsOne(Charged(t, s))
    BY DEF RejectionsPaid
  <2>1. s \notin Spent(t)
    <3>1. \A c \in Classes : attempts[<<t, s, c>>] = 0
      OBVIOUS
    <3>2. ~(0 > MaxFailureRetries)
      OBVIOUS
    <3> QED
      BY <3>1, <3>2 DEF Spent
  <2>2. fails[t][s] = 0 /\ losses = 0 /\ AsOne(Charged(t, s)) \in Nat /\ Cardinality(Tries(t, s)) \in Nat
    BY TriesFinite DEF AsOne
  <2> QED
    BY <2>1, <2>2
<1> QED
  BY <1>1, <1>2, <1>3 DEF RInv

\* What workers are at decides which jobs are left.
LEMMA LeftKept ==
  ASSUME IInv, NEW w \in Workers, NEW a \in Places \ {"calling"}, NEW s \in Seeds \cup {None},
         at[w] # "calling", at' = [at EXCEPT ![w] = a], seed' = [seed EXCEPT ![w] = s],
         UNCHANGED todo
  PROVE  Left' = Left
<1>1. at'[w] = a /\ \A v \in Workers : v # w => at'[v] = at[v] /\ seed'[v] = seed[v]
  BY DEF IInv, JobTypes
<1> QED
  BY <1>1 DEF Left

LEMMA LeftCalled ==
  ASSUME IInv, NEW w \in Workers, NEW s \in Seeds, at[w] = "free", s \in todo,
         todo' = todo \ {s}, at' = [at EXCEPT ![w] = "calling"], seed' = [seed EXCEPT ![w] = s]
  PROVE  Left' = Left
<1>1. /\ at'[w] = "calling" /\ seed'[w] = s
      /\ \A v \in Workers : v # w => at'[v] = at[v] /\ seed'[v] = seed[v]
  BY DEF IInv, JobTypes
<1>2. {r \in Seeds : \E v \in Workers : at'[v] = "calling" /\ seed'[v] = r}
        = {r \in Seeds : \E v \in Workers : at[v] = "calling" /\ seed[v] = r} \cup {s}
  BY <1>1
<1> QED
  BY <1>2 DEF Left, IInv, JobTypes

LEMMA LeftRefused ==
  ASSUME IInv, NEW s \in Seeds, s \in todo, todo' = todo \ {s}, UNCHANGED <<at, seed>>
  PROVE  s \in Left /\ Left' = Left \ {s}
<1>1. ~\E v \in Workers : at[v] = "calling" /\ seed[v] = s
  BY DEF IInv, JobsAreOpen
<1> QED
  BY <1>1 DEF Left

\* A called job is over, whatever the worker does next.
LEMMA LeftAnswered ==
  ASSUME IInv, NEW w \in Workers, NEW a \in Places \ {"calling"}, NEW s \in Seeds \cup {None},
         at[w] = "calling", at' = [at EXCEPT ![w] = a],
         seed' = [seed EXCEPT ![w] = s], UNCHANGED todo
  PROVE  seed[w] \in Left /\ Left' = Left \ {seed[w]}
<1>1. at'[w] = a /\ \A v \in Workers : v # w => at'[v] = at[v] /\ seed'[v] = seed[v]
  BY DEF IInv, JobTypes
<1>2. /\ seed[w] \in Seeds /\ seed[w] \notin todo
      /\ \A v \in Workers : at[v] = "calling" /\ seed[v] = seed[w] => v = w
  BY DEF IInv, JobsAreOpen
<1>3. {r \in Seeds : \E v \in Workers : at'[v] = "calling" /\ seed'[v] = r}
        = {r \in Seeds : \E v \in Workers : at[v] = "calling" /\ seed[v] = r} \ {seed[w]}
  BY <1>1, <1>2
<1> QED
  BY <1>2, <1>3 DEF Left

\* The numbers of a report move together: one job less, and one row or one error more.
LEMMA JobOverCounts ==
  ASSUME IInv, TypeOK, Counted, task \in Tasks, NEW s \in Left, Left' = Left \ {s},
         UNCHANGED <<task, skipped, fatal>>,
         \/ errors' = errors /\ written' = written + 1
         \/ errors' = errors \cup {s} /\ written' = written
  PROVE  /\ errors' \cap Left' = {}
         /\ ~fatal' => skipped' + written' + Cardinality(errors') + Cardinality(Left')
                         = Cardinality(Seeds)
<1>1. /\ IsFiniteSet(Left) /\ Cardinality(Left) \in Nat /\ IsFiniteSet(errors)
      /\ Cardinality(errors) \in Nat /\ skipped \in Nat /\ written \in Nat /\ s \notin errors
  BY LeftFinite DEF TypeOK, Counted
<1>2. Cardinality(Left \ {s}) = Cardinality(Left) - 1
  BY <1>1, FS_RemoveElement
<1>3. Cardinality(errors \cup {s}) = Cardinality(errors) + 1
  BY <1>1, FS_AddElement
<1>4. errors' \cap Left' = {}
  BY <1>1 DEF Counted
<1>5. ~fatal => skipped + written + Cardinality(errors) + Cardinality(Left) = Cardinality(Seeds)
  BY DEF Counted
<1>6. ASSUME ~fatal'
      PROVE  skipped' + written' + Cardinality(errors') + Cardinality(Left') = Cardinality(Seeds)
  <2>1. CASE errors' = errors /\ written' = written + 1
    BY <1>1, <1>2, <1>5, <1>6, <2>1, Numbers
  <2>2. CASE errors' = errors \cup {s} /\ written' = written
    BY <1>1, <1>2, <1>3, <1>5, <1>6, <2>2, Numbers
  <2> QED
    BY <2>1, <2>2
<1> QED
  BY <1>4, <1>6

LEMMA PaidKept ==
  ASSUME TypeOK, RejectionsPaid, losses' \in Nat, losses' >= losses, UNCHANGED <<attempts, fails>>,
         \A t \in Tasks, s \in Seeds :
           /\ Charged(t, s) => Charged(t, s)' \/ losses' > losses
           /\ overrides'[t][s] \in Nat /\ overrides'[t][s] >= overrides[t][s]
           /\ s \in Spent(t) /\ Overriding(t, s)' =>
                Overriding(t, s) \/ overrides'[t][s] > overrides[t][s]
  PROVE  RejectionsPaid'
<1> SUFFICES ASSUME NEW t \in Tasks, NEW s \in Seeds
             PROVE  /\ (s \notin Spent(t))' =>
                         fails'[t][s] <= Cardinality(Tries(t, s)') + losses' + AsOne(Charged(t, s)')
                    /\ (s \in Spent(t))' =>
                         fails'[t][s] + AsOne(Overriding(t, s)')
                           <= MaxTries + 1 + losses' + overrides'[t][s]
  BY DEF RejectionsPaid, AsOne
<1>1. Tries(t, s)' = Tries(t, s) /\ Spent(t)' = Spent(t)
  BY DEF Tries, Spent
<1>2. /\ Cardinality(Tries(t, s)) \in Nat /\ losses \in Nat /\ fails[t][s] \in Nat
      /\ overrides[t][s] \in Nat /\ MaxTries \in Nat
  BY TriesFinite, Numbers DEF TypeOK
<1>3. /\ s \notin Spent(t) => fails[t][s] <= Cardinality(Tries(t, s)) + losses + AsOne(Charged(t, s))
      /\ s \in Spent(t) =>
           fails[t][s] + AsOne(Overriding(t, s)) <= MaxTries + 1 + losses + overrides[t][s]
  BY DEF RejectionsPaid
<1>4. /\ fails'[t][s] = fails[t][s] /\ (Charged(t, s) => Charged(t, s)' \/ losses' > losses)
      /\ overrides'[t][s] \in Nat /\ overrides'[t][s] >= overrides[t][s]
      /\ s \in Spent(t) /\ Overriding(t, s)' =>
           Overriding(t, s) \/ overrides'[t][s] > overrides[t][s]
  OBVIOUS
<1> HIDE DEF Tries, Charged, Spent, Overriding
<1>5. CASE s \notin Spent(t)
  <2>1. CASE Charged(t, s)'
    BY <1>1, <1>2, <1>3, <1>4, <1>5, <2>1 DEF AsOne
  <2>2. CASE ~Charged(t, s)'
    BY <1>1, <1>2, <1>3, <1>4, <1>5, <2>2 DEF AsOne
  <2> QED
    BY <2>1, <2>2
<1>6. CASE s \in Spent(t)
  <2>1. CASE Overriding(t, s)'
    BY <1>1, <1>2, <1>3, <1>4, <1>6, <2>1 DEF AsOne
  <2>2. CASE ~Overriding(t, s)'
    BY <1>1, <1>2, <1>3, <1>4, <1>6, <2>2 DEF AsOne
  <2> QED
    BY <2>1, <2>2
<1> QED
  BY <1>5, <1>6

LEMMA SpentKept == ASSUME UNCHANGED attempts, NEW t PROVE Spent(t)' = Spent(t)
  BY DEF Spent

LEMMA TypeKept ==
  ASSUME IInv, RInv, Next
  PROVE  TypeOK'
<1> USE Numbers DEF stored, opened, run, history, EndJob, Die
<1>1. TypeOK /\ None \in Seeds \cup {None}
  BY DEF RInv
<1>2. ASSUME NEW w \in Workers, Call(w) PROVE TypeOK'
  BY <1>1, <1>2 DEF Call, TakeJob, TypeOK, Places
<1>3. ASSUME NEW w \in Workers, RefuseJob(w) \/ Leave(w) \/ Saved(w) PROVE TypeOK'
  BY <1>1, <1>3 DEF RefuseJob, TakeJob, Leave, Saved, TypeOK, Places
<1>4. ASSUME NEW w \in Workers, AnswerStored(w) PROVE TypeOK'
  <2>1. task \in Tasks /\ seed[w] \in Seeds
    BY <1>4 DEF AnswerStored, IInv, JobsAreOpen
  <2>2. rows' \in [Tasks -> [Seeds -> Nat]]
    BY <1>1, <1>4, <2>1 DEF AnswerStored, TypeOK
  <2> QED
    BY <1>1, <1>4, <2>2 DEF AnswerStored, TypeOK, Places
<1>5. ASSUME NEW w \in Workers, AnswerError(w) PROVE TypeOK'
  <2>1. task \in Tasks /\ seed[w] \in Seeds
    BY <1>5 DEF AnswerError, IInv, JobsAreOpen
  <2>2. fails' \in [Tasks -> [Seeds -> Nat]] /\ charged' \subseteq Tasks \X Seeds \X Classes
    <3>1. fails' \in [Tasks -> [Seeds -> Nat]]
      BY <1>1, <1>5, <2>1 DEF AnswerError, TypeOK
    <3>2. charged \subseteq Tasks \X Seeds \X Classes
      BY <1>1 DEF TypeOK
    <3>3. \A c \in Classes : <<task, seed[w], c>> \in Tasks \X Seeds \X Classes
      BY <2>1
    <3>4. UNCHANGED charged \/ \E c \in Classes : charged' = charged \cup {<<task, seed[w], c>>}
      BY <1>5 DEF AnswerError
    <3> QED
      BY <3>1, <3>2, <3>3, <3>4
  <2>3. at' \in [Workers -> Places] /\ seed' \in [Workers -> Seeds \cup {None}] /\ errors' \subseteq Seeds
    BY <1>1, <1>5, <2>1 DEF AnswerError, TypeOK, Places
  <2> QED
    BY <1>1, <1>5, <2>2, <2>3 DEF AnswerError, TypeOK
<1>6. ASSUME NEW w \in Workers, AnswerSignal(w) PROVE TypeOK'
  <2>1. seed[w] \in Seeds
    BY <1>6 DEF AnswerSignal, IInv, JobsAreOpen
  <2>2. at' \in [Workers -> Places] /\ seed' \in [Workers -> Seeds \cup {None}] /\ errors' \subseteq Seeds
    BY <1>1, <1>6, <2>1 DEF AnswerSignal, TypeOK, Places
  <2> QED
    BY <1>1, <1>6, <2>2 DEF AnswerSignal, TypeOK
<1>7. ASSUME NEW w \in Workers, AppendRaises(w) \/ CheckpointRaises(w) PROVE TypeOK'
  <2>1. at' \in [Workers -> Places] /\ seed' \in [Workers -> Seeds \cup {None}]
    BY <1>1, <1>7 DEF AppendRaises, CheckpointRaises, TypeOK, Places
  <2> QED
    BY <1>1, <1>7, <2>1 DEF AppendRaises, CheckpointRaises, TypeOK
<1>8. ASSUME NEW t \in Tasks, Open(t), UNCHANGED <<rows, attempts, planned, fails, losses>>,
             state' \in States, UNCHANGED <<fatal, signals, charged>>
      PROVE  TypeOK'
  <2>1. at' \in [Workers -> Places] /\ seed' \in [Workers -> Seeds \cup {None}]
    BY <1>8 DEF Open, Places
  <2>2. /\ Pending(t) \subseteq Seeds
        /\ Cardinality(Pending(t)) <= Cardinality(Seeds) /\ Cardinality(Pending(t)) \in Nat
    BY FS_Subset, FS_CardinalityType DEF Pending
  <2>3. /\ task' \in 0 .. TaskCount + 1 /\ todo' \subseteq Seeds /\ errors' \subseteq Seeds
        /\ terminal' \in BOOLEAN /\ written' \in Nat /\ skipped' \in Nat
    <3>1. todo' = Pending(t) /\ skipped' = Cardinality(Seeds) - Cardinality(Pending(t))
      BY <1>8 DEF Open
    <3>2. skipped' \in Nat
      BY <2>2, <3>1
    <3>3. t \in 0 .. TaskCount + 1
      BY DEF Tasks
    <3> QED
      BY <1>8, <2>2, <3>1, <3>2, <3>3 DEF Open
  <2>4. overrides' \in [Tasks -> [Seeds -> Nat]]
    <3>1. overrides' = [overrides EXCEPT ![t] =
                         [s \in Seeds |-> overrides[t][s] + IF s \in todo' \cap Spent(t) THEN 1 ELSE 0]]
      BY <1>1, <1>8 DEF Open, TypeOK
    <3>2. [s \in Seeds |-> overrides[t][s] + IF s \in todo' \cap Spent(t) THEN 1 ELSE 0]
            \in [Seeds -> Nat]
      BY <1>1 DEF TypeOK
    <3> QED
      BY <1>1, <3>1, <3>2 DEF TypeOK
  <2> QED
    BY <1>1, <1>8, <2>1, <2>3, <2>4 DEF TypeOK
<1>9. CASE BeginRun
  <2>1. 1 \in Tasks
    BY DEF Tasks
  <2> QED
    BY <1>8, <1>9, <2>1 DEF BeginRun, States
<1>10. CASE NextTask
  <2>1. task + 1 \in Tasks
    BY <1>1, <1>10 DEF NextTask, Tasks, TypeOK
  <2>2. ASSUME NEW t \in Tasks, t = task + 1 PROVE TypeOK'
    BY <1>1, <1>8, <1>10, <2>2 DEF NextTask, TypeOK
  <2> QED
    BY <2>1, <2>2
<1>11. CASE EndTasks
  BY <1>1, <1>11 DEF EndTasks, TypeOK
<1>12. ASSUME EndRun, UNCHANGED <<rows, fails, overrides>>, state' \in States, losses' \in Nat,
              planned' \in [Tasks -> SUBSET Seeds],
              attempts' \in [Tasks \X Seeds \X Classes -> Nat]
       PROVE  TypeOK'
  <2>1. at' \in [Workers -> Places] /\ seed' \in [Workers -> Seeds \cup {None}]
    BY <1>12 DEF EndRun, Places
  <2>2. /\ task' \in 0 .. TaskCount + 1 /\ todo' \subseteq Seeds /\ errors' \subseteq Seeds
        /\ terminal' \in BOOLEAN /\ fatal' \in BOOLEAN /\ written' \in Nat /\ skipped' \in Nat
        /\ signals' \subseteq {"rate", "deadline", "store"}
        /\ charged' \subseteq Tasks \X Seeds \X Classes
    <3>1. /\ task' = 0 /\ todo' = {} /\ written' = 0 /\ skipped' = 0 /\ errors' = {}
          /\ terminal' = FALSE /\ fatal' = FALSE /\ signals' = {} /\ charged' = {}
      BY <1>12 DEF EndRun
    <3>2. task' \in 0 .. TaskCount + 1 /\ written' \in Nat /\ skipped' \in Nat
      BY <3>1
    <3>3. terminal' \in BOOLEAN /\ fatal' \in BOOLEAN
      BY <3>1, Zenon
    <3>4. /\ todo' \subseteq Seeds /\ errors' \subseteq Seeds
          /\ signals' \subseteq {"rate", "deadline", "store"}
          /\ charged' \subseteq Tasks \X Seeds \X Classes
      BY <3>1
    <3> QED
      BY <3>2, <3>3, <3>4, Zenon
  <2>3. rows' \in [Tasks -> [Seeds -> Nat]] /\ fails' \in [Tasks -> [Seeds -> Nat]]
        /\ overrides' \in [Tasks -> [Seeds -> Nat]]
    BY <1>1, <1>12 DEF TypeOK
  <2> QED
    BY <1>12, <2>1, <2>2, <2>3 DEF TypeOK
<1>13. CASE RunFails \/ Crash
  BY <1>1, <1>12, <1>13 DEF RunFails, Crash, TypeOK, States
<1>14. CASE Report
  <2>1. attempts' \in [Tasks \X Seeds \X Classes -> Nat]
    BY <1>1, <1>14 DEF Report, Charge, TypeOK
  <2>2. state' \in States /\ planned' \in [Tasks -> SUBSET Seeds]
    BY <1>1, <1>14 DEF Report, Conclude, States, NoPlan, TypeOK
  <2> QED
    BY <1>1, <1>12, <1>14, <2>1, <2>2 DEF Report, TypeOK
<1>15. CASE PlanRetry
  <2>1. rows' \in [Tasks -> [Seeds -> Nat]]
    BY PlanKeeps, <1>15 DEF IInv, JobTypes
  <2>2. planned' \in [Tasks -> SUBSET Seeds] /\ state' \in States
    BY <1>15 DEF PlanRetry, States
  <2> QED
    BY <1>1, <1>15, <2>1, <2>2 DEF PlanRetry, TypeOK
<1> QED
  BY <1>2, <1>3, <1>4, <1>5, <1>6, <1>7, <1>9, <1>10, <1>11, <1>13, <1>14, <1>15
  DEF Next, EventLoop, Outcome, Control

\* A worker's step that charges nothing.
LEMMA ChargedKept ==
  ASSUME RInv, Left' \subseteq Left, UNCHANGED <<task, charged>>
  PROVE  ChargedOnce'
  BY DEF RInv, ChargedOnce

LEMMA PaidStill ==
  ASSUME RInv, Left' \subseteq Left, UNCHANGED <<task, charged, attempts, fails, losses, overrides, overrides>>
  PROVE  RejectionsPaid'
<1>1. losses' \in Nat /\ losses' >= losses
  BY DEF RInv, TypeOK
<1>2. \A t \in Tasks, s \in Seeds :
        /\ Charged(t, s) => Charged(t, s)'
        /\ overrides'[t][s] \in Nat /\ overrides'[t][s] >= overrides[t][s]
        /\ Overriding(t, s)' => Overriding(t, s)
  <2>1. overrides \in [Tasks -> [Seeds -> Nat]] /\ UNCHANGED overrides
    BY DEF RInv, TypeOK
  <2> SUFFICES ASSUME NEW t \in Tasks, NEW s \in Seeds
               PROVE  /\ Charged(t, s) => Charged(t, s)'
                      /\ Overriding(t, s)' => Overriding(t, s)
    BY <2>1
  <2> QED
    BY DEF Charged, Overriding
<1> QED
  BY <1>1, <1>2, PaidKept DEF RInv

------------------------------------------------------------------------------
(* What each step does to the report *)

LEMMA CallCounts == ASSUME IInv, RInv, NEW w \in Workers, Call(w) PROVE RInv'
<1> USE DEF stored, opened, run, history
<1>1. PICK s \in Seeds :
        /\ at[w] = "free" /\ ~terminal /\ s \in todo /\ todo' = todo \ {s}
        /\ at' = [at EXCEPT ![w] = "calling"] /\ seed' = [seed EXCEPT ![w] = s]
  BY DEF Call, TakeJob
<1>2. Left' = Left
  BY <1>1, LeftCalled
<1>3. UNCHANGED <<task, charged, attempts, fails, losses, overrides, skipped, written, errors, fatal, terminal>>
  BY DEF Call
<1>4. ChargedOnce' /\ RejectionsPaid'
  BY <1>2, <1>3, ChargedKept, PaidStill
<1>5. \A v \in Workers : at'[v] = "off" => at[v] = "off"
  BY <1>1 DEF IInv, JobTypes
<1>6. Counted'
  BY <1>1, <1>2, <1>3, <1>5 DEF RInv, Counted
<1>7. TypeOK'
  BY TypeKept DEF Next, EventLoop
<1> QED
  BY <1>4, <1>6, <1>7 DEF RInv

LEMMA RefuseCounts == ASSUME IInv, RInv, NEW w \in Workers, RefuseJob(w) PROVE RInv'
<1> USE DEF stored, opened, run, history
<1>1. PICK s \in Seeds :
        /\ at[w] = "free" /\ ~terminal /\ s \in todo /\ todo' = todo \ {s}
        /\ errors' = errors \cup {s}
  BY DEF RefuseJob, TakeJob
<1>2. UNCHANGED <<task, charged, attempts, fails, losses, overrides, skipped, written, fatal, terminal, at, seed>>
  BY DEF RefuseJob
<1>3. s \in Left /\ Left' = Left \ {s} /\ task \in Tasks
  BY <1>1, <1>2, LeftRefused DEF IInv, JobsAreOpen
<1>4. ChargedOnce' /\ RejectionsPaid'
  BY <1>2, <1>3, ChargedKept, PaidStill
<1>5. /\ errors' \cap Left' = {}
      /\ ~fatal' => skipped' + written' + Cardinality(errors') + Cardinality(Left')
                      = Cardinality(Seeds)
  BY <1>1, <1>2, <1>3, JobOverCounts DEF RInv
<1>6. Counted'
  BY <1>1, <1>2, <1>5 DEF RInv, Counted
<1>7. TypeOK'
  BY TypeKept DEF Next, EventLoop
<1> QED
  BY <1>4, <1>6, <1>7 DEF RInv

\* A worker that returns, or goes on to its next job.
LEMMA FreedCounts ==
  ASSUME IInv, RInv, NEW w \in Workers, Leave(w) \/ Saved(w) \/ CheckpointRaises(w)
  PROVE  RInv'
<1> USE DEF stored, opened, run, history, EndJob, Die
<1>1. None \in Seeds \cup {None} /\ seed = [seed EXCEPT ![w] = seed[w]] /\ seed[w] \in Seeds \cup {None}
      /\ "off" \in Places \ {"calling"} /\ "free" \in Places \ {"calling"}
  BY DEF IInv, JobTypes, Places
<1>2. UNCHANGED <<todo, task, charged, attempts, fails, losses, overrides, skipped, written, errors, terminal>>
  BY DEF Leave, Saved, CheckpointRaises
<1>3. Left' = Left
  <2>1. CASE Leave(w)
    <3>1. at[w] # "calling" /\ at' = [at EXCEPT ![w] = "off"] /\ seed' = [seed EXCEPT ![w] = seed[w]]
      BY <1>1, <2>1 DEF Leave
    <3> QED
      BY <1>1, <1>2, <3>1, LeftKept
  <2>2. CASE Saved(w)
    <3>1. at[w] # "calling" /\ at' = [at EXCEPT ![w] = "free"] /\ seed' = [seed EXCEPT ![w] = None]
      BY <2>2 DEF Saved
    <3> QED
      BY <1>1, <1>2, <3>1, LeftKept
  <2>3. CASE CheckpointRaises(w)
    <3>1. at[w] # "calling" /\ at' = [at EXCEPT ![w] = "off"] /\ seed' = [seed EXCEPT ![w] = None]
      BY <2>3 DEF CheckpointRaises
    <3> QED
      BY <1>1, <1>2, <3>1, LeftKept
  <2> QED
    BY <2>1, <2>2, <2>3
<1>4. ChargedOnce' /\ RejectionsPaid'
  BY <1>2, <1>3, ChargedKept, PaidStill
<1>5. fatal => fatal'
  BY DEF Leave, Saved, CheckpointRaises
<1>6. ASSUME ~terminal, ~fatal', task \in Tasks, \E v \in Workers : at'[v] = "off" PROVE todo = {}
  <2>1. CASE Leave(w)
    BY <1>6, <2>1 DEF Leave
  <2>2. CASE Saved(w)
    <3>1. \A v \in Workers : at'[v] = "off" => at[v] = "off"
      BY <2>2 DEF Saved, IInv, JobTypes
    <3> QED
      BY <1>5, <1>6, <3>1 DEF RInv, Counted
  <2>3. CASE CheckpointRaises(w)
    BY <1>6, <2>3 DEF CheckpointRaises
  <2> QED
    BY <2>1, <2>2, <2>3
<1>7. Counted'
  BY <1>2, <1>3, <1>5, <1>6 DEF RInv, Counted
<1>8. TypeOK'
  BY TypeKept DEF Next, EventLoop
<1> QED
  BY <1>4, <1>7, <1>8 DEF RInv

LEMMA StoredCounts == ASSUME IInv, RInv, NEW w \in Workers, AnswerStored(w) PROVE RInv'
<1> USE DEF stored, opened, run, history
<1>1. /\ at[w] = "calling" /\ at' = [at EXCEPT ![w] = "saving"] /\ written' = written + 1
      /\ seed' = [seed EXCEPT ![w] = seed[w]] /\ seed[w] \in Seeds \cup {None}
      /\ "saving" \in Places \ {"calling"}
  BY DEF AnswerStored, IInv, JobTypes, Places
<1>2. UNCHANGED <<todo, task, charged, attempts, fails, losses, overrides, skipped, errors, fatal, terminal>>
  BY DEF AnswerStored
<1>3. seed[w] \in Left /\ Left' = Left \ {seed[w]} /\ task \in Tasks
  BY <1>1, <1>2, LeftAnswered DEF IInv, JobsAreOpen
<1>4. ChargedOnce' /\ RejectionsPaid'
  BY <1>2, <1>3, ChargedKept, PaidStill
<1>5. /\ errors' \cap Left' = {}
      /\ ~fatal' => skipped' + written' + Cardinality(errors') + Cardinality(Left')
                      = Cardinality(Seeds)
  BY <1>1, <1>2, <1>3, JobOverCounts DEF RInv
<1>6. \A v \in Workers : at'[v] = "off" => at[v] = "off"
  BY <1>1 DEF IInv, JobTypes
<1>7. Counted'
  BY <1>1, <1>2, <1>5, <1>6 DEF RInv, Counted
<1>8. TypeOK'
  BY TypeKept DEF Next, Outcome
<1> QED
  BY <1>4, <1>7, <1>8 DEF RInv

LEMMA SignalCounts == ASSUME IInv, RInv, NEW w \in Workers, AnswerSignal(w) PROVE RInv'
<1> USE DEF stored, opened, run, history, EndJob
<1>1. /\ at[w] = "calling" /\ at' = [at EXCEPT ![w] = "free"] /\ errors' = errors \cup {seed[w]}
      /\ seed' = [seed EXCEPT ![w] = None] /\ None \in Seeds \cup {None}
      /\ "free" \in Places \ {"calling"} /\ terminal'
  BY DEF AnswerSignal, Places
<1>2. UNCHANGED <<todo, task, charged, attempts, fails, losses, overrides, skipped, written, fatal>>
  BY DEF AnswerSignal
<1>3. seed[w] \in Left /\ Left' = Left \ {seed[w]} /\ task \in Tasks
  BY <1>1, <1>2, LeftAnswered DEF IInv, JobsAreOpen
<1>4. ChargedOnce' /\ RejectionsPaid'
  BY <1>2, <1>3, ChargedKept, PaidStill
<1>5. /\ errors' \cap Left' = {}
      /\ ~fatal' => skipped' + written' + Cardinality(errors') + Cardinality(Left')
                      = Cardinality(Seeds)
  BY <1>1, <1>2, <1>3, JobOverCounts DEF RInv
<1>6. Counted'
  BY <1>1, <1>5 DEF Counted
<1>7. TypeOK'
  BY TypeKept DEF Next, Outcome
<1> QED
  BY <1>4, <1>6, <1>7 DEF RInv

LEMMA AppendCounts == ASSUME IInv, RInv, NEW w \in Workers, AppendRaises(w) PROVE RInv'
<1> USE DEF stored, opened, run, history, Die
<1>1. /\ at[w] = "calling" /\ at' = [at EXCEPT ![w] = "off"] /\ fatal'
      /\ seed' = [seed EXCEPT ![w] = None] /\ None \in Seeds \cup {None}
      /\ "off" \in Places \ {"calling"}
  BY DEF AppendRaises, Places
<1>2. UNCHANGED <<todo, task, charged, attempts, fails, losses, overrides, errors>>
  BY DEF AppendRaises
<1>3. seed[w] \in Left /\ Left' = Left \ {seed[w]}
  BY <1>1, <1>2, LeftAnswered
<1>4. ChargedOnce' /\ RejectionsPaid'
  BY <1>2, <1>3, ChargedKept, PaidStill
<1>5. Counted'
  BY <1>1, <1>2, <1>3 DEF Counted, RInv
<1>6. TypeOK'
  BY TypeKept DEF Next, Outcome
<1> QED
  BY <1>4, <1>5, <1>6 DEF RInv

\* A rejected answer is charged with the first error of its job in this run.
LEMMA ErrorCounts == ASSUME IInv, RInv, NEW w \in Workers, AnswerError(w) PROVE RInv'
<1> USE DEF stored, opened, run, history, EndJob
<1>1. /\ at[w] = "calling" /\ at' = [at EXCEPT ![w] = "free"] /\ errors' = errors \cup {seed[w]}
      /\ seed' = [seed EXCEPT ![w] = None] /\ None \in Seeds \cup {None}
      /\ "free" \in Places \ {"calling"}
  BY DEF AnswerError, Places
<1>2. UNCHANGED <<todo, task, attempts, losses, overrides, skipped, written, fatal, terminal>>
  BY DEF AnswerError
<1>3. seed[w] \in Left /\ Left' = Left \ {seed[w]} /\ task \in Tasks /\ seed[w] \in Seeds
  BY <1>1, <1>2, LeftAnswered DEF IInv, JobsAreOpen
<1>4. /\ errors' \cap Left' = {}
      /\ ~fatal' => skipped' + written' + Cardinality(errors') + Cardinality(Left')
                      = Cardinality(Seeds)
  BY <1>1, <1>2, <1>3, JobOverCounts DEF RInv
<1>5. \A v \in Workers : at'[v] = "off" => at[v] = "off"
  BY <1>1 DEF IInv, JobTypes
<1>6. Counted'
  BY <1>1, <1>2, <1>4, <1>5 DEF RInv, Counted
<1>7. TypeOK'
  BY TypeKept DEF Next, Outcome
<1>8. task # 0
  BY <1>3, Numbers
<1>9. CASE UNCHANGED <<charged, fails>>
  <2>1. ChargedOnce' /\ RejectionsPaid'
    BY <1>2, <1>3, <1>9, ChargedKept, PaidStill
  <2> QED
    BY <1>6, <1>7, <2>1 DEF RInv
<1>10. ASSUME NEW c \in Classes, charged' = charged \cup {<<task, seed[w], c>>},
              fails' = [fails EXCEPT ![task][seed[w]] = @ + 1]
       PROVE  RInv'
  <2> DEFINE s == seed[w]
             k == <<task, s, c>>
  <2>1. /\ k[1] = task /\ k[2] = s /\ s \in Left /\ s \in Seeds
        /\ \A l \in charged : l[1] = task => l[2] # s
    BY <1>3, <1>8 DEF RInv, ChargedOnce
  <2>2. task \in Nat /\ charged' = charged \cup {k} /\ UNCHANGED task
    BY <1>2, <1>3, <1>10, Numbers
  <2>3. fails' = [fails EXCEPT ![task][s] = @ + 1]
    BY <1>10
  <2>4. Left' = Left \ {s}
    BY <1>3
  <2>5. ChargedOnce'
    <3> HIDE DEF k, s
    <3> QED
      BY <1>8, <2>1, <2>2, <2>4 DEF RInv, ChargedOnce
  <2>6. RejectionsPaid'
    <3> SUFFICES ASSUME NEW t \in Tasks, NEW r \in Seeds
                 PROVE  /\ (r \notin Spent(t))' =>
                             fails'[t][r] <= Cardinality(Tries(t, r)') + losses' + AsOne(Charged(t, r)')
                        /\ (r \in Spent(t))' =>
                             fails'[t][r] + AsOne(Overriding(t, r)')
                               <= MaxTries + 1 + losses' + overrides'[t][r]
      BY DEF RejectionsPaid, AsOne
    <3>1. Tries(t, r)' = Tries(t, r) /\ Spent(t)' = Spent(t)
      BY <1>2 DEF Tries, Spent
    <3>2. /\ Cardinality(Tries(t, r)) \in Nat /\ losses \in Nat /\ fails \in [Tasks -> [Seeds -> Nat]]
          /\ overrides[t][r] \in Nat /\ MaxTries \in Nat
      BY TriesFinite, Numbers DEF RInv, TypeOK
    <3>3. /\ r \notin Spent(t) =>
               fails[t][r] <= Cardinality(Tries(t, r)) + losses + AsOne(Charged(t, r))
          /\ r \in Spent(t) =>
               fails[t][r] + AsOne(Overriding(t, r)) <= MaxTries + 1 + losses + overrides[t][r]
      BY DEF RInv, RejectionsPaid
    <3>4. fails[t][r] \in Nat /\ UNCHANGED <<losses, overrides>>
      BY <1>2, <3>2
    <3>5. CASE t = task /\ r = s
      <4>1. Charged(t, r)' /\ ~Charged(t, r)
        BY <1>2, <1>8, <2>1, <2>2, <3>5 DEF Charged
      <4>2. Overriding(t, r) /\ ~Overriding(t, r)'
        BY <1>2, <2>1, <2>2, <2>4, <3>5 DEF Overriding
      <4>3. fails'[t][r] = fails[t][r] + 1
        BY <1>3, <2>3, <3>2, <3>5
      <4> HIDE DEF Tries, Charged, Overriding, Spent, s, k
      <4> QED
        BY <3>1, <3>2, <3>3, <3>4, <4>1, <4>2, <4>3 DEF AsOne
    <3>6. CASE ~(t = task /\ r = s)
      <4>1. (Charged(t, r) => Charged(t, r)') /\ (Overriding(t, r)' => Overriding(t, r))
        BY <1>2, <2>2, <2>4 DEF Charged, Overriding
      <4>2. fails'[t][r] = fails[t][r]
        BY <1>3, <2>3, <3>2, <3>6
      <4> HIDE DEF Tries, Charged, Overriding, Spent, s, k
      <4> QED
        BY <3>1, <3>2, <3>3, <3>4, <4>1, <4>2 DEF AsOne
    <3> QED
      BY <3>5, <3>6
  <2> QED
    BY <1>6, <1>7, <2>5, <2>6 DEF RInv
<1> QED
  BY <1>9, <1>10 DEF AnswerError

\* A task opens with its pending seeds left, and none of them charged in this run; each of
\* them that the quarantine excludes is one that a plan names.
LEMMA OpenCounts ==
  ASSUME IInv, RInv, NEW t \in Tasks, Open(t), task < t,
         UNCHANGED <<attempts, charged, fails, losses>>
  PROVE  Counted' /\ ChargedOnce' /\ RejectionsPaid'
<1>1. /\ task' = t /\ todo' = Pending(t) /\ skipped' = Cardinality(Seeds) - Cardinality(todo')
      /\ written' = 0 /\ errors' = {} /\ ~terminal' /\ \A w \in Workers : at'[w] = "free"
  BY DEF Open
<1>2. Left' = todo'
  <2>1. ~\E w \in Workers : at'[w] = "calling"
    BY <1>1
  <2> QED
    BY <2>1 DEF Left
<1>3. Cardinality(Left') \in Nat /\ Cardinality(Left') <= Cardinality(Seeds)
  BY <1>1, <1>2, Numbers, FS_Subset, FS_CardinalityType DEF Pending
<1>4. Counted'
  <2>1. Cardinality(errors') = 0
    BY <1>1, FS_EmptySet
  <2>2. skipped' + written' + Cardinality(errors') + Cardinality(Left') = Cardinality(Seeds)
    BY <1>1, <1>2, <1>3, <2>1, Numbers
  <2> QED
    BY <1>1, <2>2 DEF Counted
<1>5. task \in Nat /\ t \in Nat /\ task' # 0
  BY <1>1, Numbers DEF IInv, JobTypes
<1>6. \A k \in charged : k[1] \in Nat /\ k[1] <= task /\ task # 0
  <2>1. \A k \in Tasks \X Seeds \X Classes : k[1] \in Tasks
    OBVIOUS
  <2> QED
    BY <2>1, Numbers DEF RInv, TypeOK, ChargedOnce
<1>7. ChargedOnce'
  BY <1>1, <1>5, <1>6 DEF ChargedOnce
<1>8. RejectionsPaid'
  <2>1. losses' \in Nat /\ losses' >= losses
    BY DEF RInv, TypeOK
  <2>2. ASSUME NEW u \in Tasks, NEW s \in Seeds PROVE Charged(u, s) => Charged(u, s)'
    BY <1>5 DEF Charged
  <2>3. ASSUME NEW u \in Tasks, NEW s \in Seeds
        PROVE  /\ overrides'[u][s] \in Nat /\ overrides'[u][s] >= overrides[u][s]
               /\ s \in Spent(u) /\ Overriding(u, s)' => overrides'[u][s] > overrides[u][s]
    <3>1. overrides \in [Tasks -> [Seeds -> Nat]]
      BY DEF RInv, TypeOK
    <3>2. overrides' = [overrides EXCEPT ![t] =
                         [r \in Seeds |-> overrides[t][r] + IF r \in todo' \cap Spent(t) THEN 1 ELSE 0]]
      BY <3>1 DEF Open
    <3>3. CASE u = t
      <4>1. overrides'[u][s] = overrides[u][s] + IF s \in todo' \cap Spent(u) THEN 1 ELSE 0
        BY <3>1, <3>2, <3>3
      <4>2. overrides[u][s] \in Nat /\ (Overriding(u, s)' => s \in todo')
        BY <1>2, <3>1 DEF Overriding
      <4> HIDE DEF Spent, Overriding
      <4> QED
        BY <4>1, <4>2
    <3>4. CASE u # t
      <4>1. overrides'[u][s] = overrides[u][s] /\ overrides[u][s] \in Nat /\ ~Overriding(u, s)'
        BY <1>1, <3>1, <3>2, <3>4 DEF Overriding
      <4> QED
        BY <4>1
    <3> QED
      BY <3>3, <3>4
  <2> QED
    BY <2>1, <2>2, <2>3, PaidKept DEF RInv
<1> QED
  BY <1>4, <1>7, <1>8

LEMMA StartCounts == ASSUME IInv, RInv, BeginRun \/ NextTask PROVE RInv'
<1> USE DEF stored, opened, history
<1>1. TypeOK'
  BY TypeKept DEF Next, Control
<1>2. PICK t \in Tasks : Open(t) /\ task < t
  <2>1. CASE BeginRun
    <3>1. 1 \in Tasks /\ Open(1) /\ task < 1
      BY <2>1, Numbers DEF BeginRun, Tasks
    <3> QED
      BY <3>1
  <2>2. CASE NextTask
    <3>1. task + 1 \in Tasks /\ Open(task + 1) /\ task < task + 1
      BY <2>2, Numbers DEF NextTask, Tasks
    <3> QED
      BY <3>1
  <2> QED
    BY <2>1, <2>2
<1>3. UNCHANGED <<attempts, charged, fails, losses>>
  BY DEF BeginRun, NextTask
<1> QED
  BY <1>1, <1>2, <1>3, OpenCounts DEF RInv

LEMMA PlanCounts == ASSUME IInv, RInv, PlanRetry PROVE RInv'
<1>1. TypeOK'
  BY TypeKept DEF Next
<1>2. Left' = Left /\ UNCHANGED <<task, charged, attempts, fails, losses, overrides>> /\ task = 0
  BY DEF PlanRetry, Left, opened, run, history
<1>3. Counted'
  BY <1>2, Numbers DEF Counted
<1> QED
  BY <1>1, <1>2, <1>3, ChargedKept, PaidStill DEF RInv

LEMMA EndCounts == ASSUME IInv, RInv, EndTasks \/ RunFails \/ Crash PROVE RInv'
<1> USE DEF stored, opened, history
<1>1. TypeOK'
  BY TypeKept DEF Next, Control
<1>2. task' \notin Tasks /\ UNCHANGED <<attempts, fails, overrides>>
  BY Numbers DEF EndTasks, RunFails, Crash, EndRun, Tasks
<1>3. Counted'
  BY <1>2 DEF Counted
<1>4. \A t \in Tasks, s \in Seeds :
        /\ overrides'[t][s] \in Nat /\ overrides'[t][s] >= overrides[t][s]
        /\ ~Overriding(t, s)'
  BY <1>2 DEF Overriding, RInv, TypeOK
<1>5. CASE EndTasks
  <2>1. /\ task \in Tasks /\ task' = TaskCount + 1 /\ UNCHANGED <<losses, charged>>
        /\ task # 0 /\ task' # 0 /\ task \in Nat /\ task <= task' /\ losses \in Nat
    BY <1>5, Numbers DEF EndTasks, Tasks, RInv, TypeOK
  <2>2. \A k \in charged : k[1] \in Tasks
    <3>1. \A k \in Tasks \X Seeds \X Classes : k[1] \in Tasks
      OBVIOUS
    <3> QED
      BY <3>1 DEF RInv, TypeOK
  <2>3. \A k \in charged : k[1] <= task' /\ k[1] # task'
    BY <2>1, <2>2, Numbers DEF Tasks
  <2>4. ChargedOnce'
    BY <2>1, <2>3 DEF ChargedOnce
  <2>5. \A t \in Tasks, s \in Seeds : Charged(t, s) => Charged(t, s)'
    BY <2>1 DEF Charged
  <2>6. losses' \in Nat /\ losses' >= losses
    BY <2>1
  <2>7. \A t \in Tasks, s \in Seeds :
          /\ Charged(t, s) => Charged(t, s)' \/ losses' > losses
          /\ overrides'[t][s] \in Nat /\ overrides'[t][s] >= overrides[t][s]
          /\ ~Overriding(t, s)'
    BY <1>4, <2>5
  <2>8. RejectionsPaid'
    BY <1>2, <2>6, <2>7, PaidKept DEF RInv
  <2> QED
    BY <1>1, <1>3, <2>4, <2>8 DEF RInv
<1>6. CASE RunFails \/ Crash
  <2>1. task' = 0 /\ charged' = {} /\ losses' = losses + 1 /\ losses \in Nat
    BY <1>6 DEF RunFails, Crash, EndRun, RInv, TypeOK
  <2>2. ChargedOnce'
    BY <2>1 DEF ChargedOnce
  <2>3. losses' \in Nat /\ losses' > losses /\ losses' >= losses
    BY <2>1
  <2>4. RejectionsPaid'
    BY <1>2, <1>4, <2>3, PaidKept DEF RInv
  <2> QED
    BY <1>1, <1>3, <2>2, <2>4 DEF RInv
<1> QED
  BY <1>5, <1>6

\* The report pays what was charged: one more attempt of a class for each charged seed.
LEMMA ReportCounts == ASSUME IInv, RInv, Report PROVE RInv'
<1>1. TypeOK'
  BY TypeKept DEF Next, Control
<1>2. task' = 0 /\ charged' = {} /\ task = TaskCount + 1 /\ task # 0 /\ UNCHANGED <<fails, losses, overrides>>
  BY Numbers DEF Report, EndRun, history
<1>3. Counted' /\ ChargedOnce'
  BY <1>2, Numbers DEF Counted, ChargedOnce, Tasks
<1>4. attempts' = [k \in Tasks \X Seeds \X Classes |->
                     attempts[k] + IF k \in charged THEN 1 ELSE 0]
  BY DEF Report, Charge
<1>5. ASSUME NEW t \in Tasks, NEW s \in Seeds
      PROVE  /\ (s \notin Spent(t))' =>
                   fails'[t][s] <= Cardinality(Tries(t, s)') + losses' + AsOne(Charged(t, s)')
             /\ (s \in Spent(t))' =>
                   fails'[t][s] + AsOne(Overriding(t, s)') <= MaxTries + 1 + losses' + overrides'[t][s]
  <2>1. ~Charged(t, s)' /\ ~Overriding(t, s)'
    BY <1>2, Numbers DEF Charged, Overriding
  <2>2. /\ IsFiniteSet(Tries(t, s)) /\ Cardinality(Tries(t, s)) \in Nat /\ losses \in Nat
        /\ Cardinality(Tries(t, s)) <= MaxTries /\ MaxTries \in Nat
        /\ fails[t][s] \in Nat /\ overrides[t][s] \in Nat
    BY TriesFinite, Numbers DEF RInv, TypeOK
  <2>3. /\ s \notin Spent(t) =>
             fails[t][s] <= Cardinality(Tries(t, s)) + losses + AsOne(Charged(t, s))
        /\ s \in Spent(t) =>
             fails[t][s] + AsOne(Overriding(t, s)) <= MaxTries + 1 + losses + overrides[t][s]
    BY DEF RInv, RejectionsPaid
  <2>4. \A c \in Classes : attempts[<<t, s, c>>] \in Nat
    BY DEF RInv, TypeOK
  <2>5. \A c \in Classes : attempts'[<<t, s, c>>] =
                             attempts[<<t, s, c>>] + IF <<t, s, c>> \in charged THEN 1 ELSE 0
    BY <1>4
  <2>6. s \in Spent(t) => (s \in Spent(t))'
    BY <2>4, <2>5, Numbers DEF Spent
  <2>7. CASE (s \notin Spent(t))'
    <3>1. \A c \in Classes : attempts'[<<t, s, c>>] \in Nat /\ attempts'[<<t, s, c>>] <= MaxFailureRetries
      BY <2>4, <2>5, <2>7, Numbers DEF Spent
    <3>2. Tries(t, s) \subseteq Tries(t, s)'
      <4> SUFFICES ASSUME NEW c \in Classes, NEW i \in 1 .. MaxFailureRetries, i <= attempts[<<t, s, c>>]
                   PROVE  i <= attempts'[<<t, s, c>>]
        BY DEF Tries
      <4> QED
        BY <2>4, <2>5, Numbers
    <3>3. IsFiniteSet(Tries(t, s)') /\ Cardinality(Tries(t, s)') \in Nat
      <4>1. \A F : F \in SUBSET (Classes \X (1 .. MaxFailureRetries)) => IsFiniteSet(F)
        <5>1. IsFiniteSet(1 .. MaxFailureRetries)
          BY FS_Interval, Numbers
        <5> QED
          BY <5>1, Numbers, FS_Product, FS_Subset
      <4>2. Tries(t, s)' \in SUBSET (Classes \X (1 .. MaxFailureRetries))
        BY DEF Tries
      <4> HIDE DEF Tries
      <4> QED
        BY <4>1, <4>2, FS_CardinalityType
    <3>4. CASE Charged(t, s)
      <4>1. PICK c \in Classes : <<t, s, c>> \in charged
        BY <3>4 DEF Charged
      <4> DEFINE i == attempts[<<t, s, c>>] + 1
                 x == <<c, i>>
      <4>2. i = attempts'[<<t, s, c>>] /\ i \in 1 .. MaxFailureRetries
        BY <2>4, <2>5, <3>1, <4>1, Numbers
      <4>3. x \in Tries(t, s)'
        BY <4>2 DEF Tries
      <4>4. x \notin Tries(t, s)
        <5>1. ~(i <= attempts[<<t, s, c>>])
          BY <2>4
        <5> QED
          BY <5>1 DEF Tries
      <4> HIDE DEF x, i, Tries
      <4>5. Cardinality(Tries(t, s) \cup {x}) = Cardinality(Tries(t, s)) + 1
        BY <2>2, <4>4, FS_AddElement
      <4>6. Cardinality(Tries(t, s) \cup {x}) <= Cardinality(Tries(t, s)')
        BY <3>2, <3>3, <4>3, FS_Subset
      <4>7. Cardinality(Tries(t, s) \cup {x}) \in Nat
        BY <2>2, <4>5
      <4> HIDE DEF Charged, Overriding, Spent
      <4> QED
        BY <1>2, <2>1, <2>2, <2>3, <2>6, <2>7, <3>3, <4>5, <4>6 DEF AsOne
    <3>5. CASE ~Charged(t, s)
      <4> HIDE DEF Tries
      <4>1. Cardinality(Tries(t, s)) <= Cardinality(Tries(t, s)')
        BY <3>2, <3>3, FS_Subset
      <4> HIDE DEF Charged, Overriding, Spent
      <4> QED
        BY <1>2, <2>1, <2>2, <2>3, <2>6, <2>7, <3>3, <3>5, <4>1 DEF AsOne
    <3> QED
      BY <3>4, <3>5
  <2>8. CASE (s \in Spent(t))'
    <3> HIDE DEF Charged, Overriding, Spent, Tries
    <3> QED
      BY <1>2, <2>1, <2>2, <2>3, <2>8 DEF AsOne
  <2> QED
    BY <2>7, <2>8
<1>6. RejectionsPaid'
  BY <1>5 DEF RejectionsPaid, AsOne
<1> QED
  BY <1>1, <1>3, <1>6 DEF RInv

LEMMA CountsKept == IInv /\ RInv /\ [Next]_vars => RInv'
<1> SUFFICES ASSUME IInv, RInv, [Next]_vars PROVE RInv'
  OBVIOUS
<1>1. ASSUME NEW w \in Workers, EventLoop(w) \/ Outcome(w) \/ CheckpointRaises(w) PROVE RInv'
  BY <1>1, CallCounts, RefuseCounts, FreedCounts, StoredCounts, SignalCounts, AppendCounts,
     ErrorCounts DEF EventLoop, Outcome
<1>2. CASE BeginRun \/ PlanRetry \/ Control \/ Crash
  BY <1>2, StartCounts, PlanCounts, EndCounts, ReportCounts DEF Control
<1>3. CASE UNCHANGED vars
  <2>1. TypeOK'
    BY <1>3 DEF vars, RInv, TypeOK
  <2>2. Left' = Left /\ UNCHANGED <<task, charged, attempts, fails, losses, overrides>>
    BY <1>3 DEF vars, Left
  <2>3. Counted'
    BY <1>3, <2>2 DEF vars, RInv, Counted
  <2> QED
    BY <2>1, <2>2, <2>3, ChargedKept, PaidStill DEF RInv
<1> QED
  BY <1>1, <1>2, <1>3 DEF Next

LEMMA NobodyLeft == IInv /\ RInv => ReportAddsUp
<1> SUFFICES ASSUME IInv, RInv, task \in Tasks, AllOff, ~terminal, ~fatal
             PROVE  skipped + written + Cardinality(errors) = Cardinality(Seeds)
  BY DEF ReportAddsUp
<1>1. todo = {}
  BY Numbers DEF AllOff, RInv, Counted
<1>2. Left = {}
  BY <1>1 DEF Left, AllOff
<1>3. skipped + written + Cardinality(errors) + Cardinality({}) = Cardinality(Seeds)
  BY <1>2 DEF RInv, Counted
<1>4. skipped \in Nat /\ written \in Nat /\ Cardinality(errors) \in Nat
  BY LeftFinite DEF RInv, TypeOK
<1> QED
  BY <1>3, <1>4, FS_EmptySet, Numbers

LEMMA RejectionsPaidFor == RInv => RejectionsBounded
<1> SUFFICES ASSUME RInv, NEW t \in Tasks, NEW s \in Seeds
             PROVE  fails[t][s] <= MaxTries + 1 + losses + overrides[t][s]
  BY DEF RejectionsBounded, MaxTries
<1>1. /\ Cardinality(Tries(t, s)) \in Nat /\ losses \in Nat /\ fails[t][s] \in Nat
      /\ overrides[t][s] \in Nat /\ Cardinality(Tries(t, s)) <= MaxTries /\ MaxTries \in Nat
  BY TriesFinite, Numbers DEF RInv, TypeOK
<1>2. /\ s \notin Spent(t) => fails[t][s] <= Cardinality(Tries(t, s)) + losses + AsOne(Charged(t, s))
      /\ s \in Spent(t) =>
           fails[t][s] + AsOne(Overriding(t, s)) <= MaxTries + 1 + losses + overrides[t][s]
  BY DEF RInv, RejectionsPaid
<1> HIDE DEF Tries, Charged, Overriding, Spent
<1> QED
  BY <1>1, <1>2 DEF AsOne

\* The rows and the report of a stage agree with each other and with the seeds, and a seed is
\* rejected at most as often as its quarantine, lost reports and the quality plans that
\* overrode the quarantine allow.
THEOREM StageIsSafe == Spec => []Safety
<1>1. Init => IInv /\ RInv
  BY InitIInv, InitRInv
<1>2. IInv /\ RInv => Safety
  BY NobodyLeft, RejectionsPaidFor DEF IInv, RInv, Safety
<1> QED
  BY <1>1, Inductive, CountsKept, <1>2, PTL DEF Spec
==============================================================================
