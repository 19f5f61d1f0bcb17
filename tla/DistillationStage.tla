--------------------------- MODULE DistillationStage ---------------------------
(***************************************************************************)
(* The task workers of a collection stage (data/pipeline.py) under the      *)
(* runner that repeats the stage (data/automation.py: _run_stage).          *)
(*                                                                          *)
(* A run visits the tasks in order.  For each it opens the task file, takes *)
(* the seeds without a row as jobs, and lets concurrent workers draw them   *)
(* from one iterator.  A job asks the teacher once and appends its row.     *)
(* Rate limits and deadlines stop the run; other errors end their own job,  *)
(* are charged to the seed after the run and quarantine it when they repeat. *)
(* Between runs a quality plan may hide rows and name jobs to do again; it   *)
(* overrides the quarantine of the jobs it names. What a plan contains and   *)
(* how rows are hidden and restored is QualityRetry's.                       *)
(*                                                                          *)
(* Task t is TASK_TYPES[t].  An action is one run of the event loop between *)
(* two awaits, or an answer of the teacher.                                 *)
(***************************************************************************)
EXTENDS Naturals, FiniteSets

CONSTANTS
  Seeds,              \* generated seeds of the stage
  Workers,            \* concurrency
  TaskCount,          \* length of TASK_TYPES
  Classes,            \* error classes that are charged
  MaxFailureRetries,  \* config.max_failure_retries
  None,               \* a worker without a job
  MaxLosses,          \* bound on crashes and failed runs
  MaxOverrides        \* bound on the runs in which a plan overrides a quarantine

ASSUME StageAssumption ==
  /\ IsFiniteSet(Seeds) /\ IsFiniteSet(Workers) /\ Workers # {}
  /\ None \notin Seeds
  /\ IsFiniteSet(Classes) /\ Classes # {}
  /\ TaskCount \in Nat \ {0}
  /\ MaxFailureRetries \in Nat
  /\ MaxLosses \in Nat /\ MaxOverrides \in Nat

Tasks == 1 .. TaskCount

VARIABLES
  rows,       \* data_<task>.jsonl: [Tasks -> [Seeds -> number of rows]]
  attempts,   \* audit_ledger: attempts_total of each task, seed and class
  state,      \* status["state"]
  planned,    \* quality_feedback: the seeds the active plan names for each task
  task,       \* the open task; 0: no run; TaskCount + 1: reporting
  todo,       \* remaining_jobs
  at,         \* [Workers -> where the worker is]
  seed,       \* [Workers -> the seed of its job]
  terminal,   \* terminal_seen of the open task
  fatal,      \* a worker died of an exception
  signals,    \* why the run must stop: rate, deadline, store
  written,    \* written_by_task of the open task
  skipped,    \* skipped_by_task of the open task
  errors,     \* seeds with an entry in task_errors of the open task
  charged,    \* report.errors of the run that count as failures
  fails,      \* history: rejected answers of each task and seed
  losses,     \* history: runs that ended without a report
  overrides   \* history: how often a plan made a job of a seed that its own
              \* failures in the task had quarantined

stored  == <<rows, attempts, state, planned>>
opened  == <<todo, written, skipped, errors>>
run     == <<task, terminal, fatal, signals, charged>>
history == <<fails, losses, overrides>>
vars == <<rows, attempts, state, planned, task, todo, at, seed, terminal, fatal, signals,
          written, skipped, errors, charged, fails, losses, overrides>>

(* off: returned; free: drawing a job; calling: awaiting the teacher;        *)
(* saving: row appended, awaiting the progress checkpoint.                   *)
Places == {"off", "free", "calling", "saving"}

(* halted: client_deadline, provider_quota_exhausted, budget_exhausted or    *)
(* gate_blocked.                                                             *)
States == {"running", "cooldown", "halted", "failed", "complete"}

TypeOK ==
  /\ rows \in [Tasks -> [Seeds -> Nat]]
  /\ attempts \in [Tasks \X Seeds \X Classes -> Nat]
  /\ state \in States
  /\ planned \in [Tasks -> SUBSET Seeds]
  /\ task \in 0 .. TaskCount + 1
  /\ todo \subseteq Seeds
  /\ at \in [Workers -> Places]
  /\ seed \in [Workers -> Seeds \cup {None}]
  /\ terminal \in BOOLEAN /\ fatal \in BOOLEAN
  /\ signals \subseteq {"rate", "deadline", "store"}
  /\ written \in Nat /\ skipped \in Nat
  /\ errors \subseteq Seeds
  /\ charged \subseteq Tasks \X Seeds \X Classes
  /\ fails \in [Tasks -> [Seeds -> Nat]]
  /\ losses \in Nat
  /\ overrides \in [Tasks -> [Seeds -> Nat]]

-------------------------------------------------------------------------------
(* _record_report_failures quarantines a seed for a task after too many      *)
(* failures; _quarantined_seed_ids_for_task extends that downstream.         *)

Spent(t) == {s \in Seeds : \E c \in Classes : attempts[<<t, s, c>>] > MaxFailureRetries}

Quarantined(t) == UNION {Spent(u) : u \in 1 .. t}

(* excluded: an explicit quality plan is a scoped override of the quarantine. *)
Excluded(t) == Quarantined(t) \ planned[t]

(* A defect: stored rows are not looked up. *)
PendingFromScratch(t) == Seeds \ Excluded(t)

(* A seed without a row; the row of a planned seed must be of the plan's     *)
(* generation, and its older one was hidden before the plan became active.   *)
Pending(t) == {s \in Seeds : rows[t][s] = 0} \ Excluded(t)

(* distill: the tasks whose rows it reads.  The tasks are plan, tool_policy,  *)
(* frontend, review and security; frontend reads the first two.              *)
Sources(t) == IF t = 3 THEN {1, 2} ELSE Tasks \cap {t - 1}

(* _upstream_record: exactly one row of every source.                        *)
HasSource(s) == \A u \in Sources(task) : rows[u][s] = 1

(* Opening a task: its file is read, pending jobs and workers are created.   *)
(* A worker that finds no job returns at once.                               *)
Open(t) ==
  /\ task' = t
  /\ todo' = Pending(t)
  /\ skipped' = Cardinality(Seeds) - Cardinality(todo')
  /\ written' = 0
  /\ errors' = {}
  /\ terminal' = FALSE
  /\ at' = [w \in Workers |-> "free"]
  /\ seed' = [w \in Workers |-> None]
  /\ overrides' = [overrides EXCEPT ![t] =
                    [s \in Seeds |-> @[s] + IF s \in todo' \cap Spent(t) THEN 1 ELSE 0]]

AllOff == \A w \in Workers : at[w] = "off"

-------------------------------------------------------------------------------
(* The workers: task_worker.                                                 *)

TakeJob(w, s) ==
  /\ at[w] = "free" /\ ~terminal
  /\ s \in todo
  /\ todo' = todo \ {s}

Call(w) ==
  \E s \in Seeds :
    /\ TakeJob(w, s)
    /\ HasSource(s)
    /\ at' = [at EXCEPT ![w] = "calling"]
    /\ seed' = [seed EXCEPT ![w] = s]
    /\ UNCHANGED <<stored, run, written, skipped, errors, history>>

(* UpstreamDependencyError: the job ends before any request, uncharged.      *)
RefuseJob(w) ==
  \E s \in Seeds :
    /\ TakeJob(w, s)
    /\ ~HasSource(s)
    /\ errors' = errors \cup {s}
    /\ UNCHANGED <<stored, run, at, seed, written, skipped, history>>

(* A defect: a worker leaves only with an empty queue. *)
LeaveWhenEmpty(w) ==
  /\ at[w] = "free"
  /\ todo = {}
  /\ at' = [at EXCEPT ![w] = "off"]
  /\ UNCHANGED <<stored, opened, seed, run, history>>

Leave(w) ==
  /\ at[w] = "free"
  /\ terminal \/ todo = {}
  /\ at' = [at EXCEPT ![w] = "off"]
  /\ UNCHANGED <<stored, opened, seed, run, history>>

(* A valid answer: the row is appended and counted, then the usage progress  *)
(* is checkpointed.                                                          *)
AnswerStored(w) ==
  /\ at[w] = "calling"
  /\ rows' = [rows EXCEPT ![task][seed[w]] = @ + 1]
  /\ written' = written + 1
  /\ at' = [at EXCEPT ![w] = "saving"]
  /\ UNCHANGED <<attempts, state, planned, todo, skipped, errors, seed, run, history>>

EndJob(w) ==
  /\ at' = [at EXCEPT ![w] = "free"]
  /\ seed' = [seed EXCEPT ![w] = None]

Saved(w) ==
  /\ at[w] = "saving"
  /\ EndJob(w)
  /\ UNCHANGED <<stored, opened, run, history>>

(* The job ends in an error of its own; BudgetExceeded is never charged.     *)
AnswerError(w) ==
  /\ at[w] = "calling"
  /\ errors' = errors \cup {seed[w]}
  /\ \/ /\ \E c \in Classes : charged' = charged \cup {<<task, seed[w], c>>}
        /\ fails' = [fails EXCEPT ![task][seed[w]] = @ + 1]
     \/ UNCHANGED <<charged, fails>>
  /\ EndJob(w)
  /\ UNCHANGED <<stored, todo, written, skipped, task, terminal, fatal, signals,
                 losses, overrides>>

AnswerSignal(w) ==
  /\ at[w] = "calling"
  /\ errors' = errors \cup {seed[w]}
  /\ \E signal \in {"rate", "deadline"} : signals' = signals \cup {signal}
  /\ terminal' = TRUE
  /\ EndJob(w)
  /\ UNCHANGED <<stored, todo, written, skipped, task, fatal, charged, history>>

Die(w) ==
  /\ fatal' = TRUE
  /\ at' = [at EXCEPT ![w] = "off"]
  /\ seed' = [seed EXCEPT ![w] = None]

(* store.append raises: the answer is lost and the other workers stop.       *)
AppendRaises(w) ==
  /\ at[w] = "calling"
  /\ losses < MaxLosses
  /\ Die(w)
  /\ terminal' = TRUE
  /\ signals' = signals \cup {"store"}
  /\ UNCHANGED <<stored, opened, task, charged, history>>

(* The checkpoint raises: only this worker stops, terminal_seen is not set.  *)
CheckpointRaises(w) ==
  /\ at[w] = "saving"
  /\ losses < MaxLosses
  /\ Die(w)
  /\ UNCHANGED <<stored, opened, task, terminal, signals, charged, history>>

-------------------------------------------------------------------------------
(* The runner: one pipeline per task, then the report.                       *)

NoPlan == [t \in Tasks |-> {}]

(* build_quality_retry_plan, prepare_quality_retry_projection: a seed's root *)
(* is its first task whose row is weak or missing; from there on its rows    *)
(* are hidden and become jobs.  A root behind the last task is a whole chain. *)
(* (A plan that is active is only prepared again onto rows that it left so.)  *)
PlanRetry ==
  /\ task = 0 /\ state \in {"running", "halted"}
  /\ planned = NoPlan
  /\ \A t \in Tasks, s \in Seeds : losses + overrides[t][s] < MaxOverrides
  /\ \E root \in [Seeds -> 1 .. TaskCount + 1] :
       /\ \A s \in Seeds, t \in Tasks : t < root[s] => rows[t][s] = 1
       /\ planned' = [t \in Tasks |-> {s \in Seeds : root[s] <= t}]
       /\ rows' = [t \in Tasks |-> [s \in Seeds |-> IF root[s] <= t THEN 0 ELSE rows[t][s]]]
  /\ planned' # NoPlan
  /\ state' = "running"
  /\ UNCHANGED <<attempts, opened, at, seed, run, history>>

(* A changed quota epoch revives a halted run (automation.py:1561-1580).     *)
BeginRun ==
  /\ task = 0
  /\ planned # NoPlan => \A t \in Tasks, s \in Seeds : overrides[t][s] < MaxOverrides
  /\ \E newEpoch \in BOOLEAN :
       state \in {"running", "cooldown"} \/ (newEpoch /\ state # "complete")
  /\ state' = "running"
  /\ Open(1)
  /\ UNCHANGED <<rows, attempts, planned, fatal, signals, charged, fails, losses>>

(* A defect: the next task starts in spite of a signal. *)
NextTaskDespiteSignal ==
  /\ task \in 1 .. TaskCount - 1 /\ AllOff
  /\ ~fatal
  /\ Open(task + 1)
  /\ UNCHANGED <<stored, fatal, signals, charged, fails, losses>>

(* The workers of the task were gathered and nothing was raised: the next    *)
(* task is opened unless a signal stops the run.                             *)
NextTask ==
  /\ task \in 1 .. TaskCount - 1 /\ AllOff
  /\ ~fatal /\ signals = {}
  /\ Open(task + 1)
  /\ UNCHANGED <<stored, fatal, signals, charged, fails, losses>>

EndTasks ==
  /\ task \in Tasks /\ AllOff
  /\ ~fatal
  /\ signals # {} \/ task = TaskCount
  /\ task' = TaskCount + 1
  /\ UNCHANGED <<stored, opened, at, seed, terminal, fatal, signals, charged,
                 history>>

(* The run is over, and what only it knew is gone. *)
EndRun ==
  /\ task' = 0
  /\ todo' = {} /\ written' = 0 /\ skipped' = 0 /\ errors' = {}
  /\ at' = [w \in Workers |-> "off"]
  /\ seed' = [w \in Workers |-> None]
  /\ terminal' = FALSE /\ fatal' = FALSE /\ signals' = {} /\ charged' = {}

(* The first exception of a worker is raised out of the run: no report.      *)
RunFails ==
  /\ task \in Tasks /\ AllOff
  /\ fatal
  /\ state' = "failed"
  /\ EndRun
  /\ losses' = losses + 1
  /\ UNCHANGED <<rows, attempts, planned, fails, overrides>>

Charge ==
  attempts' = [k \in Tasks \X Seeds \X Classes |->
                 attempts[k] + IF k \in charged THEN 1 ELSE 0]

(* A stop signal, a spent budget or a gate that stays closed halts the run;  *)
(* the gate of the last stage may pass, or another round follows.  A run     *)
(* without signal that goes on was partitioned, and that completes its plan. *)
Conclude ==
  \/ state' = "halted" /\ planned' \in {planned, IF signals = {} THEN NoPlan ELSE planned}
  \/ "rate" \in signals /\ state' = "cooldown" /\ UNCHANGED planned
  \/ signals = {} /\ state' \in {"running", "complete"} /\ planned' = NoPlan

(* _record_report_failures charges each failed identity once per report,     *)
(* and the outcome is saved with it.                                         *)
Report ==
  /\ task = TaskCount + 1
  /\ EndRun
  /\ Charge
  /\ Conclude
  /\ UNCHANGED <<rows, history>>

(* The process dies; what was appended stays.                                *)
Crash ==
  /\ task # 0
  /\ losses < MaxLosses
  /\ losses' = losses + 1
  /\ EndRun
  /\ UNCHANGED <<stored, fails, overrides>>

Init ==
  /\ rows = [t \in Tasks |-> [s \in Seeds |-> 0]]
  /\ attempts = [k \in Tasks \X Seeds \X Classes |-> 0]
  /\ state = "running"
  /\ task = 0 /\ todo = {} /\ written = 0 /\ skipped = 0 /\ errors = {}
  /\ at = [w \in Workers |-> "off"]
  /\ seed = [w \in Workers |-> None]
  /\ terminal = FALSE /\ fatal = FALSE /\ signals = {} /\ charged = {}
  /\ fails = [t \in Tasks |-> [s \in Seeds |-> 0]]
  /\ losses = 0
  /\ planned = NoPlan
  /\ overrides = [t \in Tasks |-> [s \in Seeds |-> 0]]

EventLoop(w) == Call(w) \/ RefuseJob(w) \/ Leave(w) \/ Saved(w)

Outcome(w) ==
  AnswerStored(w) \/ AnswerError(w) \/ AnswerSignal(w) \/ AppendRaises(w)

Control == NextTask \/ EndTasks \/ RunFails \/ Report

Next ==
  \/ \E w \in Workers : EventLoop(w) \/ Outcome(w) \/ CheckpointRaises(w)
  \/ BeginRun \/ PlanRetry \/ Control \/ Crash

Spec == Init /\ [][Next]_vars

(* Coroutines that can run do, and every request ends at its wall clock      *)
(* deadline in one of the outcomes.  Runs need not be started again.         *)
Fairness ==
  /\ \A w \in Workers : WF_vars(EventLoop(w)) /\ WF_vars(Outcome(w))
  /\ WF_vars(Control)

FairSpec == Spec /\ Fairness

-------------------------------------------------------------------------------
(* Properties.                                                               *)

(* No interleaving of workers, stop signals, crashes and resumed runs        *)
(* stores two rows of a seed in one task file (pipeline.py:401-432): the     *)
(* next task would refuse that seed for ever (pipeline.py:785-788).          *)
OneRowPerSeed == \A t \in Tasks, s \in Seeds : rows[t][s] <= 1

(* A row is only ever stored on top of its source rows, although they are    *)
(* read before the request and the row is written after it.                  *)
SourceBeforeRow ==
  \A t \in Tasks, s \in Seeds :
    rows[t][s] > 0 => \A u \in Sources(t) : rows[u][s] = 1

(* After a rate limit, a deadline or a failed append no worker asks anything *)
(* new in that run, in this task or a later one (pipeline.py:674-699,        *)
(* 747-756; automation.py:2687-2688); a request already being made by a      *)
(* sibling may still retry on the wire (teacher.py:423-491).                 *)
NothingSentAfterSignal ==
  [][\A w \in Workers :
       (at[w] # "calling" /\ at'[w] = "calling") => signals = {}]_vars

(* When the workers of a task return on their own, the report accounts for   *)
(* every seed exactly once: skipped, written or in error.                    *)
ReportAddsUp ==
  (task \in Tasks /\ AllOff /\ ~terminal /\ ~fatal)
    => skipped + written + Cardinality(errors) = Cardinality(Seeds)

(* A job that keeps being rejected is not paid for for ever: quarantine      *)
(* bounds its rejected answers over all error classes, plus one for each run *)
(* whose report was lost in a crash or an exception (automation.py:1931) and *)
(* one for each time a quality plan named the quarantined job and it was     *)
(* opened once more (pipeline.py:388-390).                                   *)
RejectionsBounded ==
  \A t \in Tasks, s \in Seeds :
    fails[t][s] <= MaxFailureRetries * Cardinality(Classes) + 1 + losses + overrides[t][s]

(* Every run that starts ends: no worker waits for a job or a sibling that   *)
(* never comes, whatever mix of signals and failures stops the others.       *)
RunEnds == task # 0 ~> task = 0

(* The rows and the report agree with each other and with the seeds, and     *)
(* rejections stay bounded, over every interleaving, crash and resumed run.  *)
Safety ==
  TypeOK /\ OneRowPerSeed /\ SourceBeforeRow /\ ReportAddsUp /\ RejectionsBounded
===============================================================================
