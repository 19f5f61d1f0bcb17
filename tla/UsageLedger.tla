------------------------------ MODULE UsageLedger ------------------------------
(***************************************************************************)
(* The request and output-token budget of one quota epoch                   *)
(* (data/automation.py, data/teacher.py).                                   *)
(*                                                                          *)
(* Two counters watch one provider budget.  The event loop counts logical   *)
(* reservations (_TrackedTeacher); worker threads count wire attempts,      *)
(* retries included, and output tokens (teacher._Budget).  The runner reads *)
(* max(logical, wire), adds the growth since its baseline to the epoch      *)
(* counters in memory and flushes status.json in groups (_checkpoint_usage).*)
(* A crash loses the memory; a restart resumes from status.json.            *)
(*                                                                          *)
(* One action is one run of the event loop between two suspension points,   *)
(* or one step of a request thread.  _checkpoint_usage never suspends while *)
(* it holds its lock, so reserving and checkpointing are one action.        *)
(***************************************************************************)
EXTENDS Integers, FiniteSets

CONSTANTS
  Workers,            \* the stage's concurrent pipeline workers
  MaxRequests,        \* config.max_requests
  MaxOutputTokens,    \* config.max_output_tokens_total
  MaxRetries,         \* teacher.max_retries
  RequestInterval,    \* _USAGE_CHECKPOINT_REQUEST_INTERVAL
  TokenInterval,      \* _USAGE_CHECKPOINT_OUTPUT_TOKEN_INTERVAL
  AnswerTokens,       \* output tokens one answer may cost
  StageJobs,          \* jobs of one stage
  MaxCrashes          \* bound on the number of crashes

ASSUME UsageAssumption ==
  /\ IsFiniteSet(Workers)
  /\ MaxRequests \in Nat \ {0}
  /\ MaxOutputTokens \in Nat \ {0}
  /\ MaxRetries \in Nat
  /\ RequestInterval \in Nat \ {0}
  /\ TokenInterval \in Nat \ {0}
  /\ AnswerTokens \subseteq Nat
  /\ StageJobs \in Nat
  /\ MaxCrashes \in Nat

VARIABLES
  up,               \* the runner process is alive
  exhausted,        \* status["state"] = "budget_exhausted"
  phase,            \* [Workers -> where the worker's current job is]
  attempt,          \* [Workers -> retries already made for that job]
  jobs,             \* jobs of the stage not yet taken by a worker
  limit,            \* requests left in the epoch when the process started
  tokenLimit,       \* output tokens left then
  logical,          \* _LogicalUsageTracker.requests
  wire,             \* _Budget.requests
  wireTokens,       \* _Budget.output_tokens
  baseline,         \* _usage_baseline["requests"]
  tokenBaseline,    \* _usage_baseline["output_tokens"]
  used,             \* quota_epoch["requests_used"] in memory
  usedTokens,       \* quota_epoch["output_tokens_used"] in memory
  unsaved,          \* _usage_unsaved_requests
  unsavedTokens,    \* _usage_unsaved_output_tokens
  flushed,          \* _usage_activity_checkpointed
  diskUsed,         \* requests_used in status.json
  diskTokens,       \* output_tokens_used in status.json
  sent,             \* history: wire attempts of the epoch, all processes
  lost,             \* history: attempts that crashes kept out of status.json
  crashes           \* history: number of crashes

jobVars    == <<phase, attempt, jobs>>
limitVars  == <<limit, tokenLimit>>
clientVars == <<logical, wire, wireTokens>>
ledgerVars == <<baseline, tokenBaseline, used, usedTokens,
                unsaved, unsavedTokens, flushed, diskUsed, diskTokens>>
history    == <<sent, lost, crashes>>
vars == <<up, exhausted, phase, attempt, jobs, limit, tokenLimit,
          logical, wire, wireTokens, baseline, tokenBaseline, used, usedTokens,
          unsaved, unsavedTokens, flushed, diskUsed, diskTokens,
          sent, lost, crashes>>

(* idle: between jobs; reserved: counted, its thread not on the wire yet;    *)
(* wire: an attempt is in flight; retry: it failed and will be repeated;     *)
(* answered, failed: the thread is done; storing: the record is appended.    *)
Phases == {"idle", "reserved", "wire", "retry", "answered", "failed", "storing"}

Larger(a, b) == IF a >= b THEN a ELSE b

TypeOK ==
  /\ up \in BOOLEAN /\ exhausted \in BOOLEAN /\ flushed \in BOOLEAN
  /\ phase \in [Workers -> Phases]
  /\ attempt \in [Workers -> 0 .. MaxRetries]
  /\ jobs \in Nat
  /\ limit \in Nat /\ tokenLimit \in Nat
  /\ logical \in Nat /\ wire \in Nat /\ wireTokens \in Nat
  /\ baseline \in Nat /\ tokenBaseline \in Nat
  /\ used \in Nat /\ usedTokens \in Nat
  /\ unsaved \in Nat /\ unsavedTokens \in Nat
  /\ diskUsed \in Nat /\ diskTokens \in Nat
  /\ sent \in Nat /\ lost \in Nat /\ crashes \in Nat

-------------------------------------------------------------------------------
(* usage_snapshot: the conservative reading of the two request counters.     *)
Snapshot(l, w) == Larger(l, w)

(* A defect: the request trigger is missing. *)
FlushDueByTokens(requests, tokens, force, timer) ==
  /\ requests > 0 \/ tokens > 0
  /\ force \/ ~flushed \/ tokens >= TokenInterval \/ timer

(* _sync_usage folds the growth of the snapshot into the epoch;              *)
(* _checkpoint_usage then saves the status when the flush is due: forced,    *)
(* the first activity of the process, a full group of requests or tokens, or *)
(* the five-second timer (timer is any BOOLEAN: the clock is not modelled).  *)
FlushDue(requests, tokens, force, timer) ==
  /\ requests > 0 \/ tokens > 0
  /\ \/ force
     \/ ~flushed
     \/ requests >= RequestInterval
     \/ tokens >= TokenInterval
     \/ timer

CheckpointUsage(snapshot, tokens, force) ==
  LET pending       == unsaved + (snapshot - baseline)
      pendingTokens == unsavedTokens + (tokens - tokenBaseline)
  IN /\ baseline' = snapshot
     /\ tokenBaseline' = tokens
     /\ used' = used + (snapshot - baseline)
     /\ usedTokens' = usedTokens + (tokens - tokenBaseline)
     /\ \E timer \in BOOLEAN :
          IF FlushDue(pending, pendingTokens, force, timer)
          THEN /\ diskUsed' = used' /\ diskTokens' = usedTokens'
               /\ unsaved' = 0 /\ unsavedTokens' = 0
               /\ flushed' = TRUE
          ELSE /\ unsaved' = pending /\ unsavedTokens' = pendingTokens
               /\ UNCHANGED <<diskUsed, diskTokens, flushed>>

-------------------------------------------------------------------------------
(* Event loop: _TrackedTeacher.complete.                                     *)

TakeJob(w) ==
  /\ up /\ ~exhausted
  /\ phase[w] = "idle"
  /\ jobs > 0
  /\ jobs' = jobs - 1

(* A defect: the request budget is not tested. *)
ReserveUnlimited(w) ==
  /\ TakeJob(w)
  /\ logical' = logical + 1
  /\ CheckpointUsage(Snapshot(logical', wire), wireTokens, FALSE)
  /\ phase' = [phase EXCEPT ![w] = "reserved"]
  /\ UNCHANGED <<up, exhausted, attempt, limitVars, wire, wireTokens, history>>

(* The reservation is counted and offered to the checkpoint before the       *)
(* request thread is started.                                                *)
Reserve(w) ==
  /\ TakeJob(w)
  /\ logical < limit
  /\ logical' = logical + 1
  /\ CheckpointUsage(Snapshot(logical', wire), wireTokens, FALSE)
  /\ phase' = [phase EXCEPT ![w] = "reserved"]
  /\ UNCHANGED <<up, exhausted, attempt, limitVars, wire, wireTokens, history>>

(* BudgetExceeded before any wire request: the job ends as a job error.      *)
RefuseJob(w) ==
  /\ TakeJob(w)
  /\ logical >= limit
  /\ UNCHANGED <<up, exhausted, phase, attempt, limitVars, clientVars,
                 ledgerVars, history>>

(* The finally clause of complete: exact wire usage is visible now.  An      *)
(* answer that the pipeline finds invalid is not stored.                     *)
Return(w) ==
  /\ up
  /\ phase[w] \in {"answered", "failed"}
  /\ \E next \in {"storing", "idle"} :
       /\ phase[w] = "failed" => next = "idle"
       /\ phase' = [phase EXCEPT ![w] = next]
  /\ attempt' = [attempt EXCEPT ![w] = 0]
  /\ CheckpointUsage(Snapshot(logical, wire), wireTokens, FALSE)
  /\ UNCHANGED <<up, exhausted, jobs, limitVars, clientVars, history>>

(* pipeline._checkpoint_progress after the record was appended.              *)
Stored(w) ==
  /\ up
  /\ phase[w] = "storing"
  /\ phase' = [phase EXCEPT ![w] = "idle"]
  /\ CheckpointUsage(Snapshot(logical, wire), wireTokens, FALSE)
  /\ UNCHANGED <<up, exhausted, attempt, jobs, limitVars, clientVars, history>>

-------------------------------------------------------------------------------
(* Request threads: teacher._with_retries around _request_sync.              *)

(* A defect: retries are charged without the test. *)
SendAttemptUnlimited(w) ==
  /\ up
  /\ phase[w] \in {"reserved", "retry"}
  /\ wire' = wire + 1
  /\ sent' = sent + 1
  /\ phase' = [phase EXCEPT ![w] = "wire"]
  /\ UNCHANGED <<up, exhausted, attempt, jobs, limitVars, logical, wireTokens,
                 ledgerVars, lost, crashes>>

SendAttempt(w) ==
  /\ up
  /\ phase[w] \in {"reserved", "retry"}
  /\ wire < limit
  /\ wire' = wire + 1
  /\ sent' = sent + 1
  /\ phase' = [phase EXCEPT ![w] = "wire"]
  /\ UNCHANGED <<up, exhausted, attempt, jobs, limitVars, logical, wireTokens,
                 ledgerVars, lost, crashes>>

(* _Budget.reserve_request raises: nothing is sent.                          *)
RefuseAttempt(w) ==
  /\ up
  /\ phase[w] \in {"reserved", "retry"}
  /\ wire >= limit
  /\ phase' = [phase EXCEPT ![w] = "failed"]
  /\ UNCHANGED <<up, exhausted, attempt, jobs, limitVars, clientVars,
                 ledgerVars, history>>

(* _Budget.add_output raises for an answer that breaks the token budget.     *)
Answer(w) ==
  /\ up
  /\ phase[w] = "wire"
  /\ \E n \in AnswerTokens : wireTokens' = wireTokens + n
  /\ phase' = [phase EXCEPT ![w] =
                 IF wireTokens' <= tokenLimit THEN "answered" ELSE "failed"]
  /\ UNCHANGED <<up, exhausted, attempt, jobs, limitVars, logical, wire,
                 ledgerVars, history>>

RetryableFailure(w) ==
  /\ up
  /\ phase[w] = "wire"
  /\ attempt[w] < MaxRetries
  /\ attempt' = [attempt EXCEPT ![w] = @ + 1]
  /\ phase' = [phase EXCEPT ![w] = "retry"]
  /\ UNCHANGED <<up, exhausted, jobs, limitVars, clientVars, ledgerVars, history>>

FinalFailure(w) ==
  /\ up
  /\ phase[w] = "wire"
  /\ phase' = [phase EXCEPT ![w] = "failed"]
  /\ UNCHANGED <<up, exhausted, attempt, jobs, limitVars, clientVars,
                 ledgerVars, history>>

-------------------------------------------------------------------------------
(* The end of a stage: a forced checkpoint, then _budget_exhausted decides   *)
(* whether another stage (or another round of this one) starts.              *)

BudgetExhausted(requests, tokens) ==
  requests >= MaxRequests \/ tokens >= MaxOutputTokens

(* A defect: the stage ends without a forced checkpoint. *)
StageBoundaryUnforced ==
  /\ up /\ ~exhausted
  /\ jobs = 0
  /\ \A w \in Workers : phase[w] = "idle"
  /\ CheckpointUsage(Snapshot(logical, wire), wireTokens, FALSE)
  /\ exhausted' = BudgetExhausted(used', usedTokens')
  /\ jobs' = IF exhausted' THEN 0 ELSE StageJobs
  /\ UNCHANGED <<up, phase, attempt, limitVars, clientVars, history>>

StageBoundary ==
  /\ up /\ ~exhausted
  /\ jobs = 0
  /\ \A w \in Workers : phase[w] = "idle"
  /\ CheckpointUsage(Snapshot(logical, wire), wireTokens, TRUE)
  /\ exhausted' = BudgetExhausted(used', usedTokens')
  /\ jobs' = IF exhausted' THEN 0 ELSE StageJobs
  /\ UNCHANGED <<up, phase, attempt, limitVars, clientVars, history>>

(* _event saves the status it has: no sync, the group is flushed as it is.   *)
EventSave ==
  /\ up
  /\ \A w \in Workers : phase[w] = "idle"
  /\ unsaved > 0 \/ unsavedTokens > 0
  /\ diskUsed' = used /\ diskTokens' = usedTokens
  /\ unsaved' = 0 /\ unsavedTokens' = 0
  /\ flushed' = TRUE
  /\ UNCHANGED <<up, exhausted, jobVars, limitVars, clientVars, baseline,
                 tokenBaseline, used, usedTokens, history>>

-------------------------------------------------------------------------------
(* Attempts of the epoch as far as this process can know: what status.json   *)
(* held when it started, MaxRequests - limit, plus its own.                  *)
Attempted == MaxRequests - limit + wire

Crash ==
  /\ up
  /\ crashes < MaxCrashes
  /\ up' = FALSE
  /\ crashes' = crashes + 1
  /\ lost' = lost + Larger(0, Attempted - diskUsed)
  /\ UNCHANGED <<exhausted, jobVars, limitVars, clientVars, ledgerVars, sent>>

(* AutomationRunner.__init__ resumes from status.json: the remaining budget  *)
(* is what it says, and run() checks it before the first stage.              *)
Restart ==
  /\ ~up
  /\ up' = TRUE
  /\ phase' = [w \in Workers |-> "idle"]
  /\ attempt' = [w \in Workers |-> 0]
  /\ jobs' = StageJobs
  /\ limit' = Larger(0, MaxRequests - diskUsed)
  /\ tokenLimit' = Larger(0, MaxOutputTokens - diskTokens)
  /\ logical' = 0 /\ wire' = 0 /\ wireTokens' = 0
  /\ baseline' = 0 /\ tokenBaseline' = 0
  /\ used' = diskUsed /\ usedTokens' = diskTokens
  /\ unsaved' = 0 /\ unsavedTokens' = 0
  /\ flushed' = FALSE
  /\ exhausted' = (exhausted \/ BudgetExhausted(diskUsed, diskTokens))
  /\ UNCHANGED <<diskUsed, diskTokens, history>>

Init ==
  /\ up = TRUE /\ exhausted = FALSE
  /\ phase = [w \in Workers |-> "idle"]
  /\ attempt = [w \in Workers |-> 0]
  /\ jobs = StageJobs
  /\ limit = MaxRequests /\ tokenLimit = MaxOutputTokens
  /\ logical = 0 /\ wire = 0 /\ wireTokens = 0
  /\ baseline = 0 /\ tokenBaseline = 0
  /\ used = 0 /\ usedTokens = 0
  /\ unsaved = 0 /\ unsavedTokens = 0
  /\ flushed = FALSE
  /\ diskUsed = 0 /\ diskTokens = 0
  /\ sent = 0 /\ lost = 0 /\ crashes = 0

EventLoop(w) == Reserve(w) \/ RefuseJob(w) \/ Return(w) \/ Stored(w)

Thread(w) ==
  \/ SendAttempt(w) \/ RefuseAttempt(w)
  \/ Answer(w) \/ RetryableFailure(w) \/ FinalFailure(w)

Next ==
  \/ \E w \in Workers : EventLoop(w) \/ Thread(w)
  \/ StageBoundary
  \/ EventSave
  \/ Crash
  \/ Restart

(* The event loop runs ready coroutines, a request thread ends by its wall   *)
(* clock deadline, and the runner reaches the end of its stage.  Nothing     *)
(* forces a crash, a restart or a particular outcome of a request.           *)
Fairness ==
  /\ \A w \in Workers : WF_vars(EventLoop(w)) /\ WF_vars(Thread(w))
  /\ WF_vars(StageBoundary)

Spec == Init /\ [][Next]_vars

FairSpec == Spec /\ Fairness

-------------------------------------------------------------------------------
(* Properties.                                                               *)

(* The epoch counters, in memory and in status.json, never exceed the        *)
(* request budget, whatever mix of reservations, retries, crashes and        *)
(* restarts produced them (automation.py:1872-1887, 1454-1492).              *)
EpochWithinBudget == diskUsed <= used /\ used <= MaxRequests

(* The provider never sees more requests than the budget plus what crashes   *)
(* hid from status.json: the only way to overspend is a lost checkpoint.     *)
SpendAccounted == sent <= MaxRequests + lost

(* What a crash can hide: fewer than one checkpoint group, plus the attempts *)
(* the in-flight jobs made since their last callback, whatever the two       *)
(* counters hide from each other (docs/data_pipeline.md:230-237).            *)
CrashGap == (RequestInterval - 1) + Cardinality(Workers) * (MaxRetries + 1)

CrashGapBounded ==
  /\ up => Attempted - diskUsed <= CrashGap
  /\ lost <= crashes * CrashGap

(* status.json never reports less usage than it did before, over flushes,    *)
(* crashes and restarts: no request is charged and then forgotten.           *)
PersistedUsageGrows ==
  [][diskUsed' >= diskUsed /\ diskTokens' >= diskTokens]_vars

(* Attempts, counters and phases are those of their types, and a crash       *)
(* costs no more than the last group.                                        *)
Safety == TypeOK /\ CrashGapBounded

(* Every attempt reaches status.json unless the process dies first: the      *)
(* stage boundary flushes a group that never fills (automation.py:2282).     *)
UsageBecomesDurable ==
  (up /\ Attempted > diskUsed) ~> (~up \/ Attempted <= diskUsed)
===============================================================================
