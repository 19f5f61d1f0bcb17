------------------------------ MODULE ControlPlane ------------------------------
(***************************************************************************)
(* ControlPlane (scripts/observability/distillation_control.py): one        *)
(* managed collection process, started, stopped and reconnected from the    *)
(* dashboard.                                                               *)
(*                                                                          *)
(* Requests hold the controller's lock from end to end and are one step.    *)
(* Beside them run, per job, a reaper thread (_supervise) that waits for    *)
(* the child, and after a stop a thread (_stop_worker) that escalates from  *)
(* an interrupt to a kill; both take the lock between their waits.  The     *)
(* child runs in a session of its own and outlives the controller.          *)
(*                                                                          *)
(* A start generates a run: a manifest that reserves a range of seed        *)
(* indices, and the configuration its children are given.  A run carries    *)
(* the number of the job it was generated for.  A request that is refused   *)
(* changes nothing and is no step: a continue whose base config, task cards *)
(* or SOPs were edited since the start is one of those.                     *)
(*                                                                          *)
(* A job is known by its generation, a number here; its child too, because  *)
(* the reaper spawns the next one only when the last one was waited for.    *)
(***************************************************************************)
EXTENDS Naturals, FiniteSets

CONSTANTS
  Runs,           \* output directories, one shard each
  Bases,          \* registered base configs: [first, count], their own seed indices
  Offsets,        \* seed_index_offset of the requests
  NoRun,
  MaxJobs,        \* bound on the number of jobs
  MaxReconnects,  \* reconnect_attempts
  AttachFails     \* TRUE: attach_callback may raise

ASSUME ControlAssumption ==
  /\ IsFiniteSet(Runs) /\ Runs # {}
  /\ Bases \subseteq [first : Nat, count : Nat \ {0}]
  /\ Offsets \subseteq Nat
  /\ NoRun \notin [shard : Runs, first : Nat, count : Nat]
  /\ MaxJobs \in Nat
  /\ MaxReconnects \in Nat
  /\ AttachFails \in BOOLEAN

Jobs == 1 .. MaxJobs

VARIABLES
  control,    \* the controller process: up, closed (by close()) or down
  probing,    \* probe_active
  secret,     \* the credential slot is filled
  job,        \* generation of self.job; 0: None
  pstate,     \* its process_state; "none" without a job
  stop,       \* its stop_requested and reconnect_cancel, always set together
  used,       \* its reconnect_used
  last,       \* number of jobs so far, of all controllers
  made,       \* [Jobs -> the run generated for the job: [shard, first, count], or NoRun]
  runOf,      \* [Jobs -> run of the job]
  reaper,     \* [Jobs -> where its reaper thread is]
  stopper,    \* [Jobs -> where its stop thread is]
  alive,      \* jobs whose child lives
  killed,     \* those of them that were sent SIGKILL
  created,    \* runs whose output directory exists
  lock,       \* [Runs -> job whose token is in the lock file; 0: no file]
  workload,   \* [Runs -> what status.json of the shard looks like]
  bound       \* [Runs -> run whose configuration status.json is bound to; 0: none]

jobVars   == <<job, pstate, stop, used>>
runVars   == <<last, made, runOf>>
shardVars == <<runVars, created, lock>>
threads   == <<reaper, stopper>>
children  == <<alive, killed, workload, bound>>
vars == <<control, probing, secret, job, pstate, stop, used, last, made, runOf,
          reaper, stopper, alive, killed, created, lock, workload, bound>>

GeneratedRun == [shard : Runs, first : Nat, count : Nat]

ShardOf(g) == made[runOf[g]].shard

Active == {"running", "stopping", "terminating", "reconnect_wait"}

TypeOK ==
  /\ control \in {"up", "closed", "down"}
  /\ probing \in BOOLEAN /\ secret \in BOOLEAN
  /\ job \in 0 .. last /\ last \in 0 .. MaxJobs
  /\ pstate \in Active \cup {"none", "exited", "failed"}
  /\ stop \in BOOLEAN
  /\ used \in 0 .. MaxReconnects
  /\ made \in [Jobs -> GeneratedRun \cup {NoRun}]
  /\ runOf \in [Jobs -> 0 .. last]
  /\ reaper \in [Jobs -> {"none", "waiting", "backoff"}]
  /\ stopper \in [Jobs -> {"none", "graceful", "late", "terminate"}]
  /\ alive \subseteq 1 .. last /\ killed \subseteq alive
  /\ created \subseteq Runs
  /\ lock \in [Runs -> 0 .. last]
  /\ workload \in [Runs -> {"none", "idle", "running", "complete"}]
  /\ bound \in [Runs -> 0 .. last]

-------------------------------------------------------------------------------
(* Requests.                                                                 *)

(* _require_inactive *)
Inactive == control = "up" /\ ~probing /\ pstate \notin Active

NoJob ==
  /\ job' = 0 /\ pstate' = "none" /\ stop' = FALSE /\ used' = 0
  /\ secret' = FALSE

(* The new job is started: its lock is written before the spawn, and the     *)
(* shard is attached to the dashboard after it.                              *)
Started(r) ==
  /\ job' = last + 1 /\ pstate' = "running" /\ stop' = FALSE /\ used' = 0
  /\ secret' = TRUE
  /\ lock' = [lock EXCEPT ![r] = last + 1]
  /\ alive' = alive \cup {last + 1}
  /\ reaper' = [reaper EXCEPT ![last + 1] = "waiting"]

(* The child could not be started: nothing stays behind.                     *)
SpawnFails == NoJob /\ UNCHANGED <<lock, alive, reaper>>

(* attach_callback raises after the spawn: the job and its lock are dropped, *)
(* and its reaper finds no job.                                              *)
AttachRaises ==
  /\ AttachFails
  /\ NoJob
  /\ alive' = alive \cup {last + 1}
  /\ UNCHANGED <<lock, reaper>>

(* The next job, for run k.                                                  *)
NewJob(k) ==
  /\ last < MaxJobs
  /\ last' = last + 1
  /\ runOf' = [runOf EXCEPT ![last + 1] = k]
  /\ UNCHANGED <<stopper, killed, workload, bound>>

ManifestOf == {k \in Jobs : made[k] # NoRun}

(* A defect: only the first index of the request is looked for. *)
OverlapsAtItsStart(x, y) == y.first <= x.first /\ x.first < y.first + y.count

Overlaps(x, y) == x.first < y.first + y.count /\ y.first < x.first + x.count

(* reserved_ranges: the base configs' own, and those of all manifests, also  *)
(* of runs that never started.                                               *)
Reserved == Bases \cup {made[k] : k \in ManifestOf}

(* generate_run: a fresh output and a range nobody reserved.                 *)
Generate(r, b, first) ==
  LET new == [shard |-> r, first |-> first, count |-> b.count]
  IN  /\ r \notin created
      /\ \A x \in Reserved : ~Overlaps(new, x)
      /\ made' = [made EXCEPT ![last + 1] = new]

(* start_new: a failed start removes the directory if it is still empty; the *)
(* run and its reservation stay.                                             *)
StartNew(r, b, first) ==
  /\ Inactive
  /\ NewJob(last + 1)
  /\ Generate(r, b, first)
  /\ \/ Started(r) /\ created' = created \cup {r}
     \/ SpawnFails /\ UNCHANGED created
     \/ AttachRaises /\ created' \in {created, created \cup {r}}
  /\ UNCHANGED <<control, probing>>

(* _load_generated_run: the manifest and the configuration of the run are    *)
(* there, and so is its output.                                              *)
Loadable(k) == k \in ManifestOf /\ made[k].shard \in created

(* A defect: the ownership lock is not looked for. *)
ContinueUnlocked(k) ==
  /\ Inactive
  /\ Loadable(k)
  /\ NewJob(k)
  /\ LET r == made[k].shard
     IN  /\ workload[r] \notin {"none", "complete"}
         /\ workload[r] = "running" => job # 0 /\ runOf[job] = k
         /\ Started(r) \/ SpawnFails \/ AttachRaises
  /\ UNCHANGED <<control, probing, made, created>>

(* continue_run: an active-looking shard is only resumed by the controller   *)
(* whose own child of this run exited; an owned shard by none.               *)
Continue(k) ==
  /\ Inactive
  /\ Loadable(k)
  /\ NewJob(k)
  /\ LET r == made[k].shard
     IN  /\ workload[r] \notin {"none", "complete"}
         /\ workload[r] = "running" => job # 0 /\ runOf[job] = k
         /\ lock[r] = 0
         /\ Started(r) \/ SpawnFails \/ AttachRaises
  /\ UNCHANGED <<control, probing, made, created>>

(* _finalize of the current job.                                             *)
Finalize(result) ==
  /\ pstate' = result
  /\ lock' = [r \in Runs |-> IF lock[r] = job THEN 0 ELSE lock[r]]
  /\ secret' = FALSE

(* stop while a reconnect is awaited: there is no child.                     *)
StopWaiting ==
  /\ control # "down"
  /\ pstate = "reconnect_wait"
  /\ stop' = TRUE
  /\ Finalize("exited")
  /\ UNCHANGED <<control, probing, job, used, runVars, created, threads,
                 children>>

StopRunning ==
  /\ control # "down"
  /\ pstate = "running" /\ job \in alive
  /\ stop' = TRUE
  /\ pstate' = "stopping"
  /\ stopper' = [stopper EXCEPT ![job] = "graceful"]
  /\ UNCHANGED <<control, probing, secret, job, used, shardVars, reaper, children>>

ClearCredential ==
  /\ control # "down"
  /\ secret /\ secret' = FALSE
  /\ UNCHANGED <<control, probing, jobVars, shardVars, threads, children>>

(* probe_models asks the provider without the lock.                          *)
ProbeBegin ==
  /\ control # "down"
  /\ ~probing /\ pstate \notin Active
  /\ probing' = TRUE
  /\ UNCHANGED <<control, secret, jobVars, shardVars, threads, children>>

ProbeEnd ==
  /\ probing /\ probing' = FALSE
  /\ UNCHANGED <<control, secret, jobVars, shardVars, threads, children>>

(* close, as the server ends: one interrupt, and no thread to follow it up.  *)
Close ==
  /\ control = "up" /\ control' = "closed"
  /\ stop' = (stop \/ job \in alive)
  /\ secret' = FALSE
  /\ UNCHANGED <<probing, job, pstate, used, shardVars, threads, children>>

-------------------------------------------------------------------------------
(* The reaper of job g: _supervise.  While it waits for the child, g is the  *)
(* current job: another one starts only after a reaper or a stop ended it.   *)

EndReaper(g) == reaper' = [reaper EXCEPT ![g] = "none"]

(* A defect: a requested stop is not looked at. *)
ReapReconnectingStopped(g) ==
  /\ reaper[g] = "waiting" /\ g \notin alive
  /\ g = job
  /\ used < MaxReconnects /\ secret
  /\ used' = used + 1
  /\ pstate' = "reconnect_wait"
  /\ reaper' = [reaper EXCEPT ![g] = "backoff"]
  /\ UNCHANGED <<control, probing, secret, job, stop, shardVars, stopper, children>>

(* The child failed on its own, and attempts are left.                       *)
ReapReconnecting(g) ==
  /\ reaper[g] = "waiting" /\ g \notin alive
  /\ g = job
  /\ ~stop /\ control = "up" /\ used < MaxReconnects /\ secret
  /\ used' = used + 1
  /\ pstate' = "reconnect_wait"
  /\ reaper' = [reaper EXCEPT ![g] = "backoff"]
  /\ UNCHANGED <<control, probing, secret, job, stop, shardVars, stopper, children>>

(* It was stopped, it ended well, or it failed with no attempt left.         *)
ReapFinal(g) ==
  /\ reaper[g] = "waiting" /\ g \notin alive
  /\ g = job
  /\ \/ Finalize("exited")
     \/ ~stop /\ control = "up" /\ ~(used < MaxReconnects /\ secret)
          /\ Finalize("failed")
  /\ EndReaper(g)
  /\ UNCHANGED <<control, probing, job, stop, used, runVars, created, stopper,
                 children>>

(* cancel.wait returns early; the job, if it is still there, is finalized    *)
(* again.                                                                    *)
BackoffCancelled(g) ==
  /\ reaper[g] = "backoff"
  /\ g = job => stop
  /\ IF g = job THEN Finalize("exited") ELSE UNCHANGED <<pstate, lock, secret>>
  /\ EndReaper(g)
  /\ UNCHANGED <<control, probing, job, stop, used, runVars, created, stopper,
                 children>>

(* The delay is over, but a stop came first.                                 *)
BackoffStale(g) ==
  /\ reaper[g] = "backoff"
  /\ g # job \/ stop
  /\ EndReaper(g)
  /\ UNCHANGED <<control, probing, secret, jobVars, shardVars, stopper, children>>

Respawn(g) ==
  /\ reaper[g] = "backoff"
  /\ g = job /\ ~stop /\ secret
  /\ alive' = alive \cup {g}
  /\ pstate' = "running"
  /\ reaper' = [reaper EXCEPT ![g] = "waiting"]
  /\ UNCHANGED <<control, probing, secret, job, stop, used, shardVars, stopper,
                 killed, workload, bound>>

(* The credential was cleared, or the spawn fails.                           *)
RespawnFails(g) ==
  /\ reaper[g] = "backoff"
  /\ g = job /\ ~stop
  /\ Finalize("failed")
  /\ EndReaper(g)
  /\ UNCHANGED <<control, probing, job, stop, used, runVars, created, stopper,
                 children>>

-------------------------------------------------------------------------------
(* The stop thread of job g: _stop_worker.                                   *)

StopperSeesExit(g) ==
  /\ stopper[g] \in {"graceful", "terminate"} /\ g \notin alive
  /\ stopper' = [stopper EXCEPT ![g] = "none"]
  /\ UNCHANGED <<control, probing, secret, jobVars, shardVars, reaper, children>>

(* process.wait raises TimeoutExpired; the lock is not taken yet.            *)
GraceOver(g) ==
  /\ stopper[g] = "graceful" /\ g \in alive
  /\ stopper' = [stopper EXCEPT ![g] = "late"]
  /\ UNCHANGED <<control, probing, secret, jobVars, shardVars, reaper, children>>

(* The lock is taken: the job is the same one, its process too.              *)
Escalate(g) ==
  /\ stopper[g] = "late"
  /\ IF g = job
     THEN pstate' = "terminating" /\ stopper' = [stopper EXCEPT ![g] = "terminate"]
     ELSE stopper' = [stopper EXCEPT ![g] = "none"] /\ UNCHANGED pstate
  /\ UNCHANGED <<control, probing, secret, job, stop, used, shardVars, reaper,
                 children>>

(* A defect: the thread gives up after the terminate signal. *)
GiveUp(g) ==
  /\ stopper[g] = "terminate" /\ g \in alive
  /\ stopper' = [stopper EXCEPT ![g] = "none"]
  /\ UNCHANGED <<control, probing, secret, jobVars, shardVars, reaper, children>>

Kill(g) ==
  /\ stopper[g] = "terminate" /\ g \in alive
  /\ killed' = killed \cup {g}
  /\ stopper' = [stopper EXCEPT ![g] = "none"]
  /\ UNCHANGED <<control, probing, secret, jobVars, shardVars, reaper, alive,
                 workload, bound>>

-------------------------------------------------------------------------------
(* The collection process and the controller's own end.                      *)

(* The child makes its directory and writes status.json, unless that is      *)
(* bound to another configuration; "idle" is any state but running and       *)
(* complete, without a current worker.                                       *)
ChildReports(g) ==
  LET r == ShardOf(g)
  IN  /\ g \in alive
      /\ bound[r] \in {0, runOf[g]}
      /\ \E s \in {"idle", "running", "complete"} : workload' = [workload EXCEPT ![r] = s]
      /\ bound' = [bound EXCEPT ![r] = runOf[g]]
      /\ created' = created \cup {r}
      /\ UNCHANGED <<control, probing, secret, jobVars, runVars, lock, threads, alive, killed>>

ChildExits(g) ==
  /\ g \in alive
  /\ alive' = alive \ {g} /\ killed' = killed \ {g}
  /\ UNCHANGED <<control, probing, secret, jobVars, shardVars, threads, workload, bound>>

Gone ==
  /\ control' = "down"
  /\ NoJob
  /\ probing' = FALSE
  /\ reaper' = [g \in Jobs |-> "none"] /\ stopper' = [g \in Jobs |-> "none"]

ControllerEnds ==
  /\ control # "down"
  /\ Gone
  /\ UNCHANGED <<shardVars, children>>

(* The controller dies inside a start: after the manifest, after the output  *)
(* directory was made, or after the lock was written.                        *)
StartDies(r, b, first) ==
  /\ Inactive /\ last < MaxJobs
  /\ last' = last + 1
  /\ runOf' = [runOf EXCEPT ![last + 1] = last + 1]
  /\ Generate(r, b, first)
  /\ \/ UNCHANGED <<created, lock>>
     \/ /\ created' = created \cup {r}
        /\ lock' \in {lock, [lock EXCEPT ![r] = last + 1]}
  /\ Gone
  /\ UNCHANGED children

ControllerStarts ==
  /\ control = "down" /\ control' = "up"
  /\ UNCHANGED <<probing, secret, jobVars, shardVars, threads, children>>

Init ==
  /\ control = "up" /\ probing = FALSE /\ secret = FALSE
  /\ job = 0 /\ pstate = "none" /\ stop = FALSE /\ used = 0 /\ last = 0
  /\ made = [g \in Jobs |-> NoRun]
  /\ runOf = [g \in Jobs |-> 0]
  /\ reaper = [g \in Jobs |-> "none"] /\ stopper = [g \in Jobs |-> "none"]
  /\ alive = {} /\ killed = {} /\ created = {}
  /\ lock = [r \in Runs |-> 0]
  /\ workload = [r \in Runs |-> "none"]
  /\ bound = [r \in Runs |-> 0]

Request ==
  \/ \E r \in Runs, b \in Bases, first \in Offsets : StartNew(r, b, first)
  \/ \E k \in Jobs : Continue(k)
  \/ StopWaiting \/ StopRunning \/ ClearCredential \/ ProbeBegin \/ Close

Reaper(g) ==
  \/ ReapReconnecting(g) \/ ReapFinal(g)
  \/ BackoffCancelled(g) \/ BackoffStale(g) \/ Respawn(g) \/ RespawnFails(g)

Stopper(g) == StopperSeesExit(g) \/ GraceOver(g) \/ Escalate(g) \/ Kill(g)

Next ==
  \/ Request \/ ProbeEnd
  \/ \E g \in Jobs : Reaper(g) \/ Stopper(g) \/ ChildReports(g) \/ ChildExits(g)
  \/ \E r \in Runs, b \in Bases, first \in Offsets : StartDies(r, b, first)
  \/ ControllerEnds \/ ControllerStarts

Spec == Init /\ [][Next]_vars

(* The daemon threads run, every wait of theirs has a time limit or ends     *)
(* with the child, and SIGKILL ends a child.  Nothing else ends one.         *)
Fairness ==
  \A g \in Jobs :
    /\ WF_vars(Reaper(g)) /\ WF_vars(Stopper(g))
    /\ WF_vars(g \in killed /\ ChildExits(g))

FairSpec == Spec /\ Fairness

-------------------------------------------------------------------------------
(* Properties.                                                               *)

(* Over stops, reconnects, crashes of the controller and new controllers, a  *)
(* shard whose collection process lives carries that job's lock              *)
(* (docs/distillation_dashboard.md: ownership lock before spawn).            *)
LiveChildIsLocked == \A g \in alive : lock[ShardOf(g)] = g

(* Two collection processes never write to one shard: the rules of Continue  *)
(* are there to prevent "accidentally launching a second writer"             *)
(* (docs/distillation_dashboard.md, Stop and Continue).                      *)
NoSecondWriter ==
  \A g, h \in alive : ShardOf(g) = ShardOf(h) => g = h

(* The credential does not outlive the job it was given for, whichever       *)
(* thread ends the job (docs/distillation_dashboard.md: the RAM slot).       *)
SecretOnlyWhileActive == secret => pstate \in Active

(* A job that was asked to stop never waits for a reconnect again and gets   *)
(* no further child, although reaper and stop request race for the lock.     *)
StoppedStaysStopped ==
  [][(stop /\ job' = job) =>
       pstate' # "reconnect_wait" /\ job \notin alive' \ alive]_vars

(* A model probe and a managed process exclude each other, also when the     *)
(* process is one that the reaper restarts (probe_active, process_active).   *)
ProbeAlone == probing => job \notin alive

(* A stop ends the child, however stubborn: interrupt, terminate, kill.      *)
StopEndsChild ==
  (stop /\ job \in alive /\ control = "up") ~> (job \notin alive \/ control # "up")

(* A job does not wait for a reconnect for ever: it runs again or ends.      *)
ReconnectEnds == pstate = "reconnect_wait" ~> pstate # "reconnect_wait"

(* One writer per shard, under its lock, no probe beside it, and a           *)
(* credential only while a job needs it, over stops, reconnects and          *)
(* controllers that die.                                                     *)
Safety ==
  /\ TypeOK /\ LiveChildIsLocked /\ NoSecondWriter /\ ProbeAlone
  /\ SecretOnlyWhileActive

(* The seed indices reserved for two shards that collect, and those of a     *)
(* base config, are disjoint, although starts fail or die half way, a        *)
(* directory is used by a second run, and the first run is continued there   *)
(* (offset_conflict: "Seed offset range is already reserved").  It is about  *)
(* the reservations: a shard whose seeds are rejected goes on past the end   *)
(* of its own (take_indices of the pipeline), and no range is kept clear     *)
(* for that.                                                                 *)
ReservationsDisjoint ==
  LET Indices(x) == x.first .. x.first + x.count - 1
  IN  \A r \in Runs : bound[r] # 0 =>
        \A x \in Bases \cup {made[bound[q]] : q \in {q \in Runs \ {r} : bound[q] # 0}} :
          Indices(made[bound[r]]) \cap Indices(x) = {}

(* Nothing is left behind: a stopped child ends, and a wait for a reconnect. *)
NothingLingers == StopEndsChild /\ ReconnectEnds
===============================================================================
