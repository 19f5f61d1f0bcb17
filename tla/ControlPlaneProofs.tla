--------------------------- MODULE ControlPlaneProofs ---------------------------
(* Proofs about the control plane, for every set of shards, base configs and  *)
(* offsets and every number of jobs and reconnects, when attaching a shard to *)
(* the dashboard does not fail.                                               *)
EXTENDS ControlPlane, TLAPS

\* A child's run is there, its shard's directory too, and the lock carries its job.
ChildOwns(g) == /\ runOf[g] \in Jobs /\ made[runOf[g]] \in GeneratedRun
                /\ ShardOf(g) \in created
                /\ lock[ShardOf(g)] = g

\* A child, and a job whose reaper will go on with it, own their shard; who waits to spawn
\* has no child.
Ownership ==
  /\ \A g \in alive : ChildOwns(g)
  /\ \A g \in Jobs : g = job /\ reaper[g] # "none" /\ ~stop => ChildOwns(g)
  /\ \A g \in Jobs : reaper[g] = "backoff" => g \notin alive

\* The state of the process agrees with its child, its threads and the requests.
States ==
  /\ pstate = "reconnect_wait" => ~stop /\ job \notin alive
  /\ job \in alive => pstate \in {"running", "stopping", "terminating"}
  /\ \A g \in Jobs : g = job /\ reaper[g] = "waiting" =>
       pstate \in {"running", "stopping", "terminating"}
  /\ \A g \in Jobs : g = job /\ reaper[g] = "backoff" /\ ~stop => pstate = "reconnect_wait"
  /\ \A g \in Jobs : g = job /\ stopper[g] # "none" => stop
  /\ probing /\ ~stop => pstate \notin Active
  /\ \A g \in Jobs : g > last => stopper[g] = "none"

\* Manifests reserve ranges that nobody else has; a status file is bound to a run of its shard.
Ranges ==
  /\ \A k \in Jobs : k > last => made[k] = NoRun
  /\ \A k \in ManifestOf : \A x \in Bases : ~Overlaps(made[k], x)
  /\ \A k, l \in ManifestOf : k # l => ~Overlaps(made[k], made[l])
  /\ \A r \in Runs : bound[r] # 0 => bound[r] \in ManifestOf /\ made[bound[r]].shard = r

\* What a request, the reaper and the stop thread agree on.
JobState == States /\ ProbeAlone /\ SecretOnlyWhileActive

IInv == TypeOK /\ Ownership /\ JobState /\ Ranges

LEMMA Bounds == /\ Jobs = 1 .. MaxJobs /\ MaxJobs \in Nat /\ MaxReconnects \in Nat
                /\ Bases \subseteq [first : Nat, count : Nat \ {0}] /\ Offsets \subseteq Nat
                /\ NoRun \notin GeneratedRun
  BY ControlAssumption DEF Jobs, GeneratedRun

LEMMA InitIInv == Init => IInv
<1> SUFFICES ASSUME Init PROVE IInv
  OBVIOUS
<1> USE Bounds DEF Init
<1>1. TypeOK
  <2>1. control \in {"up", "closed", "down"} /\ probing \in BOOLEAN /\ secret \in BOOLEAN
    OBVIOUS
  <2>2. job \in 0 .. last /\ last \in 0 .. MaxJobs
    OBVIOUS
  <2>3. pstate \in Active \cup {"none", "exited", "failed"} /\ stop \in BOOLEAN
    OBVIOUS
  <2>4. used \in 0 .. MaxReconnects
    OBVIOUS
  <2>5. made \in [Jobs -> GeneratedRun \cup {NoRun}] /\ runOf \in [Jobs -> 0 .. last]
    OBVIOUS
  <2>6. /\ reaper \in [Jobs -> {"none", "waiting", "backoff"}]
        /\ stopper \in [Jobs -> {"none", "graceful", "late", "terminate"}]
    OBVIOUS
  <2>7. alive \subseteq 1 .. last /\ killed \subseteq alive /\ created \subseteq Runs
    OBVIOUS
  <2>8. /\ lock \in [Runs -> 0 .. last] /\ bound \in [Runs -> 0 .. last]
        /\ workload \in [Runs -> {"none", "idle", "running", "complete"}]
    OBVIOUS
  <2> QED
    BY ONLY <2>1, <2>2, <2>3, <2>4, <2>5, <2>6, <2>7, <2>8 DEF TypeOK
<1>2. Ownership
  BY DEF Ownership
<1>3. States /\ ProbeAlone /\ SecretOnlyWhileActive
  BY DEF States, ProbeAlone, SecretOnlyWhileActive, Active
<1>4. Ranges
  BY DEF Ranges, ManifestOf
<1> QED
  BY <1>1, <1>2, <1>3, <1>4 DEF IInv, JobState

------------------------------------------------------------------------------
(* Types *)

LEMMA GeneratedIsRun ==
  ASSUME NEW r \in Runs, NEW b \in Bases, NEW f \in Offsets
  PROVE  [shard |-> r, first |-> f, count |-> b.count] \in GeneratedRun
  BY Bounds DEF GeneratedRun

\* A start or a continue; the child of a new job has its number.
LEMMA NewJobTypes ==
  ASSUME TypeOK, NEW r \in Runs, NEW k \in 1 .. last + 1,
         NewJob(k), Started(r) \/ SpawnFails,
         made' \in [Jobs -> GeneratedRun \cup {NoRun}],
         created' \subseteq Runs, UNCHANGED <<control, probing>>
  PROVE  TypeOK'
<1> USE Bounds
<1>1. last' \in 1 .. MaxJobs /\ last' = last + 1 /\ last + 1 \in Jobs
  BY DEF NewJob, TypeOK
<1>2. runOf' \in [Jobs -> 0 .. last']
  BY <1>1 DEF NewJob, TypeOK
<1>3. /\ stopper' = stopper /\ killed' = killed /\ workload' = workload /\ bound' \in [Runs -> 0 .. last']
  BY <1>1 DEF NewJob, TypeOK
<1>4. CASE Started(r)
  <2>1. job' = last' /\ pstate' = "running" /\ stop' = FALSE /\ used' = 0 /\ secret' = TRUE
    BY <1>1, <1>4 DEF Started
  <2>2. lock' \in [Runs -> 0 .. last']
    BY <1>1, <1>4 DEF Started, TypeOK
  <2>3. alive' \subseteq 1 .. last' /\ killed' \subseteq alive'
    BY <1>1, <1>3, <1>4 DEF Started, TypeOK
  <2>4. reaper' \in [Jobs -> {"none", "waiting", "backoff"}]
    BY <1>1, <1>4 DEF Started, TypeOK
  <2>8. control' \in {"up", "closed", "down"} /\ probing' \in BOOLEAN /\ secret' \in BOOLEAN
    BY <2>1 DEF TypeOK
  <2>9. job' \in 0 .. last' /\ last' \in 0 .. MaxJobs /\ used' \in 0 .. MaxReconnects
    BY <1>1, <2>1
  <2>10. pstate' \in Active \cup {"none", "exited", "failed"} /\ stop' \in BOOLEAN
    BY <2>1 DEF Active
  <2> QED
    BY <1>1, <1>2, <1>3, <2>2, <2>3, <2>4, <2>8, <2>9, <2>10 DEF TypeOK
<1>5. CASE SpawnFails
  <2>1. job' = 0 /\ pstate' = "none" /\ stop' = FALSE /\ used' = 0 /\ secret' = FALSE
    BY <1>5 DEF SpawnFails, NoJob
  <2>2. lock' \in [Runs -> 0 .. last'] /\ alive' \subseteq 1 .. last' /\ killed' \subseteq alive'
    BY <1>1, <1>3, <1>5 DEF SpawnFails, TypeOK
  <2>3. reaper' \in [Jobs -> {"none", "waiting", "backoff"}]
    BY <1>5 DEF SpawnFails, TypeOK
  <2>8. control' \in {"up", "closed", "down"} /\ probing' \in BOOLEAN /\ secret' \in BOOLEAN
    BY <2>1 DEF TypeOK
  <2>9. job' \in 0 .. last' /\ last' \in 0 .. MaxJobs /\ used' \in 0 .. MaxReconnects
    BY <1>1, <2>1
  <2>10. pstate' \in Active \cup {"none", "exited", "failed"} /\ stop' \in BOOLEAN
    BY <2>1 DEF Active
  <2> QED
    BY <1>1, <1>2, <1>3, <2>2, <2>3, <2>8, <2>9, <2>10 DEF TypeOK
<1> QED
  BY <1>4, <1>5

LEMMA FinalizeTypes ==
  ASSUME TypeOK, NEW result \in {"exited", "failed"}, Finalize(result), last' = last
  PROVE  /\ lock' \in [Runs -> 0 .. last']
         /\ pstate' \in Active \cup {"none", "exited", "failed"} /\ secret' \in BOOLEAN
<1>1. lock' \in [Runs -> 0 .. last']
  <2>1. lock \in [Runs -> 0 .. last] /\ last \in Nat
    BY Bounds DEF TypeOK
  <2> QED
    BY <2>1 DEF Finalize
<1>2. pstate' \in Active \cup {"none", "exited", "failed"}
  BY DEF Finalize
<1>3. secret' \in BOOLEAN
  BY DEF Finalize
<1> QED
  BY <1>1, <1>2, <1>3

LEMMA GoneTypes ==
  ASSUME Gone, last' \in 0 .. MaxJobs
  PROVE  /\ job' \in 0 .. last' /\ control' \in {"up", "closed", "down"}
         /\ probing' \in BOOLEAN /\ secret' \in BOOLEAN
         /\ pstate' \in Active \cup {"none", "exited", "failed"}
         /\ stop' \in BOOLEAN /\ used' \in 0 .. MaxReconnects
<1>1. job' \in 0 .. last' /\ used' \in 0 .. MaxReconnects
  BY Bounds DEF Gone, NoJob
<1>2. probing' \in BOOLEAN /\ secret' \in BOOLEAN /\ stop' \in BOOLEAN
  BY DEF Gone, NoJob
<1>3. control' \in {"up", "closed", "down"} /\ pstate' \in Active \cup {"none", "exited", "failed"}
  BY DEF Gone, NoJob
<1> QED
  BY <1>1, <1>2, <1>3

LEMMA TypeKept ==
  ASSUME IInv, [Next]_vars, ~AttachFails
  PROVE  TypeOK'
<1> USE Bounds DEF IInv, JobState
<1>1. ASSUME NEW r \in Runs, NEW b \in Bases, NEW f \in Offsets, StartNew(r, b, f) PROVE TypeOK'
  <2>1. made' \in [Jobs -> GeneratedRun \cup {NoRun}]
    BY <1>1, GeneratedIsRun DEF StartNew, Generate, TypeOK
  <2>2. created' \subseteq Runs /\ last + 1 \in 1 .. last + 1
    BY <1>1 DEF StartNew, AttachRaises, TypeOK
  <2> QED
    BY <1>1, <2>1, <2>2, NewJobTypes DEF StartNew, AttachRaises
<1>2. ASSUME NEW k \in Jobs, Continue(k) PROVE TypeOK'
  <2>1. k \in 1 .. last + 1 /\ made[k] \in GeneratedRun /\ made[k].shard \in Runs
    BY <1>2 DEF Continue, Loadable, ManifestOf, TypeOK, Ranges, GeneratedRun
  <2>2. made' \in [Jobs -> GeneratedRun \cup {NoRun}] /\ created' \subseteq Runs
    BY <1>2 DEF Continue, TypeOK
  <2> QED
    BY <1>2, <2>1, <2>2, NewJobTypes DEF Continue, AttachRaises
<1>3. ASSUME NEW r \in Runs, NEW b \in Bases, NEW f \in Offsets, StartDies(r, b, f) PROVE TypeOK'
  <2>1. last' = last + 1 /\ last + 1 \in Jobs /\ last' \in 0 .. MaxJobs
    BY <1>3 DEF StartDies, TypeOK
  <2>2. made' \in [Jobs -> GeneratedRun \cup {NoRun}]
    BY <1>3, GeneratedIsRun DEF StartDies, Generate, TypeOK
  <2>3. runOf' \in [Jobs -> 0 .. last']
    BY <1>3, <2>1 DEF StartDies, TypeOK
  <2>4. created' \subseteq Runs /\ lock' \in [Runs -> 0 .. last']
    <3>1. [lock EXCEPT ![r] = last + 1] \in [Runs -> 0 .. last'] /\ lock \in [Runs -> 0 .. last']
      BY <2>1 DEF TypeOK
    <3> QED
      BY <1>3, <3>1 DEF StartDies, TypeOK
  <2>5. /\ job' \in 0 .. last' /\ control' \in {"up", "closed", "down"}
        /\ probing' \in BOOLEAN /\ secret' \in BOOLEAN
        /\ pstate' \in Active \cup {"none", "exited", "failed"}
        /\ stop' \in BOOLEAN /\ used' \in 0 .. MaxReconnects
    BY <1>3, <2>1, GoneTypes DEF StartDies
  <2>6. /\ reaper' \in [Jobs -> {"none", "waiting", "backoff"}]
        /\ stopper' \in [Jobs -> {"none", "graceful", "late", "terminate"}]
    BY <1>3 DEF StartDies, Gone
  <2>7. /\ alive' \subseteq 1 .. last' /\ killed' \subseteq alive'
        /\ workload' \in [Runs -> {"none", "idle", "running", "complete"}]
        /\ bound' \in [Runs -> 0 .. last']
    BY <1>3, <2>1 DEF StartDies, children, TypeOK
  <2> QED
    BY <2>1, <2>2, <2>3, <2>4, <2>5, <2>6, <2>7 DEF TypeOK
<1>4. CASE StopWaiting
  BY <1>4, FinalizeTypes DEF StopWaiting, TypeOK, runVars, threads, children
<1>5. CASE ControllerEnds
  <2>1. last' = last /\ last \in 0 .. MaxJobs
    BY <1>5 DEF ControllerEnds, shardVars, runVars, TypeOK
  <2>2. /\ reaper' \in [Jobs -> {"none", "waiting", "backoff"}]
        /\ stopper' \in [Jobs -> {"none", "graceful", "late", "terminate"}]
    BY <1>5 DEF ControllerEnds, Gone
  <2> QED
    BY <1>5, <2>1, <2>2, GoneTypes DEF ControllerEnds, TypeOK, shardVars, runVars, children
<1>6. ASSUME NEW g \in Jobs, ReapFinal(g) PROVE TypeOK'
  <2>1. last' = last /\ \E x \in {"exited", "failed"} : Finalize(x)
    BY <1>6 DEF ReapFinal, runVars
  <2>2. reaper' \in [Jobs -> {"none", "waiting", "backoff"}]
    BY <1>6 DEF ReapFinal, EndReaper, TypeOK
  <2> QED
    BY <1>6, <2>1, <2>2, FinalizeTypes DEF ReapFinal, TypeOK, runVars, children
<1>7. ASSUME NEW g \in Jobs, BackoffCancelled(g) PROVE TypeOK'
  <2>1. reaper' \in [Jobs -> {"none", "waiting", "backoff"}]
    BY <1>7 DEF BackoffCancelled, EndReaper, TypeOK
  <2>2. CASE g = job
    BY <1>7, <2>1, <2>2, FinalizeTypes DEF BackoffCancelled, TypeOK, runVars, children
  <2>3. CASE g # job
    BY <1>7, <2>1, <2>3 DEF BackoffCancelled, TypeOK, runVars, children
  <2> QED
    BY <2>2, <2>3
<1>8. ASSUME NEW g \in Jobs, RespawnFails(g) PROVE TypeOK'
  <2>1. reaper' \in [Jobs -> {"none", "waiting", "backoff"}]
    BY <1>8 DEF RespawnFails, EndReaper, TypeOK
  <2> QED
    BY <1>8, <2>1, FinalizeTypes DEF RespawnFails, TypeOK, runVars, children
<1>9. ASSUME NEW g \in Jobs, Escalate(g) PROVE TypeOK'
  <2>1. stopper' \in [Jobs -> {"none", "graceful", "late", "terminate"}]
    BY <1>9 DEF Escalate, TypeOK
  <2>2. pstate' \in Active \cup {"none", "exited", "failed"}
    BY <1>9 DEF Escalate, TypeOK, Active
  <2> QED
    BY <1>9, <2>1, <2>2 DEF Escalate, TypeOK, shardVars, runVars, children
<1>10. ASSUME NEW g \in Jobs, ChildReports(g) PROVE TypeOK'
  <2>1. ShardOf(g) \in Runs /\ runOf[g] \in 0 .. last
    BY <1>10 DEF ChildReports, Ownership, ChildOwns, TypeOK
  <2>2. /\ workload' \in [Runs -> {"none", "idle", "running", "complete"}]
        /\ bound' \in [Runs -> 0 .. last'] /\ created' \subseteq Runs
    BY <1>10, <2>1 DEF ChildReports, TypeOK, runVars
  <2> QED
    BY <1>10, <2>2 DEF ChildReports, TypeOK, jobVars, runVars, threads
<1>11. CASE StopRunning
  BY <1>11 DEF StopRunning, shardVars, runVars, children, TypeOK, Active
<1>12. CASE ClearCredential
  BY <1>12 DEF ClearCredential, jobVars, shardVars, runVars, threads, children, TypeOK, Active
<1>13. CASE ProbeBegin
  BY <1>13 DEF ProbeBegin, jobVars, shardVars, runVars, threads, children, TypeOK, Active
<1>14. CASE ProbeEnd
  BY <1>14 DEF ProbeEnd, jobVars, shardVars, runVars, threads, children, TypeOK, Active
<1>15. CASE Close
  BY <1>15 DEF Close, shardVars, runVars, threads, children, TypeOK, Active
<1>16. CASE ControllerStarts
  BY <1>16 DEF ControllerStarts, jobVars, shardVars, runVars, threads, children, TypeOK, Active
<1>17. ASSUME NEW g \in Jobs, ReapReconnecting(g) PROVE TypeOK'
  BY <1>17 DEF ReapReconnecting, shardVars, runVars, children, TypeOK, Active
<1>18. ASSUME NEW g \in Jobs, BackoffStale(g) PROVE TypeOK'
  BY <1>18 DEF BackoffStale, EndReaper, jobVars, shardVars, runVars, children, TypeOK, Active
<1>19. ASSUME NEW g \in Jobs, Respawn(g) PROVE TypeOK'
  BY <1>19 DEF Respawn, shardVars, runVars, TypeOK, Active
<1>20. ASSUME NEW g \in Jobs, StopperSeesExit(g) PROVE TypeOK'
  BY <1>20 DEF StopperSeesExit, jobVars, shardVars, runVars, children, TypeOK, Active
<1>21. ASSUME NEW g \in Jobs, GraceOver(g) PROVE TypeOK'
  BY <1>21 DEF GraceOver, jobVars, shardVars, runVars, children, TypeOK, Active
<1>22. ASSUME NEW g \in Jobs, Kill(g) PROVE TypeOK'
  BY <1>22 DEF Kill, jobVars, shardVars, runVars, TypeOK, Active
<1>23. ASSUME NEW g \in Jobs, ChildExits(g) PROVE TypeOK'
  BY <1>23 DEF ChildExits, jobVars, shardVars, runVars, threads, TypeOK, Active
<1>24. CASE UNCHANGED vars
  BY <1>24 DEF vars, TypeOK, TypeOK, Active
<1> QED
  BY <1>1, <1>2, <1>3, <1>4, <1>5, <1>6, <1>7, <1>8, <1>9, <1>10, <1>11, <1>12, <1>13,
     <1>14, <1>15, <1>16, <1>17, <1>18, <1>19, <1>20, <1>21, <1>22, <1>23, <1>24
  DEF Next, Request, Reaper, Stopper

------------------------------------------------------------------------------
(* The job and its threads *)

LEMMA JobStateKept ==
  ASSUME IInv, [Next]_vars, ~AttachFails
  PROVE  JobState'
<1> USE Bounds DEF IInv, JobState, SecretOnlyWhileActive, ProbeAlone, States, Active, TypeOK, Ownership
<1>1. ASSUME NEW r \in Runs, NEW b \in Bases, NEW f \in Offsets, StartNew(r, b, f) PROVE JobState'
  BY <1>1 DEF StartNew, NewJob, Generate, Started, SpawnFails, AttachRaises, NoJob, Inactive
<1>2. ASSUME NEW k \in Jobs, Continue(k) PROVE JobState'
  BY <1>2 DEF Continue, NewJob, Started, SpawnFails, AttachRaises, NoJob, Inactive, Loadable
<1>3. ASSUME NEW r \in Runs, NEW b \in Bases, NEW f \in Offsets, StartDies(r, b, f) PROVE JobState'
  BY <1>3 DEF StartDies, Generate, NoJob, Inactive, Gone, children
<1>4. CASE StopWaiting
  BY <1>4 DEF StopWaiting, Finalize, runVars, threads, children
<1>5. CASE StopRunning
  BY <1>5 DEF StopRunning, shardVars, runVars, children
<1>6. CASE ClearCredential
  BY <1>6 DEF ClearCredential, jobVars, shardVars, runVars, threads, children
<1>7. CASE ProbeBegin
  BY <1>7 DEF ProbeBegin, jobVars, shardVars, runVars, threads, children
<1>8. CASE ProbeEnd
  BY <1>8 DEF ProbeEnd, jobVars, shardVars, runVars, threads, children
<1>9. CASE Close
  BY <1>9 DEF Close, shardVars, runVars, threads, children
<1>10. CASE ControllerEnds
  BY <1>10 DEF ControllerEnds, Gone, NoJob, shardVars, runVars, children
<1>11. CASE ControllerStarts
  BY <1>11 DEF ControllerStarts, jobVars, shardVars, runVars, threads, children
<1>12. ASSUME NEW g \in Jobs, ReapReconnecting(g) PROVE JobState'
  BY <1>12 DEF ReapReconnecting, shardVars, runVars, children
<1>13. ASSUME NEW g \in Jobs, ReapFinal(g) PROVE JobState'
  BY <1>13 DEF ReapFinal, Finalize, EndReaper, runVars, children
<1>14. ASSUME NEW g \in Jobs, BackoffCancelled(g) PROVE JobState'
  BY <1>14 DEF BackoffCancelled, Finalize, EndReaper, runVars, children
<1>15. ASSUME NEW g \in Jobs, BackoffStale(g) PROVE JobState'
  BY <1>15 DEF BackoffStale, EndReaper, jobVars, shardVars, runVars, children
<1>16. ASSUME NEW g \in Jobs, Respawn(g) PROVE JobState'
  BY <1>16 DEF Respawn, shardVars, runVars
<1>17. ASSUME NEW g \in Jobs, RespawnFails(g) PROVE JobState'
  BY <1>17 DEF RespawnFails, Finalize, EndReaper, runVars, children
<1>18. ASSUME NEW g \in Jobs, StopperSeesExit(g) PROVE JobState'
  BY <1>18 DEF StopperSeesExit, jobVars, shardVars, runVars, children
<1>19. ASSUME NEW g \in Jobs, GraceOver(g) PROVE JobState'
  BY <1>19 DEF GraceOver, jobVars, shardVars, runVars, children
<1>20. ASSUME NEW g \in Jobs, Escalate(g) PROVE JobState'
  BY <1>20 DEF Escalate, shardVars, runVars, children
<1>21. ASSUME NEW g \in Jobs, Kill(g) PROVE JobState'
  BY <1>21 DEF Kill, jobVars, shardVars, runVars
<1>22. ASSUME NEW g \in Jobs, ChildReports(g) PROVE JobState'
  BY <1>22 DEF ChildReports, jobVars, runVars, threads
<1>23. ASSUME NEW g \in Jobs, ChildExits(g) PROVE JobState'
  BY <1>23 DEF ChildExits, jobVars, shardVars, runVars, threads
<1>24. CASE UNCHANGED vars
  BY <1>24 DEF vars
<1> QED
  BY <1>1, <1>2, <1>3, <1>4, <1>5, <1>6, <1>7, <1>8, <1>9, <1>10, <1>11, <1>12, <1>13,
     <1>14, <1>15, <1>16, <1>17, <1>18, <1>19, <1>20, <1>21, <1>22, <1>23, <1>24
  DEF Next, Request, Reaper, Stopper

------------------------------------------------------------------------------
(* Locks and shards *)

LEMMA OwnershipKept ==
  ASSUME IInv, [Next]_vars, ~AttachFails
  PROVE  Ownership'
<1> USE Bounds DEF IInv, JobState
<1>1. ASSUME NEW r \in Runs, NEW k \in 1 .. last + 1, NewJob(k), Started(r) \/ SpawnFails,
             made'[k] \in GeneratedRun, made'[k].shard = r, r \in created',
             \A i \in 0 .. last : made'[i] = made[i], created \subseteq created',
             \A g \in alive : ShardOf(g) # r
      PROVE  Ownership'
  <2>1. last + 1 \in Jobs /\ last \in Nat /\ runOf'[last + 1] = k /\ k \in Jobs
    BY <1>1 DEF NewJob, TypeOK
  <2>2. \A g \in Jobs : g # last + 1 => runOf'[g] = runOf[g] /\ reaper'[g] = reaper[g]
    BY <1>1 DEF NewJob, Started, SpawnFails, TypeOK
  <2>3. ASSUME NEW g \in alive PROVE ChildOwns(g)'
    <3>1. g \in 1 .. last /\ g # last + 1 /\ g \in Jobs
      BY <2>1 DEF TypeOK
    <3>2. runOf'[g] = runOf[g] /\ made'[runOf[g]] = made[runOf[g]] /\ ChildOwns(g)
      BY <1>1, <2>2, <3>1 DEF Ownership, TypeOK
    <3>3. ShardOf(g)' = ShardOf(g) /\ ShardOf(g) \in Runs
      BY <3>2 DEF ShardOf, ChildOwns, TypeOK
    <3>4. lock'[ShardOf(g)] = lock[ShardOf(g)]
      BY <1>1, <3>3 DEF Started, SpawnFails, TypeOK
    <3> QED
      BY <1>1, <3>2, <3>3, <3>4 DEF ChildOwns
  <2>4. CASE Started(r)
    <3>0. PICK n \in Jobs : n = last + 1
      BY <2>1
    <3>1. ShardOf(n)' = r /\ lock'[r] = n
      BY <1>1, <2>1, <2>4, <3>0 DEF Started, ShardOf, TypeOK
    <3>2. ChildOwns(n)'
      BY <1>1, <2>1, <3>0, <3>1 DEF ChildOwns
    <3>3. job' = n /\ alive' = alive \cup {n} /\ reaper'[n] = "waiting"
      BY <2>1, <2>4, <3>0 DEF Started, TypeOK
    <3>4. \A g \in Jobs : reaper'[g] = "backoff" => g \notin alive'
      BY <2>2, <3>0, <3>3 DEF Ownership
    <3> QED
      BY <2>3, <3>2, <3>3, <3>4 DEF Ownership
  <2>5. CASE SpawnFails
    <3>1. job' = 0 /\ alive' = alive /\ reaper' = reaper
      BY <2>5 DEF SpawnFails, NoJob
    <3> QED
      BY <2>3, <3>1 DEF Ownership
  <2> QED
    BY <1>1, <2>4, <2>5
<1>2. ASSUME NEW r \in Runs, NEW b \in Bases, NEW f \in Offsets, StartNew(r, b, f)
      PROVE  Ownership'
  <2>1. /\ made'[last + 1] = [shard |-> r, first |-> f, count |-> b.count]
        /\ \A i \in 0 .. last : made'[i] = made[i]
    BY <1>2 DEF StartNew, NewJob, Generate, TypeOK
  <2>2. \A g \in alive : ShardOf(g) # r
    BY <1>2 DEF StartNew, Generate, Ownership, ChildOwns
  <2>3. CASE Started(r) /\ created' = created \cup {r}
    <3>1. PICK n \in Jobs : n = last + 1
      BY <1>2 DEF StartNew, NewJob, TypeOK
    <3>2. n \in 1 .. last + 1 /\ NewJob(n) /\ made'[n] \in GeneratedRun /\ made'[n].shard = r
      BY <1>2, <2>1, <3>1, GeneratedIsRun DEF StartNew, TypeOK
    <3>3. r \in created' /\ created \subseteq created'
      BY <2>3
    <3> QED
      BY <1>1, <2>1, <2>2, <2>3, <3>2, <3>3
  <2>4. CASE SpawnFails /\ UNCHANGED created
    <3>1. ASSUME NEW g \in alive PROVE ChildOwns(g)'
      <4>1. g \in 1 .. last /\ ChildOwns(g)
        BY DEF Ownership, TypeOK
      <4>2. runOf'[g] = runOf[g] /\ made'[runOf[g]] = made[runOf[g]]
        BY <1>2, <2>1, <4>1 DEF StartNew, NewJob, TypeOK
      <4> QED
        BY <2>4, <4>1, <4>2 DEF SpawnFails, ChildOwns, ShardOf
    <3> QED
      BY <2>4, <3>1 DEF SpawnFails, NoJob, Ownership
  <2> QED
    BY <1>2, <2>3, <2>4 DEF StartNew, AttachRaises
<1>3. ASSUME NEW k \in Jobs, Continue(k) PROVE Ownership'
  <2>1. k \in 1 .. last + 1 /\ made[k] \in GeneratedRun /\ made[k].shard \in Runs
    BY <1>3 DEF Continue, Loadable, ManifestOf, TypeOK, Ranges, GeneratedRun
  <2>2. \A g \in alive : ShardOf(g) # made[k].shard
    BY <1>3, <2>1 DEF Continue, Ownership, ChildOwns, TypeOK
  <2> QED
    BY <1>1, <1>3, <2>1, <2>2 DEF Continue, Loadable, AttachRaises
<1>4. ASSUME NEW r \in Runs, NEW b \in Bases, NEW f \in Offsets, StartDies(r, b, f)
      PROVE  Ownership'
  <2>1. /\ last + 1 \in Jobs /\ \A i \in 0 .. last : made'[i] = made[i]
        /\ \A g \in 1 .. last : runOf'[g] = runOf[g]
    BY <1>4 DEF StartDies, Generate, TypeOK
  <2>2. alive' = alive /\ job' = 0 /\ reaper' = [g \in Jobs |-> "none"] /\ r \notin created
    BY <1>4 DEF StartDies, Gone, NoJob, Generate, children
  <2>3. ASSUME NEW g \in alive PROVE ChildOwns(g)'
    <3>1. g \in 1 .. last /\ ChildOwns(g) /\ ShardOf(g) \in Runs
      BY DEF Ownership, ChildOwns, TypeOK
    <3>2. runOf'[g] = runOf[g] /\ made'[runOf[g]] = made[runOf[g]] /\ runOf[g] \in 0 .. last
      BY <2>1, <3>1 DEF TypeOK
    <3>3. ShardOf(g) # r
      BY <2>2, <3>1 DEF ChildOwns
    <3>4. lock'[ShardOf(g)] = lock[ShardOf(g)] /\ created \subseteq created'
      BY <1>4, <3>1, <3>3 DEF StartDies, TypeOK
    <3> QED
      BY <3>1, <3>2, <3>4 DEF ChildOwns, ShardOf
  <2> QED
    BY <2>2, <2>3 DEF Ownership
<1>5. CASE StopWaiting
  BY <1>5 DEF StopWaiting, Finalize, runVars, threads, children, Ownership, States, ChildOwns, ShardOf, TypeOK
<1>6. CASE StopRunning
  BY <1>6 DEF StopRunning, shardVars, runVars, children, Ownership, States, ChildOwns, ShardOf, TypeOK
<1>7. CASE ClearCredential
  BY <1>7 DEF ClearCredential, jobVars, shardVars, runVars, threads, children, Ownership, States, ChildOwns, ShardOf, TypeOK
<1>8. CASE ProbeBegin
  BY <1>8 DEF ProbeBegin, jobVars, shardVars, runVars, threads, children, Ownership, States, ChildOwns, ShardOf, TypeOK
<1>9. CASE ProbeEnd
  BY <1>9 DEF ProbeEnd, jobVars, shardVars, runVars, threads, children, Ownership, States, ChildOwns, ShardOf, TypeOK
<1>10. CASE Close
  BY <1>10 DEF Close, shardVars, runVars, threads, children, Ownership, States, ChildOwns, ShardOf, TypeOK
<1>11. CASE ControllerEnds
  BY <1>11 DEF ControllerEnds, Gone, NoJob, shardVars, runVars, children, Ownership, States, ChildOwns, ShardOf, TypeOK
<1>12. CASE ControllerStarts
  BY <1>12 DEF ControllerStarts, jobVars, shardVars, runVars, threads, children, Ownership, States, ChildOwns, ShardOf, TypeOK
<1>13. ASSUME NEW g \in Jobs, ReapReconnecting(g) PROVE Ownership'
  BY <1>13 DEF ReapReconnecting, shardVars, runVars, children, Ownership, States, ChildOwns, ShardOf, TypeOK
<1>14. ASSUME NEW g \in Jobs, ReapFinal(g) PROVE Ownership'
  BY <1>14 DEF ReapFinal, Finalize, EndReaper, runVars, children, Ownership, States, ChildOwns, ShardOf, TypeOK
<1>15. ASSUME NEW g \in Jobs, BackoffCancelled(g) PROVE Ownership'
  BY <1>15 DEF BackoffCancelled, Finalize, EndReaper, runVars, children, Ownership, States, ChildOwns, ShardOf, TypeOK
<1>16. ASSUME NEW g \in Jobs, BackoffStale(g) PROVE Ownership'
  BY <1>16 DEF BackoffStale, EndReaper, jobVars, shardVars, runVars, children, Ownership, States, ChildOwns, ShardOf, TypeOK
<1>17. ASSUME NEW g \in Jobs, Respawn(g) PROVE Ownership'
  BY <1>17 DEF Respawn, shardVars, runVars, Ownership, States, ChildOwns, ShardOf, TypeOK
<1>18. ASSUME NEW g \in Jobs, RespawnFails(g) PROVE Ownership'
  BY <1>18 DEF RespawnFails, Finalize, EndReaper, runVars, children, Ownership, States, ChildOwns, ShardOf, TypeOK
<1>19. ASSUME NEW g \in Jobs, StopperSeesExit(g) PROVE Ownership'
  BY <1>19 DEF StopperSeesExit, jobVars, shardVars, runVars, children, Ownership, States, ChildOwns, ShardOf, TypeOK
<1>20. ASSUME NEW g \in Jobs, GraceOver(g) PROVE Ownership'
  BY <1>20 DEF GraceOver, jobVars, shardVars, runVars, children, Ownership, States, ChildOwns, ShardOf, TypeOK
<1>21. ASSUME NEW g \in Jobs, Escalate(g) PROVE Ownership'
  BY <1>21 DEF Escalate, shardVars, runVars, children, Ownership, States, ChildOwns, ShardOf, TypeOK
<1>22. ASSUME NEW g \in Jobs, Kill(g) PROVE Ownership'
  BY <1>22 DEF Kill, jobVars, shardVars, runVars, Ownership, States, ChildOwns, ShardOf, TypeOK
<1>23. ASSUME NEW g \in Jobs, ChildReports(g) PROVE Ownership'
  BY <1>23 DEF ChildReports, jobVars, runVars, threads, Ownership, States, ChildOwns, ShardOf, TypeOK
<1>24. ASSUME NEW g \in Jobs, ChildExits(g) PROVE Ownership'
  BY <1>24 DEF ChildExits, jobVars, shardVars, runVars, threads, Ownership, States, ChildOwns, ShardOf, TypeOK
<1>25. CASE UNCHANGED vars
  BY <1>25 DEF vars, Ownership, Ownership, States, ChildOwns, ShardOf, TypeOK
<1> QED
  BY <1>2, <1>3, <1>4, <1>5, <1>6, <1>7, <1>8, <1>9, <1>10, <1>11, <1>12, <1>13, <1>14,
     <1>15, <1>16, <1>17, <1>18, <1>19, <1>20, <1>21, <1>22, <1>23, <1>24, <1>25
  DEF Next, Request, Reaper, Stopper

------------------------------------------------------------------------------
(* Seed ranges *)

\* A generated run joins the manifests; what it reserves was free.
LEMMA GenerateKeepsRanges ==
  ASSUME IInv, NEW r \in Runs, NEW b \in Bases, NEW f \in Offsets, Generate(r, b, f),
         last + 1 \in Jobs, last' = last + 1, bound' = bound
  PROVE  Ranges'
<1> DEFINE new == [shard |-> r, first |-> f, count |-> b.count]
<1>1. new \in GeneratedRun /\ new # NoRun
  BY Bounds, GeneratedIsRun
<1>2. made[last + 1] = NoRun /\ last \in Nat
  BY Bounds DEF IInv, Ranges, TypeOK
<1>3. made'[last + 1] = new /\ \A k \in Jobs : k # last + 1 => made'[k] = made[k]
  BY DEF Generate, IInv, TypeOK
<1>4. \A x \in Reserved : ~Overlaps(new, x)
  BY DEF Generate
<1> HIDE DEF new
<1>5. ManifestOf' = ManifestOf \cup {last + 1} /\ last + 1 \notin ManifestOf
  BY <1>1, <1>2, <1>3 DEF ManifestOf
<1>6. \A k \in ManifestOf : made'[k] = made[k] /\ ~Overlaps(new, made[k]) /\ ~Overlaps(made[k], new)
  BY <1>3, <1>4, <1>5 DEF Reserved, ManifestOf, Overlaps
<1>7. \A x \in Bases : ~Overlaps(new, x)
  BY <1>4 DEF Reserved
<1>8. \A k \in Jobs : k > last' => made'[k] = NoRun
  BY Bounds, <1>2, <1>3 DEF IInv, Ranges
<1>9. \A k \in ManifestOf' : \A x \in Bases : ~Overlaps(made'[k], x)
  BY <1>3, <1>5, <1>6, <1>7 DEF IInv, Ranges
<1>10. \A k, l \in ManifestOf' : k # l => ~Overlaps(made'[k], made'[l])
  BY <1>3, <1>5, <1>6 DEF IInv, Ranges
<1>11. \A q \in Runs : bound'[q] # 0 => bound'[q] \in ManifestOf' /\ made'[bound'[q]].shard = q
  BY <1>5, <1>6 DEF IInv, Ranges
<1> QED
  BY <1>8, <1>9, <1>10, <1>11 DEF Ranges, Overlaps

LEMMA RangesKept ==
  ASSUME IInv, [Next]_vars, ~AttachFails
  PROVE  Ranges'
<1> USE Bounds DEF IInv, JobState
<1>1. ASSUME NEW r \in Runs, NEW b \in Bases, NEW f \in Offsets, StartNew(r, b, f) PROVE Ranges'
  <2>1. last + 1 \in Jobs /\ last' = last + 1 /\ bound' = bound
    BY <1>1 DEF StartNew, NewJob, TypeOK
  <2> QED
    BY <1>1, <2>1, GenerateKeepsRanges DEF StartNew
<1>2. ASSUME NEW k \in Jobs, Continue(k) PROVE Ranges'
  BY <1>2 DEF Continue, NewJob, Ranges, ManifestOf, TypeOK
<1>3. ASSUME NEW r \in Runs, NEW b \in Bases, NEW f \in Offsets, StartDies(r, b, f) PROVE Ranges'
  <2>1. last + 1 \in Jobs /\ last' = last + 1 /\ bound' = bound
    BY <1>3 DEF StartDies, children, TypeOK
  <2> QED
    BY <1>3, <2>1, GenerateKeepsRanges DEF StartDies
<1>4. ASSUME NEW g \in Jobs, ChildReports(g) PROVE Ranges'
  <2>1. runOf[g] \in ManifestOf /\ ShardOf(g) = made[runOf[g]].shard /\ made' = made /\ last' = last
    BY <1>4 DEF ChildReports, Ownership, ChildOwns, ShardOf, ManifestOf, runVars
  <2>2. ManifestOf' = ManifestOf
    BY <2>1 DEF ManifestOf
  <2>3. \A q \in Runs : bound'[q] = bound[q] \/ (q = ShardOf(g) /\ bound'[q] = runOf[g])
    <3>1. bound' = [bound EXCEPT ![ShardOf(g)] = runOf[g]]
      BY <1>4 DEF ChildReports
    <3>2. bound \in [Runs -> 0 .. last]
      BY DEF TypeOK
    <3> QED
      BY ONLY <3>1, <3>2
  <2>4. \A q \in Runs : bound'[q] # 0 => bound'[q] \in ManifestOf /\ made[bound'[q]].shard = q
    BY <2>1, <2>3 DEF Ranges
  <2> QED
    BY <2>1, <2>2, <2>4 DEF Ranges, Overlaps
<1>5. CASE StopWaiting
  BY <1>5 DEF StopWaiting, Finalize, runVars, threads, children, Ranges, ManifestOf, TypeOK
<1>6. CASE StopRunning
  BY <1>6 DEF StopRunning, shardVars, runVars, children, Ranges, ManifestOf, TypeOK
<1>7. CASE ClearCredential
  BY <1>7 DEF ClearCredential, jobVars, shardVars, runVars, threads, children, Ranges, ManifestOf, TypeOK
<1>8. CASE ProbeBegin
  BY <1>8 DEF ProbeBegin, jobVars, shardVars, runVars, threads, children, Ranges, ManifestOf, TypeOK
<1>9. CASE ProbeEnd
  BY <1>9 DEF ProbeEnd, jobVars, shardVars, runVars, threads, children, Ranges, ManifestOf, TypeOK
<1>10. CASE Close
  BY <1>10 DEF Close, shardVars, runVars, threads, children, Ranges, ManifestOf, TypeOK
<1>11. CASE ControllerEnds
  BY <1>11 DEF ControllerEnds, Gone, NoJob, shardVars, runVars, children, Ranges, ManifestOf, TypeOK
<1>12. CASE ControllerStarts
  BY <1>12 DEF ControllerStarts, jobVars, shardVars, runVars, threads, children, Ranges, ManifestOf, TypeOK
<1>13. ASSUME NEW g \in Jobs, ReapReconnecting(g) PROVE Ranges'
  BY <1>13 DEF ReapReconnecting, shardVars, runVars, children, Ranges, ManifestOf, TypeOK
<1>14. ASSUME NEW g \in Jobs, ReapFinal(g) PROVE Ranges'
  BY <1>14 DEF ReapFinal, Finalize, EndReaper, runVars, children, Ranges, ManifestOf, TypeOK
<1>15. ASSUME NEW g \in Jobs, BackoffCancelled(g) PROVE Ranges'
  BY <1>15 DEF BackoffCancelled, Finalize, EndReaper, runVars, children, Ranges, ManifestOf, TypeOK
<1>16. ASSUME NEW g \in Jobs, BackoffStale(g) PROVE Ranges'
  BY <1>16 DEF BackoffStale, EndReaper, jobVars, shardVars, runVars, children, Ranges, ManifestOf, TypeOK
<1>17. ASSUME NEW g \in Jobs, Respawn(g) PROVE Ranges'
  BY <1>17 DEF Respawn, shardVars, runVars, Ranges, ManifestOf, TypeOK
<1>18. ASSUME NEW g \in Jobs, RespawnFails(g) PROVE Ranges'
  BY <1>18 DEF RespawnFails, Finalize, EndReaper, runVars, children, Ranges, ManifestOf, TypeOK
<1>19. ASSUME NEW g \in Jobs, StopperSeesExit(g) PROVE Ranges'
  BY <1>19 DEF StopperSeesExit, jobVars, shardVars, runVars, children, Ranges, ManifestOf, TypeOK
<1>20. ASSUME NEW g \in Jobs, GraceOver(g) PROVE Ranges'
  BY <1>20 DEF GraceOver, jobVars, shardVars, runVars, children, Ranges, ManifestOf, TypeOK
<1>21. ASSUME NEW g \in Jobs, Escalate(g) PROVE Ranges'
  BY <1>21 DEF Escalate, shardVars, runVars, children, Ranges, ManifestOf, TypeOK
<1>22. ASSUME NEW g \in Jobs, Kill(g) PROVE Ranges'
  BY <1>22 DEF Kill, jobVars, shardVars, runVars, Ranges, ManifestOf, TypeOK
<1>23. ASSUME NEW g \in Jobs, ChildExits(g) PROVE Ranges'
  BY <1>23 DEF ChildExits, jobVars, shardVars, runVars, threads, Ranges, ManifestOf, TypeOK
<1>24. CASE UNCHANGED vars
  BY <1>24 DEF vars, Ranges, Ranges, ManifestOf, TypeOK
<1> QED
  BY <1>1, <1>2, <1>3, <1>4, <1>5, <1>6, <1>7, <1>8, <1>9, <1>10, <1>11, <1>12, <1>13,
     <1>14, <1>15, <1>16, <1>17, <1>18, <1>19, <1>20, <1>21, <1>22, <1>23, <1>24
  DEF Next, Request, Reaper, Stopper

\* Shards are bound to runs of their own, and these reserved disjoint ranges.
LEMMA RangesDisjoint ==
  ASSUME IInv
  PROVE  ReservationsDisjoint
<1> DEFINE Indices(x) == x.first .. x.first + x.count - 1
<1>1. ASSUME NEW x \in GeneratedRun, NEW y, y \in GeneratedRun \/ y \in Bases, ~Overlaps(x, y)
      PROVE  Indices(x) \cap Indices(y) = {}
  <2>1. x.first \in Nat /\ x.count \in Nat /\ y.first \in Nat /\ y.count \in Nat
    BY <1>1, Bounds DEF GeneratedRun
  <2> QED
    BY <1>1, <2>1 DEF Overlaps
<1> HIDE DEF Indices
<1>2. ASSUME NEW r \in Runs, bound[r] # 0,
             NEW x \in Bases \cup {made[bound[q]] : q \in {q \in Runs \ {r} : bound[q] # 0}}
      PROVE  Indices(made[bound[r]]) \cap Indices(x) = {}
  <2>1. bound[r] \in ManifestOf /\ made[bound[r]] \in GeneratedRun /\ made[bound[r]].shard = r
    BY <1>2 DEF IInv, Ranges, ManifestOf, TypeOK
  <2>2. CASE x \in Bases
    BY <1>1, <2>1, <2>2 DEF IInv, Ranges
  <2>3. CASE x \notin Bases
    <3>1. PICK q \in Runs : q # r /\ bound[q] # 0 /\ x = made[bound[q]]
      BY <1>2, <2>3
    <3>2. bound[q] \in ManifestOf /\ x \in GeneratedRun /\ made[bound[q]].shard = q
      BY <3>1 DEF IInv, Ranges, ManifestOf, TypeOK
    <3>3. ~Overlaps(made[bound[r]], x)
      BY <2>1, <3>1, <3>2 DEF IInv, Ranges
    <3> QED
      BY <1>1, <2>1, <3>2, <3>3
  <2> QED
    BY <2>2, <2>3
<1> QED
  BY <1>2 DEF ReservationsDisjoint, Indices

------------------------------------------------------------------------------
(* The theorems *)

\* A child's lock names it, so two children of one shard are the same.
LEMMA OwnersAreSafe ==
  ASSUME IInv
  PROVE  Safety
  BY DEF IInv, JobState, Ownership, ChildOwns, Safety, LiveChildIsLocked, NoSecondWriter

LEMMA Invariant == ~AttachFails => (Spec => []IInv)
<1> SUFFICES ASSUME ~AttachFails PROVE Spec => []IInv
  OBVIOUS
<1>1. IInv /\ [Next]_vars => IInv'
  BY TypeKept, JobStateKept, OwnershipKept, RangesKept DEF IInv, JobState
<1> QED
  BY InitIInv, <1>1, PTL DEF Spec

\* When the attachment of a shard does not fail, a shard has one writer, which holds its
\* lock, no probe runs beside it and the credential goes with the job, over all stops,
\* reconnects and controllers that die (start_new, continue_run, _supervise, _stop_worker).
THEOREM OneLockedWriter == ~AttachFails => (Spec => []Safety)
<1>1. IInv => Safety
  BY OwnersAreSafe
<1> QED
  BY Invariant, <1>1, PTL

\* No two shards that collect have reserved the same seed index, and none has reserved one of a
\* base config (generate_run, reserved_ranges).
THEOREM ReservedRangesDisjoint == ~AttachFails => (Spec => []ReservationsDisjoint)
<1>1. IInv => ReservationsDisjoint
  BY RangesDisjoint
<1> QED
  BY Invariant, <1>1, PTL

LEMMA StopStep ==
  ASSUME IInv, [Next]_vars, stop, job' = job
  PROVE  pstate' # "reconnect_wait" /\ job \notin alive' \ alive
<1> USE Bounds DEF IInv, JobState, TypeOK, States
<1>1. ASSUME NEW r \in Runs, NEW b \in Bases, NEW f \in Offsets, StartNew(r, b, f)
      PROVE  pstate' # "reconnect_wait" /\ job \notin alive' \ alive
  BY <1>1 DEF StartNew, NewJob, Generate, Started, SpawnFails, AttachRaises, NoJob, Inactive
<1>2. ASSUME NEW k \in Jobs, Continue(k)
      PROVE  pstate' # "reconnect_wait" /\ job \notin alive' \ alive
  BY <1>2 DEF Continue, NewJob, Started, SpawnFails, AttachRaises, NoJob, Inactive, Loadable
<1>3. ASSUME NEW r \in Runs, NEW b \in Bases, NEW f \in Offsets, StartDies(r, b, f)
      PROVE  pstate' # "reconnect_wait" /\ job \notin alive' \ alive
  BY <1>3 DEF StartDies, Generate, NoJob, Inactive, Gone, children
<1>4. CASE StopWaiting
  BY <1>4 DEF StopWaiting, Finalize, runVars, threads, children
<1>5. CASE StopRunning
  BY <1>5 DEF StopRunning, shardVars, runVars, children
<1>6. CASE ClearCredential
  BY <1>6 DEF ClearCredential, jobVars, shardVars, runVars, threads, children
<1>7. CASE ProbeBegin
  BY <1>7 DEF ProbeBegin, jobVars, shardVars, runVars, threads, children
<1>8. CASE ProbeEnd
  BY <1>8 DEF ProbeEnd, jobVars, shardVars, runVars, threads, children
<1>9. CASE Close
  BY <1>9 DEF Close, shardVars, runVars, threads, children
<1>10. CASE ControllerEnds
  BY <1>10 DEF ControllerEnds, Gone, NoJob, shardVars, runVars, children
<1>11. CASE ControllerStarts
  BY <1>11 DEF ControllerStarts, jobVars, shardVars, runVars, threads, children
<1>12. ASSUME NEW g \in Jobs, ReapReconnecting(g)
      PROVE  pstate' # "reconnect_wait" /\ job \notin alive' \ alive
  BY <1>12 DEF ReapReconnecting, shardVars, runVars, children
<1>13. ASSUME NEW g \in Jobs, ReapFinal(g)
      PROVE  pstate' # "reconnect_wait" /\ job \notin alive' \ alive
  BY <1>13 DEF ReapFinal, Finalize, EndReaper, runVars, children
<1>14. ASSUME NEW g \in Jobs, BackoffCancelled(g)
      PROVE  pstate' # "reconnect_wait" /\ job \notin alive' \ alive
  BY <1>14 DEF BackoffCancelled, Finalize, EndReaper, runVars, children
<1>15. ASSUME NEW g \in Jobs, BackoffStale(g)
      PROVE  pstate' # "reconnect_wait" /\ job \notin alive' \ alive
  BY <1>15 DEF BackoffStale, EndReaper, jobVars, shardVars, runVars, children
<1>16. ASSUME NEW g \in Jobs, Respawn(g)
      PROVE  pstate' # "reconnect_wait" /\ job \notin alive' \ alive
  BY <1>16 DEF Respawn, shardVars, runVars
<1>17. ASSUME NEW g \in Jobs, RespawnFails(g)
      PROVE  pstate' # "reconnect_wait" /\ job \notin alive' \ alive
  BY <1>17 DEF RespawnFails, Finalize, EndReaper, runVars, children
<1>18. ASSUME NEW g \in Jobs, StopperSeesExit(g)
      PROVE  pstate' # "reconnect_wait" /\ job \notin alive' \ alive
  BY <1>18 DEF StopperSeesExit, jobVars, shardVars, runVars, children
<1>19. ASSUME NEW g \in Jobs, GraceOver(g)
      PROVE  pstate' # "reconnect_wait" /\ job \notin alive' \ alive
  BY <1>19 DEF GraceOver, jobVars, shardVars, runVars, children
<1>20. ASSUME NEW g \in Jobs, Escalate(g)
      PROVE  pstate' # "reconnect_wait" /\ job \notin alive' \ alive
  BY <1>20 DEF Escalate, shardVars, runVars, children
<1>21. ASSUME NEW g \in Jobs, Kill(g)
      PROVE  pstate' # "reconnect_wait" /\ job \notin alive' \ alive
  BY <1>21 DEF Kill, jobVars, shardVars, runVars
<1>22. ASSUME NEW g \in Jobs, ChildReports(g)
      PROVE  pstate' # "reconnect_wait" /\ job \notin alive' \ alive
  BY <1>22 DEF ChildReports, jobVars, runVars, threads
<1>23. ASSUME NEW g \in Jobs, ChildExits(g)
      PROVE  pstate' # "reconnect_wait" /\ job \notin alive' \ alive
  BY <1>23 DEF ChildExits, jobVars, shardVars, runVars, threads
<1>24. CASE UNCHANGED vars
  BY <1>24 DEF vars
<1> QED
  BY <1>1, <1>2, <1>3, <1>4, <1>5, <1>6, <1>7, <1>8, <1>9, <1>10, <1>11, <1>12, <1>13,
     <1>14, <1>15, <1>16, <1>17, <1>18, <1>19, <1>20, <1>21, <1>22, <1>23, <1>24
  DEF Next, Request, Reaper, Stopper

\* A job that was asked to stop is never restarted nor waits for it (_supervise, stop).
THEOREM StopIsFinal == ~AttachFails => (Spec => StoppedStaysStopped)
<1>1. IInv /\ [Next]_vars =>
        [stop /\ job' = job => pstate' # "reconnect_wait" /\ job \notin alive' \ alive]_vars
  BY StopStep
<1> QED
  BY Invariant, <1>1, PTL DEF StoppedStaysStopped, Spec
==============================================================================
