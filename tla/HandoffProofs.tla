---------------------------- MODULE HandoffProofs ----------------------------
(* Proofs about the coordinator of handoff.py, for every set of launches and *)
(* every ramp, order, content of files and bound of the environment.         *)
EXTENDS Handoff, TLAPS

\* A launch that is in its training section, or whose training child lives on without it.
Holder(c) == run[c].pc \in {"jobs", "waiting"} \/ trainer[c].pc # "none"

\* What EXCEPT needs to know of the records.
Shape ==
  /\ DOMAIN run = Launches /\ DOMAIN trainer = Launches
  /\ \A c \in Launches : "pc" \in DOMAIN run[c] /\ "pc" \in DOMAIN trainer[c]

\* The lock file stands for exactly one holder: it is there while somebody trains, and a child
\* belongs to a coordinator that waits for it or is gone.
LockInv ==
  /\ Shape
  /\ \A c, d \in Launches : Holder(c) /\ Holder(d) => c = d
  /\ \A c \in Launches : Holder(c) => lock = TRUE
  /\ \A c \in Launches : trainer[c].pc # "none" => run[c].pc \in {"waiting", "ended"}

\* A step of a coordinator outside its training section.
Quiet(c) ==
  /\ run[c].pc \notin {"jobs", "waiting", "ended"}
  /\ DOMAIN run' = DOMAIN run
  /\ \A d \in Launches \ {c} : run'[d] = run[d]
  /\ "pc" \in DOMAIN run'[c]
  /\ run'[c].pc \notin {"jobs", "waiting"}
  /\ UNCHANGED <<lock, trainer>>

LEMMA InitLock == Init => LockInv
  BY DEF Init, LockInv, Shape, Holder, Unlaunched, NoChild

LEMMA QuietKeeps ==
  ASSUME LockInv, NEW c \in Launches, Quiet(c)
  PROVE  LockInv'
<1>1. trainer[c].pc = "none"
  BY DEF Quiet, LockInv
<1> QED
  BY <1>1 DEF Quiet, LockInv, Shape, Holder

LEMMA CoordinatorQuiet ==
  ASSUME LockInv, NEW c \in Launches,
         \/ \E live, train \in BOOLEAN : Launch(c, live, train)
         \/ \E exported \in BOOLEAN : StagePassed(c, exported)
         \/ StageRun(c)
         \/ Decide(c)
         \/ Distill(c)
         \/ ClassifyTerminal(c)
         \/ ReadFile(c)
         \/ HashFile(c)
         \/ JudgeSnapshot(c)
         \/ RecoverHandoff(c)
         \/ WriteManifest(c)
         \/ WriteSidecar(c)
         \/ RecordHandoff(c)
         \/ TrainGate(c)
         \/ Finish(c)
  PROVE  Quiet(c)
<1> USE DEF LockInv, Shape, Quiet, To, EndWith, Raise, world, handoffFiles
<1>1. ASSUME NEW live \in BOOLEAN, NEW train \in BOOLEAN, Launch(c, live, train) PROVE Quiet(c)
  BY <1>1 DEF Launch
<1>2. ASSUME NEW exported \in BOOLEAN, StagePassed(c, exported) PROVE Quiet(c)
  BY <1>2 DEF StagePassed
<1>3. CASE StageRun(c)
  BY <1>3 DEF StageRun
<1>4. CASE Decide(c)
  BY <1>4 DEF Decide
<1>5. CASE Distill(c)
  BY <1>5 DEF Distill
<1>6. CASE ClassifyTerminal(c)
  BY <1>6 DEF ClassifyTerminal
<1>7. CASE ReadFile(c)
  BY <1>7 DEF ReadFile
<1>8. CASE HashFile(c)
  BY <1>8 DEF HashFile
<1>9. CASE JudgeSnapshot(c)
  BY <1>9 DEF JudgeSnapshot
<1>10. CASE RecoverHandoff(c)
  BY <1>10 DEF RecoverHandoff
<1>11. CASE WriteManifest(c)
  BY <1>11 DEF WriteManifest
<1>12. CASE WriteSidecar(c)
  BY <1>12 DEF WriteSidecar
<1>13. CASE RecordHandoff(c)
  BY <1>13 DEF RecordHandoff
<1>14. CASE TrainGate(c)
  BY <1>14 DEF TrainGate
<1>15. CASE Finish(c)
  BY <1>15 DEF Finish
<1> QED
  BY <1>1, <1>2, <1>3, <1>4, <1>5, <1>6, <1>7, <1>8, <1>9, <1>10, <1>11, <1>12, <1>13, <1>14, <1>15

LEMMA TakeLockKeeps ==
  ASSUME LockInv, NEW c \in Launches, TakeLock(c)
  PROVE  LockInv'
  BY DEF TakeLock, LockInv, Shape, Holder, To, Raise

LEMMA StartJobKeeps ==
  ASSUME LockInv, NEW c \in Launches, StartJob(c)
  PROVE  LockInv'
<1>1. /\ run[c].pc = "jobs" /\ trainer[c].pc = "none"
      /\ \A d \in Launches \ {c} : ~Holder(d)
  BY DEF StartJob, LockInv, Holder
<1>2. CASE FrozenHolds
  <2>0. PICK i \in run[c].todo :
           /\ LET m == [run[c].mem EXCEPT !.phase = "training", !.active = Order[i]]
              IN  Save(m) /\ To(c, [run[c] EXCEPT !.pc = "waiting", !.mem = m, !.todo = @ \ {i}])
           /\ trainer' = [trainer EXCEPT ![c] = [NoChild EXCEPT !.pc = "check", !.e = Order[i]]]
           /\ UNCHANGED lock
    BY <1>2 DEF StartJob
  <2> DEFINE m == [run[c].mem EXCEPT !.phase = "training", !.active = Order[i]]
             t == [NoChild EXCEPT !.pc = "check", !.e = Order[i]]
  <2>1. /\ run' = [run EXCEPT ![c] = [run[c] EXCEPT !.pc = "waiting", !.mem = m, !.todo = @ \ {i}]]
        /\ trainer' = [trainer EXCEPT ![c] = t]
        /\ UNCHANGED lock
    BY <2>0 DEF To
  <2>2. "pc" \in DOMAIN t
    BY DEF NoChild
  <2> HIDE DEF m, t
  <2> QED
    BY <1>1, <2>1, <2>2 DEF LockInv, Shape, Holder
<1>3. CASE ~FrozenHolds
  BY <1>1, <1>3 DEF StartJob, LockInv, Shape, Holder, Raise, To
<1> QED
  BY <1>2, <1>3

LEMMA JobEndsKeeps ==
  ASSUME LockInv, NEW c \in Launches, JobEnds(c)
  PROVE  LockInv'
<1>1. /\ run[c].pc = "waiting" /\ lock = TRUE
      /\ \A d \in Launches \ {c} : ~Holder(d)
  BY DEF JobEnds, LockInv, Holder
<1>2. trainer' = [trainer EXCEPT ![c] = NoChild]
  BY DEF JobEnds
<1>3. \/ /\ run'[c].pc = "jobs" /\ UNCHANGED lock
      \/ /\ run'[c].pc = "ended"
  BY DEF JobEnds, EndWith, To, LockInv, Shape
<1>4. /\ DOMAIN run' = DOMAIN run /\ "pc" \in DOMAIN run'[c]
      /\ \A d \in Launches \ {c} : run'[d] = run[d]
  BY DEF JobEnds, EndWith, To, LockInv, Shape
<1> QED
  BY <1>1, <1>2, <1>3, <1>4 DEF LockInv, Shape, Holder, NoChild

LEMMA LeaveLockKeeps ==
  ASSUME LockInv, NEW c \in Launches, LeaveLock(c)
  PROVE  LockInv'
<1>1. /\ run[c].pc = "jobs" /\ trainer[c].pc = "none"
      /\ \A d \in Launches \ {c} : ~Holder(d)
  BY DEF LeaveLock, LockInv, Holder
<1> QED
  BY <1>1 DEF LeaveLock, LockInv, Shape, Holder, To

\* A killed coordinator takes nothing with it: the lock and the child stay.
LEMMA CrashKeeps ==
  ASSUME LockInv, NEW c \in Launches, Crash(c)
  PROVE  LockInv'
  BY DEF Crash, Alive, Raise, To, LockInv, Shape, Holder

\* An interrupted one takes both.
LEMMA InterruptKeeps ==
  ASSUME LockInv, NEW c \in Launches, Interrupt(c)
  PROVE  LockInv'
<1>1. \A d \in Launches \ {c} : ~Holder(d)
  BY DEF Interrupt, LockInv, Holder
<1> QED
  BY <1>1 DEF Interrupt, Raise, To, LockInv, Shape, Holder, NoChild

\* A training child moves only while it exists, and nothing of its coordinator changes.
LEMMA ChildMoves ==
  ASSUME LockInv, NEW c \in Launches,
         \/ TrainCheck(c) \/ TrainLoad(c) \/ TrainStep(c)
         \/ SaveWeights(c) \/ SaveMetadata(c) \/ OrphanEnds(c)
  PROVE  /\ trainer[c].pc # "none" /\ run' = run /\ lock' = lock
         /\ DOMAIN trainer' = Launches /\ "pc" \in DOMAIN trainer'[c]
         /\ \A d \in Launches : d # c => trainer'[d] = trainer[d]
<1> USE DEF LockInv, Shape, Child, rest
<1>1. CASE TrainCheck(c)
  BY <1>1 DEF TrainCheck
<1>2. CASE TrainLoad(c)
  BY <1>2 DEF TrainLoad
<1>3. CASE TrainStep(c)
  BY <1>3 DEF TrainStep
<1>4. CASE SaveWeights(c)
  BY <1>4 DEF SaveWeights
<1>5. CASE SaveMetadata(c)
  BY <1>5 DEF SaveMetadata
<1>6. CASE OrphanEnds(c)
  BY <1>6 DEF OrphanEnds, NoChild
<1> QED
  BY <1>1, <1>2, <1>3, <1>4, <1>5, <1>6

LEMMA ChildKeeps ==
  ASSUME LockInv, NEW c \in Launches,
         trainer[c].pc # "none", run' = run, lock' = lock,
         DOMAIN trainer' = Launches, "pc" \in DOMAIN trainer'[c],
         \A d \in Launches : d # c => trainer'[d] = trainer[d]
  PROVE  LockInv'
<1>1. ASSUME NEW d \in Launches
      PROVE  /\ Holder(d)' => Holder(d)
             /\ trainer'[d].pc # "none" => trainer[d].pc # "none"
  <2>1. CASE d = c
    BY <2>1 DEF Holder
  <2>2. CASE d # c
    BY <2>2 DEF Holder
  <2> QED
    BY <2>1, <2>2
<1> QED
  BY <1>1 DEF LockInv, Shape

LEMMA AroundKeeps ==
  ASSUME LockInv,
         \/ \E e \in Experts : ReplaceFile(e)
         \/ PublishSnapshot \/ AutomationMoves \/ SmokeStart
         \/ \E passed \in BOOLEAN : SmokeEnd(passed)
         \/ UNCHANGED vars
  PROVE  LockInv'
<1>1. UNCHANGED <<run, trainer, lock>>
  BY DEF ReplaceFile, PublishSnapshot, AutomationMoves, SmokeStart, SmokeEnd, unmoved, vars
<1> QED
  BY <1>1 DEF LockInv, Shape, Holder

LEMMA LockInductive == LockInv /\ [Next]_vars => LockInv'
<1> SUFFICES ASSUME LockInv, [Next]_vars PROVE LockInv'
  OBVIOUS
<1>1. ASSUME NEW c \in Launches,
             \/ TakeLock(c) \/ StartJob(c) \/ JobEnds(c) \/ LeaveLock(c) \/ Crash(c) \/ Interrupt(c)
      PROVE  LockInv'
  BY <1>1, TakeLockKeeps, StartJobKeeps, JobEndsKeeps, LeaveLockKeeps, CrashKeeps, InterruptKeeps
<1>2. ASSUME NEW c \in Launches, Quiet(c) PROVE LockInv'
  BY <1>2, QuietKeeps
<1> QED
  BY CoordinatorQuiet, <1>1, <1>2, ChildMoves, ChildKeeps, AroundKeeps DEF Next

\* Whatever number of coordinators are launched, overlap, are killed with a child left behind
\* or are interrupted, at most one training job of theirs exists at any moment.
THEOREM OneTrainerAlways == Spec => []OneTrainer
<1>1. LockInv => OneTrainer
  BY DEF LockInv, OneTrainer, Holder
<1> QED
  BY InitLock, LockInductive, <1>1, PTL DEF Spec

------------------------------------------------------------------------------
(* No training before the collection ended the configured way *)

BeforeTraining == {"read", "hash", "freeze", "sidecar", "record", "ready"}
InTraining == {"lock", "jobs", "waiting", "finish"}

\* What EXCEPT needs to know of the records.
Fields ==
  /\ DOMAIN run = Launches /\ DOMAIN trainer = Launches
  /\ \A c \in Launches : {"pc", "live", "train", "mem", "observed"} \subseteq DOMAIN run[c]
  /\ "triggered" \in DOMAIN history

\* A launch that may train looks at the automation itself, and goes on only if what it saw
\* is the trigger; a state that is the trigger was noted when it came up.
LaunchGated(c) ==
  /\ run[c].train = TRUE => run[c].live = TRUE
  /\ run[c].pc = "classify" /\ run[c].live = TRUE =>
       (Classify(run[c].observed) = Trigger => history.triggered = TRUE)
  /\ run[c].pc \in BeforeTraining /\ run[c].train = TRUE => history.triggered = TRUE
  /\ run[c].pc \in InTraining => history.triggered = TRUE
  /\ trainer[c].pc # "none" => history.triggered = TRUE

TriggerInv ==
  /\ Fields
  /\ Classify(automation) = Trigger => history.triggered = TRUE
  /\ \A c \in Launches : LaunchGated(c)

LEMMA InitTrigger == Init => TriggerInv
<1> SUFFICES ASSUME Init PROVE TriggerInv
  OBVIOUS
<1>1. Classify(automation) # Trigger
  BY HandoffAssumption DEF Init, Classify
<1>2. Fields
  BY DEF Init, Fields, Unlaunched
<1>3. ASSUME NEW c \in Launches PROVE LaunchGated(c)
  BY DEF Init, LaunchGated, Unlaunched, NoChild, BeforeTraining, InTraining
<1> QED
  BY <1>1, <1>2, <1>3 DEF TriggerInv

\* What one step of a launch may do to the others.
Frame(c) ==
  /\ DOMAIN run' = Launches /\ DOMAIN trainer' = Launches
  /\ {"pc", "live", "train", "mem", "observed"} \subseteq DOMAIN run'[c]
  /\ \A d \in Launches : d # c => run'[d] = run[d] /\ trainer'[d] = trainer[d]
  /\ "triggered" \in DOMAIN history'
  /\ history.triggered = TRUE => history'.triggered = TRUE
  /\ Classify(automation)' = Trigger => history'.triggered = TRUE

LEMMA FrameKeeps ==
  ASSUME TriggerInv, NEW c \in Launches, Frame(c), LaunchGated(c)'
  PROVE  TriggerInv'
<1>1. ASSUME NEW d \in Launches, d # c PROVE LaunchGated(d)'
  BY <1>1 DEF TriggerInv, Frame, LaunchGated
<1>2. Fields'
  BY DEF TriggerInv, Fields, Frame
<1> QED
  BY <1>1, <1>2 DEF TriggerInv, Frame

\* Steps that leave the automation, the history and the training child alone.
LEMMA LocalStep ==
  ASSUME TriggerInv, NEW c \in Launches,
         DOMAIN run' = Launches, \A d \in Launches : d # c => run'[d] = run[d],
         UNCHANGED <<automation, history, trainer>>,
         {"pc", "live", "train", "mem", "observed"} \subseteq DOMAIN run'[c],
         LaunchGated(c)'
  PROVE  TriggerInv'
<1>1. Frame(c)
  BY DEF TriggerInv, Fields, Frame
<1> QED
  BY <1>1, FrameKeeps

\* A step back to the ramp, to the automation or to the end asks for nothing.
Away(c) ==
  /\ DOMAIN run' = Launches /\ \A d \in Launches : d # c => run'[d] = run[d]
  /\ UNCHANGED <<automation, history, trainer>>
  /\ {"pc", "live", "train", "mem", "observed"} \subseteq DOMAIN run'[c]
  /\ run'[c].live = run[c].live /\ run'[c].train = run[c].train
  /\ run'[c].pc \in {"ramp", "passed", "distill", "ended"}

LEMMA AwayKeeps ==
  ASSUME TriggerInv, NEW c \in Launches, Away(c)
  PROVE  TriggerInv'
<1>1. LaunchGated(c)'
  BY DEF TriggerInv, Away, LaunchGated, BeforeTraining, InTraining
<1> QED
  BY <1>1, LocalStep DEF Away

\* A record that stands in for the one of a launch.
LEMMA Replaced ==
  ASSUME Fields, NEW c \in Launches, NEW r, To(c, r), DOMAIN r = DOMAIN run[c],
         r.live = run[c].live, r.train = run[c].train,
         r.pc \in {"ramp", "passed", "distill", "ended"},
         UNCHANGED <<automation, history, trainer>>
  PROVE  Away(c)
  BY DEF Fields, To, Away

LEMMA Ended ==
  ASSUME Fields, NEW c \in Launches, NEW m, EndWith(c, m),
         UNCHANGED <<automation, history, trainer>>
  PROVE  Away(c)
<1> DEFINE r == [run[c] EXCEPT !.mem = m, !.pc = "ended"]
<1>1. /\ DOMAIN r = DOMAIN run[c] /\ r.pc = "ended"
      /\ r.live = run[c].live /\ r.train = run[c].train
  BY DEF Fields
<1>2. To(c, r)
  BY DEF EndWith
<1> HIDE DEF r
<1> QED
  BY <1>1, <1>2, Replaced

LEMMA RampKeeps ==
  ASSUME TriggerInv, NEW c \in Launches,
         StageRun(c) \/ \E exported \in BOOLEAN : StagePassed(c, exported)
  PROVE  TriggerInv'
<1>0. Fields
  BY DEF TriggerInv
<1>1. ASSUME StageRun(c) PROVE Away(c)
  <2>1. UNCHANGED <<automation, history, trainer>>
    BY <1>1 DEF StageRun
  <2>2. \/ To(c, [run[c] EXCEPT !.pc = "passed"])
        \/ EndWith(c, [run[c].mem EXCEPT !.phase = "execution_gate_blocked"])
        \/ To(c, [run[c] EXCEPT !.pc = "ended"])
    BY <1>1 DEF StageRun, Raise
  <2>3. ASSUME NEW p \in {"passed", "ended"}, To(c, [run[c] EXCEPT !.pc = p]) PROVE Away(c)
    <3> DEFINE r == [run[c] EXCEPT !.pc = p]
    <3>1. DOMAIN r = DOMAIN run[c] /\ r.pc = p /\ r.live = run[c].live /\ r.train = run[c].train
      BY <1>0 DEF Fields
    <3> HIDE DEF r
    <3> QED
      BY <1>0, <2>1, <2>3, <3>1, Replaced DEF r
  <2> QED
    BY <1>0, <2>1, <2>2, <2>3, Ended
<1>2. ASSUME NEW exported \in BOOLEAN, StagePassed(c, exported) PROVE Away(c)
  <2> DEFINE m == [run[c].mem EXCEPT !.done = Append(@, Head(Pending(c)))]
             r == [run[c] EXCEPT !.pc = "ramp", !.mem = m, !.gate = TRUE]
  <2>1. UNCHANGED <<automation, history, trainer>>
    BY <1>2 DEF StagePassed
  <2>2. To(c, r) \/ EndWith(c, [m EXCEPT !.phase = "execution_conversion_blocked"])
    BY <1>2 DEF StagePassed
  <2>3. DOMAIN r = DOMAIN run[c] /\ r.pc = "ramp" /\ r.live = run[c].live /\ r.train = run[c].train
    BY <1>0 DEF Fields
  <2> HIDE DEF m, r
  <2> QED
    BY <1>0, <2>1, <2>2, <2>3, Ended, Replaced
<1> QED
  BY <1>1, <1>2, AwayKeeps

LEMMA DecideKeeps ==
  ASSUME TriggerInv, NEW c \in Launches, Decide(c)
  PROVE  TriggerInv'
<1> DEFINE r(p) == [run[c] EXCEPT !.pc = p, !.observed = "provider_quota_exhausted"]
<1>0. Fields /\ UNCHANGED <<automation, history, trainer>>
  BY DEF TriggerInv, Decide, world
<1>1. \/ To(c, r("distill"))
      \/ ~run[c].live /\ To(c, r("classify"))
      \/ EndWith(c, [run[c].mem EXCEPT !.phase = "execution_gate_blocked"])
  BY DEF Decide
<1>2. \A p \in {"distill", "classify"} :
        DOMAIN r(p) = DOMAIN run[c] /\ r(p).pc = p /\ r(p).live = run[c].live /\ r(p).train = run[c].train
  BY <1>0 DEF Fields
<1> HIDE DEF r
<1>3. CASE To(c, r("distill"))
  BY <1>0, <1>2, <1>3, Replaced, AwayKeeps
<1>4. CASE ~run[c].live /\ To(c, r("classify"))
  <2>1. /\ DOMAIN run' = Launches /\ run'[c] = r("classify")
        /\ \A d \in Launches : d # c => run'[d] = run[d]
        /\ {"pc", "live", "train", "mem", "observed"} \subseteq DOMAIN run'[c]
    BY <1>0, <1>2, <1>4 DEF To, Fields
  <2>2. LaunchGated(c)'
    BY <1>0, <1>2, <1>4, <2>1 DEF TriggerInv, LaunchGated, BeforeTraining, InTraining
  <2> QED
    BY <1>0, <2>1, <2>2, LocalStep
<1> QED
  BY <1>0, <1>1, <1>3, <1>4, Ended, AwayKeeps

LEMMA LocalStepsKeep ==
  ASSUME TriggerInv, NEW c \in Launches,
         \/ ReadFile(c)
         \/ HashFile(c)
         \/ JudgeSnapshot(c)
         \/ RecoverHandoff(c)
         \/ WriteManifest(c)
         \/ WriteSidecar(c)
         \/ RecordHandoff(c)
         \/ TrainGate(c)
         \/ TakeLock(c)
         \/ LeaveLock(c)
         \/ Finish(c)
  PROVE  TriggerInv'
<1> USE DEF TriggerInv, Fields, LaunchGated, BeforeTraining, InTraining, To, EndWith, Raise,
            world, handoffFiles
<1> DEFINE Local == /\ DOMAIN run' = Launches /\ \A d \in Launches : d # c => run'[d] = run[d]
                    /\ UNCHANGED <<automation, history, trainer>>
                    /\ {"pc", "live", "train", "mem", "observed"} \subseteq DOMAIN run'[c]
                    /\ LaunchGated(c)'
<1>1. ASSUME ReadFile(c) PROVE Local
  BY <1>1 DEF ReadFile
<1>2. ASSUME HashFile(c) PROVE Local
  BY <1>2 DEF HashFile
<1>3. ASSUME JudgeSnapshot(c) PROVE Local
  BY <1>3 DEF JudgeSnapshot
<1>4. ASSUME RecoverHandoff(c) PROVE Local
  BY <1>4 DEF RecoverHandoff
<1>5. ASSUME WriteManifest(c) PROVE Local
  BY <1>5 DEF WriteManifest
<1>6. ASSUME WriteSidecar(c) PROVE Local
  BY <1>6 DEF WriteSidecar
<1>7. ASSUME RecordHandoff(c) PROVE Local
  BY <1>7 DEF RecordHandoff
<1>8. ASSUME TrainGate(c) PROVE Local
  BY <1>8 DEF TrainGate
<1>9. ASSUME TakeLock(c) PROVE Local
  BY <1>9 DEF TakeLock
<1>10. ASSUME LeaveLock(c) PROVE Local
  BY <1>10 DEF LeaveLock
<1>11. ASSUME Finish(c) PROVE Local
  BY <1>11 DEF Finish
<1> QED
  BY <1>1, <1>2, <1>3, <1>4, <1>5, <1>6, <1>7, <1>8, <1>9, <1>10, <1>11, LocalStep

\* Every launch starts at the ramp, or asks for no training and is not live.
LEMMA LaunchKeeps ==
  ASSUME TriggerInv, NEW c \in Launches, NEW live \in BOOLEAN, NEW train \in BOOLEAN,
         Launch(c, live, train)
  PROVE  TriggerInv'
<1>1. /\ run'[c].pc \in {"ramp", "decide"} /\ run'[c].live = live /\ run'[c].train = train
      /\ {"pc", "live", "train", "mem", "observed"} \subseteq DOMAIN run'[c]
      /\ DOMAIN run' = Launches /\ \A d \in Launches : d # c => run'[d] = run[d]
  BY DEF Launch, To, TriggerInv, Fields
<1>2. train = TRUE => live = TRUE
  BY DEF Launch
<1>3. /\ automation' = automation /\ trainer' = trainer
      /\ history'.triggered = history.triggered /\ "triggered" \in DOMAIN history'
  BY DEF Launch, TriggerInv, Fields
<1>4. LaunchGated(c)'
  BY <1>1, <1>2, <1>3 DEF TriggerInv, LaunchGated, BeforeTraining, InTraining
<1>5. Frame(c)
  BY <1>1, <1>3 DEF Frame, TriggerInv, Fields
<1> QED
  BY <1>4, <1>5, FrameKeeps

\* What Reached notes of a state of the automation.
LEMMA ReachedNotes ==
  ASSUME "triggered" \in DOMAIN history, NEW state, NEW h, h = Reached(state)
  PROVE  /\ "triggered" \in DOMAIN h
         /\ history.triggered = TRUE => h.triggered = TRUE
         /\ Classify(state) = Trigger => h.triggered = TRUE
  BY DEF Reached

\* The record of one launch moves on, what it was launched for stays.
Goes(c) ==
  /\ DOMAIN run' = Launches /\ \A d \in Launches : d # c => run'[d] = run[d]
  /\ {"pc", "live", "train", "mem", "observed"} \subseteq DOMAIN run'[c]
  /\ run'[c].live = run[c].live /\ run'[c].train = run[c].train

LEMMA LeaveGoes ==
  ASSUME Fields, NEW c \in Launches, NEW m, EndWith(c, m) \/ Raise(c)
  PROVE  Goes(c) /\ run'[c].pc = "ended"
<1>1. CASE EndWith(c, m)
  <2> DEFINE r == [run[c] EXCEPT !.mem = m, !.pc = "ended"]
  <2>1. /\ DOMAIN r = DOMAIN run[c] /\ r.pc = "ended"
        /\ r.live = run[c].live /\ r.train = run[c].train
    BY DEF Fields
  <2>2. To(c, r)
    BY <1>1 DEF EndWith
  <2> HIDE DEF r
  <2> QED
    BY <2>1, <2>2 DEF Goes, To, Fields
<1>2. CASE Raise(c)
  BY <1>2 DEF Raise, Goes, To, Fields
<1> QED
  BY <1>1, <1>2

LEMMA DistillKeeps ==
  ASSUME TriggerInv, NEW c \in Launches, Distill(c)
  PROVE  TriggerInv'
<1> DEFINE r == [run[c] EXCEPT !.pc = "classify", !.observed = automation']
<1>0. Fields /\ trainer' = trainer
  BY DEF TriggerInv, Distill
<1>1. \/ automation' = automation /\ history' = history
      \/ history' = Reached(automation')
  BY DEF Distill
<1>2. /\ "triggered" \in DOMAIN history'
      /\ history.triggered = TRUE => history'.triggered = TRUE
      /\ Classify(automation)' = Trigger => history'.triggered = TRUE
  BY <1>0, <1>1, ReachedNotes DEF TriggerInv, Fields
<1>3. \/ To(c, r)
      \/ EndWith(c, [run[c].mem EXCEPT !.phase = "distillation_failed"])
      \/ Raise(c)
  BY DEF Distill
<1>4. /\ DOMAIN r = DOMAIN run[c] /\ r.pc = "classify" /\ r.observed = automation'
      /\ r.live = run[c].live /\ r.train = run[c].train
  BY <1>0 DEF Fields
<1> HIDE DEF r
<1>5. /\ Goes(c)
      /\ run'[c].pc # "ended" => run'[c].pc = "classify" /\ run'[c].observed = automation'
  <2>1. CASE To(c, r)
    BY <1>0, <1>4, <2>1 DEF Goes, To, Fields
  <2> QED
    BY <1>0, <1>3, <2>1, LeaveGoes
<1>6. LaunchGated(c)'
  BY <1>0, <1>2, <1>5 DEF TriggerInv, Goes, LaunchGated, BeforeTraining, InTraining
<1>7. Frame(c)
  BY <1>0, <1>2, <1>5 DEF Frame, Goes, Fields
<1> QED
  BY <1>6, <1>7, FrameKeeps

LEMMA ClassifyKeeps ==
  ASSUME TriggerInv, NEW c \in Launches, ClassifyTerminal(c)
  PROVE  TriggerInv'
<1> DEFINE cls == Classify(run[c].observed)
           m == [run[c].mem EXCEPT !.cls = cls]
           r == [run[c] EXCEPT !.mem = m, !.pc = "read"]
<1>0. Fields /\ UNCHANGED <<automation, history, trainer>> /\ run[c].pc = "classify"
  BY DEF TriggerInv, ClassifyTerminal, world
<1>1. \/ cls = Trigger /\ To(c, r)
      \/ EndWith(c, [m EXCEPT !.phase = "distillation_stopped_no_handoff"])
  BY DEF ClassifyTerminal
<1>2. DOMAIN r = DOMAIN run[c] /\ r.pc = "read" /\ r.live = run[c].live /\ r.train = run[c].train
  BY <1>0 DEF Fields
<1> HIDE DEF m, r
<1>3. CASE cls = Trigger /\ To(c, r)
  <2>1. /\ DOMAIN run' = Launches /\ run'[c] = r
        /\ \A d \in Launches : d # c => run'[d] = run[d]
        /\ {"pc", "live", "train", "mem", "observed"} \subseteq DOMAIN run'[c]
    BY <1>0, <1>2, <1>3 DEF To, Fields
  <2>2. LaunchGated(c)'
    BY <1>0, <1>2, <1>3, <2>1 DEF TriggerInv, LaunchGated, BeforeTraining, InTraining
  <2> QED
    BY <1>0, <2>1, <2>2, LocalStep
<1> QED
  BY <1>0, <1>1, <1>3, Ended, AwayKeeps

\* A training child is started, and goes on, only inside the training section.
LEMMA TrainingKeeps ==
  ASSUME TriggerInv, NEW c \in Launches,
         StartJob(c) \/ JobEnds(c) \/ Interrupt(c)
  PROVE  TriggerInv'
<1>1. /\ run[c].pc \in {"jobs", "waiting"} /\ history.triggered = TRUE
  BY DEF StartJob, JobEnds, Interrupt, TriggerInv, LaunchGated, InTraining
<1>0. Fields
  BY DEF TriggerInv
<1>2. Goes(c) /\ run'[c].pc \in {"jobs", "waiting", "ended"}
  <2>1. ASSUME StartJob(c) PROVE Goes(c) /\ run'[c].pc \in {"waiting", "ended"}
    <3> DEFINE m(i) == [run[c].mem EXCEPT !.phase = "training", !.active = Order[i]]
               r(i) == [run[c] EXCEPT !.pc = "waiting", !.mem = m(i), !.todo = @ \ {i}]
    <3>1. (\E i \in run[c].todo : To(c, r(i))) \/ Raise(c)
      BY <2>1 DEF StartJob
    <3>2. \A i : /\ DOMAIN r(i) = DOMAIN run[c] /\ r(i).pc = "waiting"
                /\ r(i).live = run[c].live /\ r(i).train = run[c].train
      BY <1>0 DEF Fields
    <3> HIDE DEF m, r
    <3>3. ASSUME NEW i, To(c, r(i)) PROVE Goes(c) /\ run'[c].pc = "waiting"
      BY <1>0, <3>2, <3>3 DEF Goes, To, Fields
    <3> QED
      BY <1>0, <3>1, <3>3, LeaveGoes
  <2>2. ASSUME JobEnds(c) PROVE Goes(c) /\ run'[c].pc \in {"jobs", "ended"}
    <3>1. PICK m : \/ To(c, [run[c] EXCEPT !.pc = "jobs", !.mem = m])
                   \/ EndWith(c, m)
      BY <2>2 DEF JobEnds
    <3> DEFINE r == [run[c] EXCEPT !.pc = "jobs", !.mem = m]
    <3>2. DOMAIN r = DOMAIN run[c] /\ r.pc = "jobs" /\ r.live = run[c].live /\ r.train = run[c].train
      BY <1>0 DEF Fields
    <3>3. To(c, r) \/ EndWith(c, m)
      BY <3>1
    <3> HIDE DEF r
    <3>4. CASE To(c, r)
      BY <1>0, <3>2, <3>4 DEF Goes, To, Fields
    <3> QED
      BY <1>0, <3>3, <3>4, LeaveGoes
  <2> QED
    BY <1>0, <2>1, <2>2, LeaveGoes DEF Interrupt
<1>6. /\ DOMAIN trainer' = Launches
      /\ \A d \in Launches : d # c => trainer'[d] = trainer[d]
  BY <1>0 DEF StartJob, JobEnds, Interrupt, Fields
<1>3. /\ automation' = automation
      /\ "triggered" \in DOMAIN history' /\ history'.triggered = history.triggered
  BY DEF StartJob, JobEnds, Interrupt, TriggerInv, Fields, world
<1>4. LaunchGated(c)'
  BY <1>1, <1>2, <1>3 DEF TriggerInv, Goes, LaunchGated, BeforeTraining, InTraining
<1>5. Frame(c)
  BY <1>1, <1>2, <1>3, <1>6 DEF Frame, Goes
<1> QED
  BY <1>4, <1>5, FrameKeeps

LEMMA CrashKeepsTrigger ==
  ASSUME TriggerInv, NEW c \in Launches, Crash(c)
  PROVE  TriggerInv'
<1>1. /\ DOMAIN run' = Launches /\ trainer' = trainer
      /\ \A d \in Launches : d # c => run'[d] = run[d]
      /\ {"pc", "live", "train", "mem", "observed"} \subseteq DOMAIN run'[c]
      /\ run'[c].live = run[c].live /\ run'[c].train = run[c].train
      /\ run'[c].pc = "ended"
  BY DEF Crash, To, Raise, TriggerInv, Fields
<1>2. /\ automation' = automation
      /\ "triggered" \in DOMAIN history' /\ history'.triggered = history.triggered
  BY DEF Crash, TriggerInv, Fields
<1>3. LaunchGated(c)'
  BY <1>1, <1>2 DEF TriggerInv, LaunchGated, BeforeTraining, InTraining
<1>4. Frame(c)
  BY <1>1, <1>2 DEF Frame, TriggerInv, Fields
<1> QED
  BY <1>3, <1>4, FrameKeeps

LEMMA ChildKeepsTrigger ==
  ASSUME TriggerInv, LockInv, NEW c \in Launches,
         \/ TrainCheck(c) \/ TrainLoad(c) \/ TrainStep(c)
         \/ SaveWeights(c) \/ SaveMetadata(c) \/ OrphanEnds(c)
  PROVE  TriggerInv'
<1>1. /\ trainer[c].pc # "none" /\ run' = run
      /\ DOMAIN trainer' = Launches
      /\ \A d \in Launches : d # c => trainer'[d] = trainer[d]
  BY ChildMoves
<1>2. automation' = automation /\ history' = history
  BY DEF TrainCheck, TrainLoad, TrainStep, SaveWeights, SaveMetadata, OrphanEnds, rest
<1>3. LaunchGated(c)'
  BY <1>1, <1>2 DEF TriggerInv, LaunchGated
<1>4. Frame(c)
  BY <1>1, <1>2 DEF Frame, TriggerInv, Fields
<1> QED
  BY <1>3, <1>4, FrameKeeps

LEMMA AroundKeepsTrigger ==
  ASSUME TriggerInv,
         \/ \E e \in Experts : ReplaceFile(e)
         \/ PublishSnapshot \/ AutomationMoves \/ SmokeStart
         \/ \E passed \in BOOLEAN : SmokeEnd(passed)
         \/ UNCHANGED vars
  PROVE  TriggerInv'
<1>0. Fields
  BY DEF TriggerInv
<1>1. run' = run /\ trainer' = trainer
  BY DEF ReplaceFile, PublishSnapshot, AutomationMoves, SmokeStart, SmokeEnd, unmoved, vars
<1>2. /\ "triggered" \in DOMAIN history'
      /\ history.triggered = TRUE => history'.triggered = TRUE
      /\ Classify(automation)' = Trigger => history'.triggered = TRUE
  <2>1. CASE AutomationMoves
    <3>1. history' = [Reached(automation') EXCEPT !.changes = @ + 1]
      BY <2>1 DEF AutomationMoves
    <3> DEFINE h == Reached(automation')
    <3>2. /\ "triggered" \in DOMAIN h
          /\ history.triggered = TRUE => h.triggered = TRUE
          /\ Classify(automation') = Trigger => h.triggered = TRUE
      BY <1>0, ReachedNotes DEF Fields
    <3> HIDE DEF h
    <3> QED
      BY <3>1, <3>2 DEF h
  <2>2. CASE ~AutomationMoves
    <3>1. automation' = automation
      BY <2>2 DEF ReplaceFile, PublishSnapshot, SmokeStart, SmokeEnd, vars
    <3>2. "triggered" \in DOMAIN history' /\ history'.triggered = history.triggered
      BY <1>0, <2>2 DEF ReplaceFile, PublishSnapshot, SmokeStart, SmokeEnd, Moved, vars, Fields
    <3> QED
      BY <3>1, <3>2 DEF TriggerInv
  <2> QED
    BY <2>1, <2>2
<1>3. ASSUME NEW c \in Launches PROVE LaunchGated(c)'
  BY <1>1, <1>2 DEF TriggerInv, LaunchGated
<1> QED
  BY <1>0, <1>1, <1>2, <1>3 DEF TriggerInv, Fields

LEMMA TriggerInductive == LockInv /\ TriggerInv /\ [Next]_vars => TriggerInv'
<1> SUFFICES ASSUME LockInv, TriggerInv, [Next]_vars PROVE TriggerInv'
  OBVIOUS
<1>1. ASSUME NEW c \in Launches,
             \/ \E live, train \in BOOLEAN : Launch(c, live, train)
             \/ Decide(c) \/ Distill(c) \/ ClassifyTerminal(c) \/ Crash(c)
             \/ StartJob(c) \/ JobEnds(c) \/ Interrupt(c)
      PROVE  TriggerInv'
  BY <1>1, LaunchKeeps, DecideKeeps, DistillKeeps, ClassifyKeeps, CrashKeepsTrigger, TrainingKeeps
<1> QED
  BY <1>1, RampKeeps, LocalStepsKeep, ChildKeepsTrigger, AroundKeepsTrigger DEF Next

\* A training job exists only after the automation's own status showed the end the
\* configuration waits for, although a dry run leaves its mock end in the status file.
THEOREM RealTriggerAlways == Spec => []RealTrigger
<1>1. TriggerInv => RealTrigger
  BY DEF TriggerInv, LaunchGated, RealTrigger
<1>2. LockInv /\ TriggerInv /\ [Next]_vars => LockInv' /\ TriggerInv'
  BY LockInductive, TriggerInductive
<1> QED
  BY InitLock, InitTrigger, <1>1, <1>2, PTL DEF Spec

------------------------------------------------------------------------------
(* What is trained on is what was frozen *)

StatusFields == {"phase", "done", "cls", "handoff", "active", "jobs"}
JobRecords == [e : Experts, ok : BOOLEAN]
RunFields == {"pc", "live", "train", "mem", "gate", "observed", "seen", "todo"}
ChildFields == {"pc", "e", "index", "read", "steps", "bound", "smoke"}

\* What is in the records.
Records ==
  /\ DOMAIN run = Launches /\ DOMAIN trainer = Launches
  /\ DOMAIN adapters = Experts /\ DOMAIN data = Experts
  /\ \A e \in Experts : DOMAIN adapters[e] = {"weights", "bound", "smoke"}
  /\ {"shared", "moved", "changes", "crashes", "smokes", "triggered"} = DOMAIN history
  /\ history.shared \in BOOLEAN
  /\ DOMAIN status = StatusFields /\ status.handoff \in BOOLEAN /\ status.jobs \in Seq(JobRecords)
  /\ \A c \in Launches :
       /\ DOMAIN run[c] = RunFields /\ DOMAIN run[c].mem = StatusFields
       /\ run[c].mem.handoff \in BOOLEAN /\ run[c].mem.jobs \in Seq(JobRecords)
       /\ run[c].todo \subseteq DOMAIN Order
       /\ DOMAIN trainer[c] = ChildFields /\ trainer[c].steps \in Nat
       /\ trainer[c].pc # "none" => trainer[c].e \in Experts

\* While launches do not overlap, the one that is alive has the status that is saved. A handoff
\* that is being written is not recorded yet, and one that is trained on is.
InStep(c) ==
  Alive(c) =>
    /\ \A d \in Launches : Alive(d) => d = c
    /\ run[c].mem.handoff = status.handoff /\ run[c].mem.jobs = status.jobs
    /\ run[c].pc \in {"sidecar", "record"} => ~status.handoff
    /\ run[c].pc \in {"ready", "lock", "jobs", "waiting", "finish"} => status.handoff

Owned ==
  /\ status.jobs # <<>> => status.handoff
  /\ \A c \in Launches : trainer[c].pc # "none" => status.handoff

\* The gates bind an adapter to the frozen files.
BoundTo(bound, seen) == seen = bound /\ \A f \in Experts : bound[1][f][2] = manifest.data[f]

\* As long as no file moved under it, a job works on what was frozen, step by step.
OnFrozen(c) ==
  LET t == trainer[c]
  IN  t.pc # "none" /\ t.e \notin history.moved =>
        /\ \A f \in Experts : data[f] = manifest.data[f]
        /\ t.pc \in {"check", "load"} => t.read = {} /\ t.steps = 0
        /\ t.pc \in {"load", "steps", "saved", "done"} => BoundTo(t.bound, t.smoke)
        /\ t.pc = "steps" => t.read = IF t.steps = 0 THEN {} ELSE {manifest.data[t.e]}
        /\ t.pc \in {"saved", "done"} => adapters[t.e].weights = {manifest.data[t.e]}
        /\ t.pc = "done" => BoundTo(adapters[t.e].bound, adapters[t.e].smoke)

FrozenInv ==
  /\ Records
  /\ ~history.shared =>
       /\ \A c \in Launches : InStep(c) /\ OnFrozen(c)
       /\ Owned
  /\ TrainedOnFrozenData

LEMMA InitFrozen == Init => FrozenInv
<1> SUFFICES ASSUME Init PROVE FrozenInv
  OBVIOUS
<1>1. /\ status = Fresh /\ run = [c \in Launches |-> Unlaunched]
      /\ trainer = [c \in Launches |-> NoChild] /\ adapters = [e \in Experts |-> NoAdapter]
      /\ data \in Datasets
      /\ history = [changes |-> 0, smokes |-> 0, crashes |-> 0, triggered |-> FALSE, shared |-> FALSE,
                    moved |-> {}]
  BY DEF Init
<1>2. Records
  <2>1. DOMAIN data = Experts
    BY <1>1 DEF Datasets
  <2>2. <<>> \in Seq(JobRecords)
    OBVIOUS
  <2> QED
    BY <1>1, <2>1, <2>2 DEF Records, Fresh, Unlaunched, NoChild, NoAdapter, StatusFields, RunFields,
       ChildFields
<1>3. \A c \in Launches : InStep(c) /\ OnFrozen(c)
  BY <1>1 DEF InStep, OnFrozen, Alive, Unlaunched, NoChild
<1>4. Owned
  BY <1>1 DEF Owned, Fresh, NoChild
<1>5. CompleteJobs(status) = {}
  BY <1>1 DEF CompleteJobs, Fresh
<1> QED
  BY <1>2, <1>3, <1>4, <1>5 DEF FrozenInv, TrainedOnFrozenData

\* A step of a coordinator that leaves its child and the files it trains on alone: it keeps to the
\* saved status, forgets nothing of it, and rewrites no handoff that is recorded.
Coordinated(c) ==
  /\ Alive(c)
  /\ DOMAIN run' = Launches /\ \A d \in Launches : d # c => run'[d] = run[d]
  /\ DOMAIN run'[c] = RunFields /\ DOMAIN run'[c].mem = StatusFields
  /\ run'[c].mem.handoff \in BOOLEAN /\ run'[c].mem.jobs \in Seq(JobRecords)
  /\ run'[c].todo \subseteq DOMAIN Order
  /\ DOMAIN status' = StatusFields /\ status'.handoff \in BOOLEAN /\ status'.jobs \in Seq(JobRecords)
  /\ UNCHANGED <<trainer, adapters, data>>
  /\ DOMAIN history' = DOMAIN history /\ history'.shared = history.shared /\ history'.moved = history.moved
  /\ run'[c].pc # "new"
  /\ ~history.shared =>
       /\ run'[c].pc # "ended" =>
            /\ run'[c].mem.handoff = status'.handoff /\ run'[c].mem.jobs = status'.jobs
            /\ run'[c].pc \in {"sidecar", "record"} => ~status'.handoff
            /\ run'[c].pc \in {"ready", "lock", "jobs", "waiting", "finish"} => status'.handoff
       /\ status'.jobs = status.jobs
       /\ status.handoff => status'.handoff /\ manifest' = manifest

\* A child that does not move stays on frozen data while nothing under it does.
LEMMA OnFrozenKept ==
  ASSUME NEW d \in Launches, OnFrozen(d), trainer'[d] = trainer[d],
         trainer[d].pc # "none" => UNCHANGED <<data, manifest, adapters>>,
         history.moved \subseteq history'.moved
  PROVE  OnFrozen(d)'
<1> SUFFICES ASSUME trainer[d].pc # "none", trainer[d].e \notin history'.moved PROVE OnFrozen(d)'
  BY DEF OnFrozen
<1>1. PICK t : t = trainer[d]
  OBVIOUS
<1>2. UNCHANGED <<data, manifest, adapters>> /\ trainer'[d] = t /\ t.pc # "none" /\ t.e \notin history.moved
  BY <1>1
<1>3. /\ \A f \in Experts : data[f] = manifest.data[f]
      /\ t.pc \in {"check", "load"} => t.read = {} /\ t.steps = 0
      /\ t.pc \in {"load", "steps", "saved", "done"} => BoundTo(t.bound, t.smoke)
      /\ t.pc = "steps" => t.read = IF t.steps = 0 THEN {} ELSE {manifest.data[t.e]}
      /\ t.pc \in {"saved", "done"} => adapters[t.e].weights = {manifest.data[t.e]}
      /\ t.pc = "done" => BoundTo(adapters[t.e].bound, adapters[t.e].smoke)
  BY <1>1, <1>2 DEF OnFrozen
<1> QED
  BY <1>2, <1>3 DEF OnFrozen, BoundTo

LEMMA CoordinatedKeeps ==
  ASSUME FrozenInv, NEW c \in Launches, Coordinated(c)
  PROVE  FrozenInv'
<1>1. Records'
  BY DEF FrozenInv, Records, Coordinated
<1>2. ASSUME ~history.shared
      PROVE  /\ \A d \in Launches : InStep(d)' /\ OnFrozen(d)'
             /\ Owned' /\ TrainedOnFrozenData'
  <2>1. /\ \A d \in Launches : InStep(d) /\ OnFrozen(d)
        /\ Owned /\ TrainedOnFrozenData /\ Alive(c)
    BY <1>2 DEF FrozenInv, Coordinated
  <2>2. \A d \in Launches : Alive(d)' => d = c
    BY <2>1 DEF InStep, Alive, Coordinated
  <2>3. \A d \in Launches : InStep(d)'
    BY <1>2, <2>2 DEF InStep, Alive, Coordinated
  <2>4. Owned'
    BY <1>2, <2>1 DEF Owned, Coordinated
  <2>5. ASSUME NEW d \in Launches PROVE OnFrozen(d)'
    <3>1. trainer[d].pc # "none" => manifest' = manifest
      BY <1>2, <2>1 DEF Owned, Coordinated
    <3> QED
      BY <2>1, <3>1, OnFrozenKept DEF Coordinated
  <2>6. CompleteJobs(status') = CompleteJobs(status)
    BY <1>2 DEF CompleteJobs, Coordinated
  <2>7. CompleteJobs(status) # {} => manifest' = manifest
    <3>1. status.jobs = <<>> => CompleteJobs(status) = {}
      BY DEF CompleteJobs
    <3> QED
      BY <1>2, <2>1, <3>1 DEF Owned, Coordinated
  <2>8. TrainedOnFrozenData'
    <3>1. CompleteJobs(status)' = CompleteJobs(status)
      BY <2>6 DEF CompleteJobs
    <3> HIDE DEF CompleteJobs
    <3> QED
      BY <1>2, <2>1, <2>7, <3>1 DEF TrainedOnFrozenData, Coordinated
  <2> QED
    BY <2>3, <2>4, <2>5, <2>8
<1>3. history'.shared = history.shared
  BY DEF Coordinated
<1> QED
  BY <1>1, <1>2, <1>3 DEF FrozenInv, TrainedOnFrozenData

\* The record of a launch after a step: the fields that are not named stay.
LEMMA NextRecord ==
  ASSUME FrozenInv, NEW c \in Launches, NEW r, To(c, r), DOMAIN r = RunFields
  PROVE  DOMAIN run' = Launches /\ run'[c] = r /\ \A d \in Launches : d # c => run'[d] = run[d]
  BY DEF FrozenInv, Records, To

\* What every copy of the status that a launch makes keeps.
Copy(c, m) ==
  /\ DOMAIN m = StatusFields
  /\ m.handoff = run[c].mem.handoff /\ m.jobs = run[c].mem.jobs

LEMMA CopyFacts ==
  ASSUME FrozenInv, NEW c \in Launches
  PROVE  /\ run[c].mem.handoff \in BOOLEAN /\ run[c].mem.jobs \in Seq(JobRecords)
         /\ DOMAIN run[c].mem = StatusFields /\ DOMAIN run[c] = RunFields
         /\ run[c].todo \subseteq DOMAIN Order
         /\ DOMAIN status = StatusFields /\ status.handoff \in BOOLEAN /\ status.jobs \in Seq(JobRecords)
         /\ Alive(c) /\ ~history.shared => InStep(c)
  BY DEF FrozenInv, Records

\* Most steps save the copy or nothing, and do not come near the training section.
LEMMA PlainStep ==
  ASSUME FrozenInv, NEW c \in Launches, Alive(c), NEW r, To(c, r),
         DOMAIN r = RunFields, Copy(c, r.mem), r.todo \subseteq DOMAIN Order, r.pc # "new",
         r.pc \notin {"sidecar", "record"},
         r.pc \in {"ready", "lock", "jobs", "waiting", "finish"} =>
           run[c].pc \in {"ready", "lock", "jobs", "waiting", "finish"} \/ run[c].mem.handoff,
         status' = status \/ status' = r.mem,
         UNCHANGED <<trainer, adapters, data, manifest>>,
         DOMAIN history' = DOMAIN history, history'.shared = history.shared,
         history'.moved = history.moved
  PROVE  FrozenInv'
<1>1. DOMAIN run' = Launches /\ run'[c] = r /\ \A d \in Launches : d # c => run'[d] = run[d]
  BY NextRecord
<1>2. Coordinated(c)
  BY <1>1, CopyFacts DEF Copy, Coordinated, InStep
<1> QED
  BY <1>2, CoordinatedKeeps

\* Writing the copy back and leaving.
LEMMA EndStep ==
  ASSUME FrozenInv, NEW c \in Launches, Alive(c), NEW m, EndWith(c, m), Copy(c, m),
         UNCHANGED <<trainer, adapters, data, manifest, history>>
  PROVE  FrozenInv'
<1>1. PICK r : r = [run[c] EXCEPT !.mem = m, !.pc = "ended"]
  OBVIOUS
<1>2. DOMAIN r = RunFields /\ r.mem = m /\ r.pc = "ended" /\ r.todo = run[c].todo
  BY <1>1, CopyFacts DEF RunFields
<1>3. To(c, r) /\ status' = r.mem
  BY <1>1, <1>2 DEF EndWith, Save
<1> QED
  BY <1>2, <1>3, CopyFacts, PlainStep

LEMMA RaiseStep ==
  ASSUME FrozenInv, NEW c \in Launches, Alive(c), Raise(c),
         UNCHANGED <<trainer, adapters, data, manifest>>,
         DOMAIN history' = DOMAIN history, history'.shared = history.shared,
         history'.moved = history.moved
  PROVE  FrozenInv'
<1>1. PICK r : r = [run[c] EXCEPT !.pc = "ended"]
  OBVIOUS
<1>2. DOMAIN r = RunFields /\ r.mem = run[c].mem /\ r.pc = "ended" /\ r.todo = run[c].todo
  BY <1>1, CopyFacts DEF RunFields
<1>3. To(c, r) /\ status' = status
  BY <1>1 DEF Raise
<1> QED
  BY <1>2, <1>3, CopyFacts, PlainStep DEF Copy

LEMMA Copies ==
  ASSUME FrozenInv, NEW c \in Launches
  PROVE  /\ Copy(c, run[c].mem)
         /\ \A x : Copy(c, [run[c].mem EXCEPT !.phase = x])
         /\ \A x : Copy(c, [run[c].mem EXCEPT !.done = x])
         /\ \A x : Copy(c, [run[c].mem EXCEPT !.cls = x])
         /\ \A x, y : Copy(c, [run[c].mem EXCEPT !.done = x, !.phase = y])
         /\ \A x, y : Copy(c, [run[c].mem EXCEPT !.cls = x, !.phase = y])
  BY CopyFacts DEF Copy, StatusFields

LEMMA RampKeepsFrozen ==
  ASSUME FrozenInv, NEW c \in Launches,
         StageRun(c) \/ \E exported \in BOOLEAN : StagePassed(c, exported)
  PROVE  FrozenInv'
<1>1. Alive(c) /\ UNCHANGED <<trainer, adapters, data, manifest, history>>
  BY DEF StageRun, StagePassed, Alive, handoffFiles
<1>2. CASE StageRun(c)
  <2>1. CASE Save(run[c].mem) /\ To(c, [run[c] EXCEPT !.pc = "passed"])
    <3>1. PICK r : r = [run[c] EXCEPT !.pc = "passed"]
      OBVIOUS
    <3>2. DOMAIN r = RunFields /\ r.mem = run[c].mem /\ r.pc = "passed" /\ r.todo = run[c].todo
      BY <3>1, CopyFacts DEF RunFields
    <3> QED
      BY <1>1, <2>1, <3>1, <3>2, CopyFacts, Copies, PlainStep DEF Save
  <2>2. CASE EndWith(c, [run[c].mem EXCEPT !.phase = "execution_gate_blocked"])
    BY <1>1, <2>2, Copies, EndStep
  <2>3. CASE Raise(c)
    BY <1>1, <2>3, RaiseStep
  <2> QED
    BY <1>2, <2>1, <2>2, <2>3 DEF StageRun
<1>3. ASSUME NEW exported \in BOOLEAN, StagePassed(c, exported) PROVE FrozenInv'
  <2>1. PICK k : k = Append(run[c].mem.done, Head(Pending(c)))
    OBVIOUS
  <2>2. PICK m : m = [run[c].mem EXCEPT !.done = k]
    OBVIOUS
  <2>3. Copy(c, m) /\ Copy(c, [m EXCEPT !.phase = "execution_conversion_blocked"])
    <3>1. [m EXCEPT !.phase = "execution_conversion_blocked"] =
            [run[c].mem EXCEPT !.done = k, !.phase = "execution_conversion_blocked"]
      BY <2>2
    <3> QED
      BY <2>2, <3>1, Copies
  <2>4. m = [run[c].mem EXCEPT !.done = Append(@, Head(Pending(c)))]
    BY <2>1, <2>2, CopyFacts DEF StatusFields
  <2>5. \/ /\ To(c, [run[c] EXCEPT !.pc = "ramp", !.mem = m, !.gate = TRUE])
           /\ status' = m \/ status' = status
        \/ EndWith(c, [m EXCEPT !.phase = "execution_conversion_blocked"])
    BY <1>3, <2>4 DEF StagePassed
  <2>6. CASE /\ To(c, [run[c] EXCEPT !.pc = "ramp", !.mem = m, !.gate = TRUE])
             /\ status' = m \/ status' = status
    <3>1. PICK r : r = [run[c] EXCEPT !.pc = "ramp", !.mem = m, !.gate = TRUE]
      OBVIOUS
    <3>2. DOMAIN r = RunFields /\ r.mem = m /\ r.pc = "ramp" /\ r.todo = run[c].todo
      BY <3>1, CopyFacts DEF RunFields
    <3> QED
      BY <1>1, <2>3, <2>6, <3>1, <3>2, CopyFacts, PlainStep
  <2>7. CASE EndWith(c, [m EXCEPT !.phase = "execution_conversion_blocked"])
    BY <1>1, <2>3, <2>7, EndStep
  <2> QED
    BY <2>5, <2>6, <2>7
<1> QED
  BY <1>2, <1>3

LEMMA WaitKeepsFrozen ==
  ASSUME FrozenInv, NEW c \in Launches, Decide(c) \/ Distill(c) \/ ClassifyTerminal(c)
  PROVE  FrozenInv'
<1>1. /\ Alive(c) /\ UNCHANGED <<trainer, adapters, data, manifest>>
      /\ DOMAIN history' = DOMAIN history /\ history'.shared = history.shared
      /\ history'.moved = history.moved
  BY DEF Decide, Distill, ClassifyTerminal, Alive, handoffFiles, world, Reached, FrozenInv, Records
<1>2. ASSUME NEW p \in {"distill", "classify"}, NEW o,
             To(c, [run[c] EXCEPT !.pc = p, !.observed = o]),
             status' = status \/ status' = run[c].mem
      PROVE  FrozenInv'
  <2>1. PICK r : r = [run[c] EXCEPT !.pc = p, !.observed = o]
    OBVIOUS
  <2>2. DOMAIN r = RunFields /\ r.mem = run[c].mem /\ r.pc = p /\ r.todo = run[c].todo
    BY <2>1, CopyFacts DEF RunFields
  <2> QED
    BY <1>1, <1>2, <2>1, <2>2, CopyFacts, Copies, PlainStep
<1>3. CASE Decide(c)
  <2>1. \/ \E p \in {"distill", "classify"} :
             To(c, [run[c] EXCEPT !.pc = p, !.observed = "provider_quota_exhausted"]) /\ status' = status
        \/ EndWith(c, [run[c].mem EXCEPT !.phase = "execution_gate_blocked"])
    BY <1>3 DEF Decide
  <2>2. UNCHANGED history
    BY <1>3 DEF Decide, world
  <2> QED
    BY <1>1, <1>2, <2>1, <2>2, Copies, EndStep
<1>4. CASE Distill(c)
  <2>1. \/ \E o : To(c, [run[c] EXCEPT !.pc = "classify", !.observed = o])
                  /\ (status' = status \/ status' = run[c].mem)
        \/ EndWith(c, [run[c].mem EXCEPT !.phase = "distillation_failed"])
        \/ Raise(c)
    BY <1>4 DEF Distill, Save
  <2>2. CASE EndWith(c, [run[c].mem EXCEPT !.phase = "distillation_failed"])
    <3>1. PICK m : m = [run[c].mem EXCEPT !.phase = "distillation_failed"]
      OBVIOUS
    <3>2. PICK r : r = [run[c] EXCEPT !.mem = m, !.pc = "ended"]
      OBVIOUS
    <3>3. DOMAIN r = RunFields /\ r.mem = m /\ r.pc = "ended" /\ r.todo = run[c].todo
      BY <3>2, CopyFacts DEF RunFields
    <3>4. To(c, r) /\ status' = r.mem /\ Copy(c, m)
      BY <2>2, <3>1, <3>2, <3>3, Copies DEF EndWith, Save
    <3> QED
      BY <1>1, <3>3, <3>4, CopyFacts, PlainStep
  <2> QED
    BY <1>1, <1>2, <2>1, <2>2, RaiseStep
<1>5. CASE ClassifyTerminal(c)
  <2>1. PICK m : m = [run[c].mem EXCEPT !.cls = Classify(run[c].observed)]
    OBVIOUS
  <2>2. Copy(c, m) /\ Copy(c, [m EXCEPT !.phase = "distillation_stopped_no_handoff"])
    <3>1. [m EXCEPT !.phase = "distillation_stopped_no_handoff"] =
            [run[c].mem EXCEPT !.cls = Classify(run[c].observed), !.phase = "distillation_stopped_no_handoff"]
      BY <2>1
    <3> QED
      BY <2>1, <3>1, Copies
  <2>3. UNCHANGED history
    BY <1>5 DEF ClassifyTerminal, world
  <2>4. \/ Save(m) /\ To(c, [run[c] EXCEPT !.pc = "read", !.mem = m])
        \/ EndWith(c, [m EXCEPT !.phase = "distillation_stopped_no_handoff"])
    BY <1>5, <2>1 DEF ClassifyTerminal
  <2>5. CASE Save(m) /\ To(c, [run[c] EXCEPT !.pc = "read", !.mem = m])
    <3>1. PICK r : r = [run[c] EXCEPT !.pc = "read", !.mem = m]
      OBVIOUS
    <3>2. DOMAIN r = RunFields /\ r.mem = m /\ r.pc = "read" /\ r.todo = run[c].todo
      BY <3>1, CopyFacts DEF RunFields
    <3> QED
      BY <1>1, <2>2, <2>5, <3>1, <3>2, CopyFacts, PlainStep DEF Save
  <2>6. CASE EndWith(c, [m EXCEPT !.phase = "distillation_stopped_no_handoff"])
    BY <1>1, <2>2, <2>3, <2>6, EndStep
  <2> QED
    BY <2>4, <2>5, <2>6
<1> QED
  BY <1>3, <1>4, <1>5

LEMMA ReadKeepsFrozen ==
  ASSUME FrozenInv, NEW c \in Launches, ReadFile(c) \/ HashFile(c) \/ JudgeSnapshot(c)
  PROVE  FrozenInv'
<1>1. Alive(c) /\ UNCHANGED <<trainer, adapters, data, manifest, history>>
  BY DEF ReadFile, HashFile, JudgeSnapshot, Alive, handoffFiles, world
<1>2. ASSUME NEW p \in {"read", "hash", "freeze"}, NEW s,
             To(c, [run[c] EXCEPT !.pc = p, !.seen = s]), status' = status
      PROVE  FrozenInv'
  <2>1. PICK r : r = [run[c] EXCEPT !.pc = p, !.seen = s]
    OBVIOUS
  <2>2. DOMAIN r = RunFields /\ r.mem = run[c].mem /\ r.pc = p /\ r.todo = run[c].todo
    BY <2>1, CopyFacts DEF RunFields
  <2> QED
    BY <1>1, <1>2, <2>1, <2>2, CopyFacts, Copies, PlainStep
<1>3. CASE ReadFile(c)
  <2>1. PICK f : To(c, [run[c] EXCEPT !.pc = "hash", !.seen = Append(@, [read |-> f, hash |-> f])])
                 /\ status' = status
    BY <1>3 DEF ReadFile
  <2>2. PICK s : s = Append(run[c].seen, [read |-> f, hash |-> f])
    OBVIOUS
  <2>3. To(c, [run[c] EXCEPT !.pc = "hash", !.seen = s])
    BY <2>1, <2>2, CopyFacts DEF RunFields
  <2> QED
    BY <1>2, <2>1, <2>3
<1>4. CASE HashFile(c)
  <2>1. PICK i : To(c, [run[c] EXCEPT !.pc = "read", !.seen[i].hash = data[Order[i]]])
                 /\ status' = status
    BY <1>4 DEF HashFile
  <2>2. PICK s : s = [run[c].seen EXCEPT ![i].hash = data[Order[i]]]
    OBVIOUS
  <2>3. To(c, [run[c] EXCEPT !.pc = "read", !.seen = s])
    BY <2>1, <2>2, CopyFacts DEF RunFields
  <2> QED
    BY <1>2, <2>1, <2>3
<1>5. CASE JudgeSnapshot(c)
  <2>1. \/ \E x : EndWith(c, [run[c].mem EXCEPT !.phase = x])
        \/ To(c, [run[c] EXCEPT !.pc = "freeze"]) /\ status' = status
    BY <1>5 DEF JudgeSnapshot
  <2>2. CASE To(c, [run[c] EXCEPT !.pc = "freeze"]) /\ status' = status
    <3>1. PICK r : r = [run[c] EXCEPT !.pc = "freeze"]
      OBVIOUS
    <3>2. DOMAIN r = RunFields /\ r.mem = run[c].mem /\ r.pc = "freeze" /\ r.todo = run[c].todo
      BY <3>1, CopyFacts DEF RunFields
    <3> QED
      BY <1>1, <2>2, <3>1, <3>2, CopyFacts, Copies, PlainStep
  <2> QED
    BY <1>1, <2>1, <2>2, Copies, EndStep
<1> QED
  BY <1>3, <1>4, <1>5

\* A recorded handoff is compared; only one that is not recorded is written.
LEMMA FreezeKeepsFrozen ==
  ASSUME FrozenInv, NEW c \in Launches,
         RecoverHandoff(c) \/ WriteManifest(c) \/ WriteSidecar(c) \/ RecordHandoff(c)
  PROVE  FrozenInv'
<1>1. Alive(c) /\ UNCHANGED <<trainer, adapters, data, history>>
  BY DEF RecoverHandoff, WriteManifest, WriteSidecar, RecordHandoff, Alive, handoffFiles, world
<1>2. CASE RecoverHandoff(c)
  <2>1. run[c].mem.handoff /\ UNCHANGED <<trainer, adapters, data, manifest, history>>
    BY <1>1, <1>2 DEF RecoverHandoff, handoffFiles
  <2>2. \/ Save(run[c].mem) /\ To(c, [run[c] EXCEPT !.pc = "ready"])
        \/ Raise(c)
    BY <1>2 DEF RecoverHandoff
  <2>3. CASE Save(run[c].mem) /\ To(c, [run[c] EXCEPT !.pc = "ready"])
    <3>1. PICK r : r = [run[c] EXCEPT !.pc = "ready"]
      OBVIOUS
    <3>2. DOMAIN r = RunFields /\ r.mem = run[c].mem /\ r.pc = "ready" /\ r.todo = run[c].todo
      BY <3>1, CopyFacts DEF RunFields
    <3> QED
      BY <1>1, <2>1, <2>3, <3>1, <3>2, CopyFacts, Copies, PlainStep DEF Save
  <2>4. CASE Raise(c)
    BY <1>1, <2>1, <2>4, RaiseStep
  <2> QED
    BY <2>2, <2>3, <2>4
<1>3. ASSUME NEW p \in {"sidecar", "record"}, To(c, [run[c] EXCEPT !.pc = p]), status' = status,
             ~history.shared => ~status.handoff
      PROVE  FrozenInv'
  <2>1. PICK r : r = [run[c] EXCEPT !.pc = p]
    OBVIOUS
  <2>2. DOMAIN r = RunFields /\ r.mem = run[c].mem /\ r.pc = p /\ r.todo = run[c].todo
    BY <2>1, CopyFacts DEF RunFields
  <2>3. DOMAIN run' = Launches /\ run'[c] = r /\ \A d \in Launches : d # c => run'[d] = run[d]
    BY <1>3, <2>1, <2>2, NextRecord
  <2>4. Coordinated(c)
    BY <1>1, <1>3, <2>2, <2>3, CopyFacts DEF Coordinated, InStep
  <2> QED
    BY <2>4, CoordinatedKeeps
<1>4. CASE WriteManifest(c)
  <2>1. /\ To(c, [run[c] EXCEPT !.pc = "sidecar"]) /\ status' = status /\ ~run[c].mem.handoff
    BY <1>4 DEF WriteManifest
  <2> QED
    BY <1>1, <1>3, <2>1, CopyFacts DEF InStep
<1>5. CASE WriteSidecar(c)
  <2>1. /\ To(c, [run[c] EXCEPT !.pc = "record"]) /\ status' = status /\ run[c].pc = "sidecar"
    BY <1>5 DEF WriteSidecar
  <2> QED
    BY <1>1, <1>3, <2>1, CopyFacts DEF InStep
<1>6. CASE RecordHandoff(c)
  <2>1. PICK m : m = [run[c].mem EXCEPT !.handoff = TRUE]
    OBVIOUS
  <2>2. PICK r : r = [run[c] EXCEPT !.pc = "ready", !.mem = m]
    OBVIOUS
  <2>3. To(c, r) /\ status' = m /\ manifest' = manifest
    BY <1>6, <2>1, <2>2 DEF RecordHandoff, Save, handoffFiles
  <2>4. /\ DOMAIN m = StatusFields /\ m.handoff = TRUE /\ m.jobs = run[c].mem.jobs
        /\ DOMAIN r = RunFields /\ r.mem = m /\ r.pc = "ready" /\ r.todo = run[c].todo
    BY <2>1, <2>2, CopyFacts DEF RunFields, StatusFields
  <2>5. DOMAIN run' = Launches /\ run'[c] = r /\ \A d \in Launches : d # c => run'[d] = run[d]
    BY <2>3, <2>4, NextRecord
  <2>6. Coordinated(c)
    BY <1>1, <2>3, <2>4, <2>5, CopyFacts DEF Coordinated, InStep
  <2> QED
    BY <2>6, CoordinatedKeeps
<1> QED
  BY <1>2, <1>4, <1>5, <1>6

LEMMA SectionKeepsFrozen ==
  ASSUME FrozenInv, NEW c \in Launches,
         TrainGate(c) \/ TakeLock(c) \/ LeaveLock(c) \/ Finish(c) \/ Crash(c)
  PROVE  FrozenInv'
<1>1. Alive(c) /\ UNCHANGED <<trainer, adapters, data, manifest>>
  BY DEF TrainGate, TakeLock, LeaveLock, Finish, Crash, Alive, handoffFiles, world
<1>2. CASE Crash(c)
  <2>1. /\ Raise(c) /\ DOMAIN history' = DOMAIN history /\ history'.shared = history.shared
        /\ history'.moved = history.moved
    BY <1>2 DEF Crash, FrozenInv, Records
  <2> QED
    BY <1>1, <2>1, RaiseStep
<1>3. ASSUME NEW p \in {"jobs", "finish"}, To(c, [run[c] EXCEPT !.pc = p]), status' = status,
             UNCHANGED history, run[c].pc \in {"lock", "jobs"}
      PROVE  FrozenInv'
  <2>1. PICK r : r = [run[c] EXCEPT !.pc = p]
    OBVIOUS
  <2>2. DOMAIN r = RunFields /\ r.mem = run[c].mem /\ r.pc = p /\ r.todo = run[c].todo
    BY <2>1, CopyFacts DEF RunFields
  <2> QED
    BY <1>1, <1>3, <2>1, <2>2, CopyFacts, Copies, PlainStep
<1>4. CASE TakeLock(c)
  <2>1. /\ UNCHANGED history /\ run[c].pc = "lock"
        /\ Raise(c) \/ (To(c, [run[c] EXCEPT !.pc = "jobs"]) /\ status' = status)
    BY <1>4 DEF TakeLock, world
  <2> QED
    BY <1>1, <1>3, <2>1, RaiseStep
<1>5. CASE LeaveLock(c)
  <2>1. UNCHANGED history /\ run[c].pc = "jobs" /\ To(c, [run[c] EXCEPT !.pc = "finish"]) /\ status' = status
    BY <1>5 DEF LeaveLock, world
  <2> QED
    BY <1>3, <2>1
<1>6. CASE Finish(c)
  <2>1. UNCHANGED history /\ EndWith(c, [run[c].mem EXCEPT !.phase = "complete"])
    BY <1>6 DEF Finish, world
  <2> QED
    BY <1>1, <2>1, Copies, EndStep
<1>7. CASE TrainGate(c)
  <2>1. PICK m : m = [run[c].mem EXCEPT !.phase = "handoff_ready"]
    OBVIOUS
  <2>2. PICK left : left = {i \in DOMAIN Order : Order[i] \notin CompleteJobs(m)}
    OBVIOUS
  <2>3. Copy(c, m) /\ Copy(c, [m EXCEPT !.phase = "training_preflight_blocked"])
    <3>1. [m EXCEPT !.phase = "training_preflight_blocked"] =
            [run[c].mem EXCEPT !.phase = "training_preflight_blocked"]
      BY <2>1, CopyFacts DEF StatusFields
    <3> QED
      BY <2>1, <3>1, Copies
  <2>4. /\ UNCHANGED history /\ run[c].pc = "ready"
        /\ \/ EndWith(c, m) \/ EndWith(c, [m EXCEPT !.phase = "training_preflight_blocked"]) \/ Raise(c)
           \/ To(c, [run[c] EXCEPT !.pc = "lock", !.mem = m, !.todo = left]) /\ status' = status
    BY <1>7, <2>1, <2>2 DEF TrainGate, world
  <2>5. CASE To(c, [run[c] EXCEPT !.pc = "lock", !.mem = m, !.todo = left]) /\ status' = status
    <3>1. PICK r : r = [run[c] EXCEPT !.pc = "lock", !.mem = m, !.todo = left]
      OBVIOUS
    <3>2. DOMAIN r = RunFields /\ r.mem = m /\ r.pc = "lock" /\ r.todo = left
      BY <3>1, CopyFacts DEF RunFields
    <3>3. left \subseteq DOMAIN Order
      BY <2>2
    <3> QED
      BY <1>1, <2>3, <2>4, <2>5, <3>1, <3>2, <3>3, PlainStep
  <2> QED
    BY <1>1, <2>3, <2>4, <2>5, EndStep, RaiseStep
<1> QED
  BY <1>2, <1>4, <1>5, <1>6, <1>7

\* A launch starts from the status that is saved; if nobody else is alive, it is the only one.
LEMMA LaunchKeepsFrozen ==
  ASSUME FrozenInv, NEW c \in Launches, NEW live \in BOOLEAN, NEW train \in BOOLEAN,
         Launch(c, live, train)
  PROVE  FrozenInv'
<1>1. UNCHANGED <<trainer, adapters, data, manifest>>
  BY DEF Launch
<1>2. PICK m, p :
        /\ p \in {"ramp", "decide"}
        /\ \/ m = status
           \/ m = [status EXCEPT !.done = <<1>>]
           \/ m = [status EXCEPT !.done = Ramp]
        /\ To(c, [run[c] EXCEPT !.pc = p, !.live = live, !.train = train, !.mem = m,
                                 !.gate = GatePasses(art)])
        /\ status' = m \/ status' = status
  <2>1. PICK gate : gate = GatePasses(art)
    OBVIOUS
  <2>2. PICK recovered : recovered = (live /\ gate /\ status.done = <<>>)
    OBVIOUS
  <2>3. PICK m : m = IF recovered THEN [status EXCEPT !.done = <<1>>]
                     ELSE IF ~live /\ gate THEN [status EXCEPT !.done = Ramp] ELSE status
    OBVIOUS
  <2>4. PICK p : p = IF live THEN "ramp" ELSE "decide"
    OBVIOUS
  <2>5. /\ To(c, [run[c] EXCEPT !.pc = p, !.live = live, !.train = train, !.mem = m, !.gate = gate])
        /\ status' = IF recovered THEN m ELSE status
    BY <2>1, <2>2, <2>3, <2>4, Zenon DEF Launch
  <2>6. p \in {"ramp", "decide"} /\ (status' = m \/ status' = status)
    BY <2>4, <2>5
  <2>7. m = status \/ m = [status EXCEPT !.done = <<1>>] \/ m = [status EXCEPT !.done = Ramp]
    BY <2>3
  <2> QED
    BY <2>1, <2>5, <2>6, <2>7
<1>3. DOMAIN m = StatusFields /\ m.handoff = status.handoff /\ m.jobs = status.jobs
  BY <1>2, CopyFacts DEF StatusFields
<1>4. DOMAIN status' = StatusFields /\ status'.handoff = status.handoff /\ status'.jobs = status.jobs
  BY <1>2, <1>3, CopyFacts
<1>5. PICK r : r = [run[c] EXCEPT !.pc = p, !.live = live, !.train = train, !.mem = m,
                                  !.gate = GatePasses(art)]
  OBVIOUS
<1>6. DOMAIN r = RunFields /\ r.mem = m /\ r.pc = p /\ r.todo = run[c].todo
  BY <1>5, CopyFacts DEF RunFields
<1>7. DOMAIN run' = Launches /\ run'[c] = r /\ \A d \in Launches : d # c => run'[d] = run[d]
  BY <1>2, <1>5, <1>6, NextRecord
<1>8. PICK lost \in BOOLEAN : lost <=> history.shared \/ \E d \in Launches : Alive(d)
  OBVIOUS
<1>9. /\ history.shared \in BOOLEAN
      /\ DOMAIN history = {"shared", "moved", "changes", "crashes", "smokes", "triggered"}
  BY DEF FrozenInv, Records
<1>10. history' = [history EXCEPT !.shared = lost]
  BY <1>8, <1>9 DEF Launch
<1>11. DOMAIN history' = DOMAIN history /\ history'.shared = lost /\ history'.moved = history.moved
  BY <1>9, <1>10
<1>12. Records'
  BY <1>1, <1>3, <1>4, <1>6, <1>7, <1>8, <1>9, <1>11 DEF FrozenInv, Records
<1>13. CompleteJobs(status)' = CompleteJobs(status)
  BY <1>4 DEF CompleteJobs
<1>14. TrainedOnFrozenData'
  <2> HIDE DEF CompleteJobs
  <2> QED
    BY <1>1, <1>8, <1>11, <1>13 DEF FrozenInv, TrainedOnFrozenData
<1>15. ASSUME ~lost
       PROVE  Owned' /\ \A d \in Launches : InStep(d)' /\ OnFrozen(d)'
  <2>1. /\ ~history.shared /\ \A d \in Launches : ~Alive(d) /\ OnFrozen(d)
        /\ Owned
    BY <1>8, <1>15 DEF FrozenInv
  <2>2. \A d \in Launches : Alive(d)' => d = c
    BY <1>7, <2>1 DEF Alive
  <2>3. \A d \in Launches : InStep(d)'
    BY <1>2, <1>3, <1>4, <1>6, <1>7, <2>2 DEF InStep
  <2>4. Owned'
    BY <1>1, <1>4, <2>1 DEF Owned
  <2> QED
    BY <1>1, <1>11, <2>1, <2>3, <2>4, OnFrozenKept
<1> QED
  BY <1>8, <1>11, <1>12, <1>14, <1>15 DEF FrozenInv

\* Only the coordinator that waits, or is about to, has a child; other launches have none.
LEMMA NoOtherChild ==
  ASSUME LockInv, NEW c \in Launches, Holder(c)
  PROVE  \A d \in Launches : d # c => trainer[d].pc = "none"
  BY DEF LockInv, Holder

LEMMA StartKeepsFrozen ==
  ASSUME FrozenInv, LockInv, NEW c \in Launches, StartJob(c)
  PROVE  FrozenInv'
<1>1. Alive(c) /\ run[c].pc = "jobs" /\ UNCHANGED <<adapters, data, manifest, history>>
  BY DEF StartJob, Alive, world, handoffFiles
<1>2. trainer[c].pc = "none" /\ \A d \in Launches : d # c => trainer[d].pc = "none"
  BY <1>1, NoOtherChild DEF LockInv, Holder
<1>3. CASE ~FrozenHolds
  <2>1. Raise(c) /\ trainer' = trainer
    BY <1>3 DEF StartJob
  <2> QED
    BY <1>1, <2>1, RaiseStep
<1>4. CASE FrozenHolds
  <2>1. PICK i \in run[c].todo :
          /\ LET m == [run[c].mem EXCEPT !.phase = "training", !.active = Order[i]]
             IN  Save(m) /\ To(c, [run[c] EXCEPT !.pc = "waiting", !.mem = m, !.todo = @ \ {i}])
          /\ trainer' = [trainer EXCEPT ![c] = [NoChild EXCEPT !.pc = "check", !.e = Order[i]]]
    BY <1>4 DEF StartJob
  <2>2. Order[i] \in Experts
    BY CopyFacts, HandoffAssumption
  <2>3. PICK m : m = [run[c].mem EXCEPT !.phase = "training", !.active = Order[i]]
    OBVIOUS
  <2>4. DOMAIN m = StatusFields /\ m.handoff = run[c].mem.handoff /\ m.jobs = run[c].mem.jobs
    BY <2>3, CopyFacts DEF StatusFields
  <2>5. PICK left : left = run[c].todo \ {i}
    OBVIOUS
  <2>6. PICK r : r = [run[c] EXCEPT !.pc = "waiting", !.mem = m, !.todo = left]
    OBVIOUS
  <2>7. DOMAIN r = RunFields /\ r.mem = m /\ r.pc = "waiting" /\ r.todo = left
    BY <2>6, CopyFacts DEF RunFields
  <2>8. To(c, r) /\ status' = m
    BY <2>1, <2>3, <2>5, <2>6, CopyFacts DEF Save, RunFields
  <2>9. DOMAIN run' = Launches /\ run'[c] = r /\ \A d \in Launches : d # c => run'[d] = run[d]
    BY <2>7, <2>8, NextRecord
  <2>10. PICK t : t = [NoChild EXCEPT !.pc = "check", !.e = Order[i]]
    OBVIOUS
  <2>11. /\ DOMAIN t = ChildFields /\ t.pc = "check" /\ t.e = Order[i] /\ t.read = {} /\ t.steps = 0
    BY <2>10 DEF NoChild, ChildFields
  <2>12. /\ DOMAIN trainer' = Launches /\ trainer'[c] = t
         /\ \A d \in Launches : d # c => trainer'[d] = trainer[d]
    BY <2>1, <2>10 DEF FrozenInv, Records
  <2>13. Records'
    BY SMTT(30), <1>1, <2>2, <2>4, <2>5, <2>7, <2>8, <2>9, <2>11, <2>12, CopyFacts DEF FrozenInv, Records
  <2>14. ASSUME ~history.shared
         PROVE  Owned' /\ \A d \in Launches : InStep(d)' /\ OnFrozen(d)'
    <3>1. InStep(c) /\ status.handoff
      BY <1>1, <2>14 DEF FrozenInv, InStep
    <3>2. \A d \in Launches : InStep(d)'
      BY <1>1, <2>4, <2>7, <2>8, <2>9, <3>1 DEF InStep, Alive
    <3>3. Owned'
      BY <2>4, <2>8, <3>1, <1>1 DEF Owned, InStep
    <3>4. OnFrozen(c)'
      BY <1>1, <1>4, <2>11, <2>12 DEF OnFrozen, FrozenHolds
    <3>5. \A d \in Launches : d # c => OnFrozen(d)'
      BY <1>2, <2>12 DEF OnFrozen
    <3> QED
      BY <3>2, <3>3, <3>4, <3>5
  <2>15. TrainedOnFrozenData'
    <3>1. ~history.shared => CompleteJobs(status)' = CompleteJobs(status)
      BY <1>1, <2>4, <2>8 DEF FrozenInv, InStep, CompleteJobs
    <3> QED
      BY <1>1, <3>1 DEF FrozenInv, TrainedOnFrozenData
  <2> QED
    BY <1>1, <2>13, <2>14, <2>15 DEF FrozenInv
<1> QED
  BY <1>3, <1>4

LEMMA AppendedJob ==
  ASSUME NEW st, NEW new, NEW e, NEW ok \in BOOLEAN, st.jobs \in Seq(JobRecords),
         new.jobs = Append(st.jobs, [e |-> e, ok |-> ok])
  PROVE  CompleteJobs(new) \subseteq CompleteJobs(st) \cup (IF ok THEN {e} ELSE {})
<1>1. PICK rec : rec = [e |-> e, ok |-> ok]
  OBVIOUS
<1>2. PICK s : s = st.jobs /\ s \in Seq(JobRecords)
  OBVIOUS
<1>3. ASSUME NEW j \in DOMAIN Append(s, rec), Append(s, rec)[j].ok
      PROVE  Append(s, rec)[j].e \in {s[i].e : i \in {k \in DOMAIN s : s[k].ok}} \cup (IF ok THEN {e} ELSE {})
  <2>1. CASE j \in DOMAIN s
    <3>1. Append(s, rec)[j] = s[j]
      BY <1>2, <2>1
    <3> QED
      BY <1>3, <2>1, <3>1
  <2>2. CASE j \notin DOMAIN s
    <3>1. Append(s, rec)[j] = rec
      BY <1>2, <1>3, <2>2
    <3>2. rec.ok = ok /\ rec.e = e
      BY <1>1
    <3> QED
      BY <1>3, <3>1, <3>2
  <2> QED
    BY <2>1, <2>2
<1>4. new.jobs = Append(s, rec)
  BY <1>1, <1>2
<1> QED
  BY <1>2, <1>3, <1>4 DEF CompleteJobs

\* The job that ended is the one the launch waited for; only one that did all its steps counts.
LEMMA EndsKeepsFrozen ==
  ASSUME FrozenInv, LockInv, NEW c \in Launches, JobEnds(c)
  PROVE  FrozenInv'
<1>1. Alive(c) /\ run[c].pc = "waiting" /\ UNCHANGED <<adapters, data, manifest, history>>
  BY DEF JobEnds, Alive, world, handoffFiles
<1>2. \A d \in Launches : d # c => trainer[d].pc = "none"
  BY <1>1, NoOtherChild DEF Holder
<1>3. PICK t : t = trainer[c]
  OBVIOUS
<1>4. t.pc \in {"done", "failed"} /\ t.e \in Experts /\ trainer' = [trainer EXCEPT ![c] = NoChild]
  BY <1>3 DEF JobEnds, FrozenInv, Records
<1>5. PICK ok \in BOOLEAN : ok <=> t.pc = "done"
  OBVIOUS
<1>6. PICK js : js = Append(run[c].mem.jobs, [e |-> t.e, ok |-> ok])
  OBVIOUS
<1>7. js \in Seq(JobRecords)
  <2>1. [e |-> t.e, ok |-> ok] \in JobRecords
    BY <1>4 DEF JobRecords
  <2> QED
    BY <1>6, <2>1, CopyFacts
<1>8. PICK ph : ph = IF ok THEN run[c].mem.phase ELSE "training_failed"
  OBVIOUS
<1>9. PICK m : m = [run[c].mem EXCEPT !.active = "none", !.jobs = js, !.phase = ph]
  OBVIOUS
<1>10. DOMAIN m = StatusFields /\ m.handoff = run[c].mem.handoff /\ m.jobs = js
  BY <1>9, CopyFacts DEF StatusFields
<1>11. PICK p : p = IF ok THEN "jobs" ELSE "ended"
  OBVIOUS
<1>12. PICK r : r = [run[c] EXCEPT !.pc = p, !.mem = m]
  OBVIOUS
<1>13. DOMAIN r = RunFields /\ r.mem = m /\ r.pc = p /\ r.todo = run[c].todo
  BY <1>12, CopyFacts DEF RunFields
<1>14. To(c, r) /\ status' = m
  <2>1. PICK old : old = run[c].mem
    OBVIOUS
  <2>2. m = [old EXCEPT !.active = "none", !.jobs = Append(@, [e |-> t.e, ok |-> t.pc = "done"]),
                        !.phase = IF t.pc = "done" THEN @ ELSE "training_failed"]
    <3>1. ok = (t.pc = "done")
      BY <1>5, Zenon
    <3>2. DOMAIN old = StatusFields
      BY <2>1, CopyFacts
    <3>3. old.jobs = run[c].mem.jobs /\ old.phase = run[c].mem.phase
      BY <2>1
    <3> QED
      BY <1>5, <1>6, <1>8, <1>9, <2>1, <3>1, <3>2, <3>3 DEF StatusFields
  <2>3. /\ Save(m)
        /\ \/ ok /\ To(c, [run[c] EXCEPT !.pc = "jobs", !.mem = m])
           \/ ~ok /\ To(c, [run[c] EXCEPT !.mem = m, !.pc = "ended"])
    BY <1>3, <1>5, <2>1, <2>2 DEF JobEnds, EndWith
  <2> QED
    BY <1>11, <1>12, <2>3, CopyFacts DEF Save, RunFields
<1>15. DOMAIN run' = Launches /\ run'[c] = r /\ \A d \in Launches : d # c => run'[d] = run[d]
  BY <1>13, <1>14, NextRecord
<1>16. /\ DOMAIN trainer' = Launches /\ trainer'[c] = NoChild
       /\ \A d \in Launches : d # c => trainer'[d] = trainer[d]
  BY <1>4 DEF FrozenInv, Records
<1>17. Records'
  <2>1. /\ DOMAIN status' = StatusFields /\ status'.handoff \in BOOLEAN /\ status'.jobs \in Seq(JobRecords)
        /\ DOMAIN run'[c] = RunFields /\ DOMAIN run'[c].mem = StatusFields
        /\ run'[c].mem.handoff \in BOOLEAN /\ run'[c].mem.jobs \in Seq(JobRecords)
        /\ run'[c].todo \subseteq DOMAIN Order
    BY <1>7, <1>10, <1>13, <1>14, <1>15, CopyFacts
  <2>2. DOMAIN trainer'[c] = ChildFields /\ trainer'[c].steps \in Nat /\ trainer'[c].pc = "none"
    BY <1>16 DEF NoChild, ChildFields
  <2> QED
    BY <1>1, <1>15, <1>16, <2>1, <2>2 DEF FrozenInv, Records
<1>18. ASSUME ~history.shared
       PROVE  /\ Owned' /\ \A d \in Launches : InStep(d)' /\ OnFrozen(d)'
              /\ TrainedOnFrozenData'
  <2>1. InStep(c) /\ OnFrozen(c) /\ TrainedOnFrozenData /\ status.handoff /\ run[c].mem.jobs = status.jobs
    BY <1>1, <1>18 DEF FrozenInv, InStep
  <2>2. \A d \in Launches : InStep(d)'
    BY <1>1, <1>10, <1>11, <1>13, <1>14, <1>15, <2>1 DEF InStep, Alive
  <2>3. Owned'
    BY <1>1, <1>10, <1>14, <2>1 DEF Owned, InStep
  <2>4. \A d \in Launches : OnFrozen(d)'
    BY <1>2, <1>16 DEF OnFrozen, NoChild
  <2>5. CompleteJobs(status') \subseteq CompleteJobs(status) \cup (IF ok THEN {t.e} ELSE {})
    BY <1>6, <1>10, <1>14, <2>1, CopyFacts, AppendedJob
  <2>6. t.pc = "done" /\ t.e \notin history.moved =>
           /\ adapters[t.e].weights = {manifest.data[t.e]}
           /\ BoundTo(adapters[t.e].bound, adapters[t.e].smoke)
    BY <1>3, <2>1 DEF OnFrozen
  <2>7. CompleteJobs(status)' = CompleteJobs(status')
    BY DEF CompleteJobs
  <2>8. TrainedOnFrozenData'
    <3> HIDE DEF CompleteJobs
    <3>1. ASSUME NEW e \in CompleteJobs(status') \ history.moved
          PROVE  /\ adapters[e].weights = {manifest.data[e]}
                 /\ \A f \in Experts : adapters[e].bound[1][f][2] = manifest.data[f]
                 /\ adapters[e].smoke = adapters[e].bound
      BY <1>5, <1>18, <2>1, <2>5, <2>6 DEF TrainedOnFrozenData, BoundTo
    <3> QED
      BY <1>1, <2>7, <3>1 DEF TrainedOnFrozenData
  <2> QED
    BY <2>2, <2>3, <2>4, <2>8
<1> QED
  BY <1>1, <1>17, <1>18 DEF FrozenInv, TrainedOnFrozenData

\* An interrupted coordinator takes its child with it.
LEMMA InterruptKeepsFrozen ==
  ASSUME FrozenInv, LockInv, NEW c \in Launches, Interrupt(c)
  PROVE  FrozenInv'
<1>1. /\ Alive(c) /\ run[c].pc \in {"jobs", "waiting"} /\ Raise(c)
      /\ UNCHANGED <<adapters, data, manifest, status>>
      /\ DOMAIN history' = DOMAIN history /\ history'.shared = history.shared /\ history'.moved = history.moved
      /\ trainer' = [trainer EXCEPT ![c] = NoChild]
  BY DEF Interrupt, Alive, handoffFiles, Raise, FrozenInv, Records
<1>2. \A d \in Launches : d # c => trainer[d].pc = "none"
  BY <1>1, NoOtherChild DEF Holder
<1>3. PICK r : r = [run[c] EXCEPT !.pc = "ended"]
  OBVIOUS
<1>4. DOMAIN r = RunFields /\ r.mem = run[c].mem /\ r.pc = "ended" /\ r.todo = run[c].todo
  BY <1>3, CopyFacts DEF RunFields
<1>5. DOMAIN run' = Launches /\ run'[c] = r /\ \A d \in Launches : d # c => run'[d] = run[d]
  BY <1>1, <1>3, <1>4, NextRecord DEF Raise
<1>6. /\ DOMAIN trainer' = Launches /\ trainer'[c] = NoChild
      /\ \A d \in Launches : d # c => trainer'[d] = trainer[d]
  BY <1>1 DEF FrozenInv, Records
<1>7. Records'
  BY <1>1, <1>4, <1>5, <1>6, CopyFacts DEF FrozenInv, Records, NoChild, ChildFields
<1>8. ASSUME ~history.shared
      PROVE  Owned' /\ \A d \in Launches : InStep(d)' /\ OnFrozen(d)'
  <2>1. \A d \in Launches : InStep(d)'
    BY <1>1, <1>4, <1>5, <1>8 DEF FrozenInv, InStep, Alive
  <2>2. Owned'
    BY <1>1, <1>6, <1>8 DEF FrozenInv, Owned, NoChild
  <2>3. \A d \in Launches : OnFrozen(d)'
    BY <1>2, <1>6 DEF OnFrozen, NoChild
  <2> QED
    BY <2>1, <2>2, <2>3
<1>9. TrainedOnFrozenData'
  <2>1. CompleteJobs(status)' = CompleteJobs(status)
    BY <1>1 DEF CompleteJobs
  <2> HIDE DEF CompleteJobs
  <2> QED
    BY <1>1, <2>1 DEF FrozenInv, TrainedOnFrozenData
<1> QED
  BY <1>1, <1>7, <1>8, <1>9 DEF FrozenInv

\* A step of a child: it keeps its job, and touches the adapter of that job only.
ChildStep(c, t) ==
  /\ trainer[c].pc # "none" /\ Child(c, t)
  /\ DOMAIN t = ChildFields /\ t.steps \in Nat /\ t.e = trainer[c].e
  /\ UNCHANGED <<status, run, data, manifest, history>>
  /\ DOMAIN adapters' = Experts
  /\ DOMAIN adapters'[t.e] = {"weights", "bound", "smoke"}
  /\ \A e \in Experts : e # t.e => adapters'[e] = adapters[e]
  /\ ~history.shared /\ t.e \notin history.moved =>
       \/ adapters' = adapters
       \/ /\ adapters'[t.e].weights = {manifest.data[t.e]}
          /\ adapters'[t.e].bound = adapters[t.e].bound /\ adapters'[t.e].smoke = adapters[t.e].smoke
       \/ /\ adapters'[t.e].weights = adapters[t.e].weights
          /\ BoundTo(adapters'[t.e].bound, adapters'[t.e].smoke)

LEMMA ChildStepKeeps ==
  ASSUME FrozenInv, LockInv, NEW c \in Launches, NEW t, ChildStep(c, t),
         ~history.shared => OnFrozen(c)'
  PROVE  FrozenInv'
<1>1. \A d \in Launches : d # c => trainer[d].pc = "none"
  BY NoOtherChild DEF Holder, ChildStep
<1>2. /\ DOMAIN trainer' = Launches /\ trainer'[c] = t
      /\ \A d \in Launches : d # c => trainer'[d] = trainer[d]
      /\ t.e \in Experts
  BY DEF ChildStep, Child, FrozenInv, Records
<1>3. Records'
  <2>1. ASSUME NEW d \in Launches
        PROVE  /\ DOMAIN trainer'[d] = ChildFields /\ trainer'[d].steps \in Nat
               /\ trainer'[d].pc # "none" => trainer'[d].e \in Experts
    <3>1. CASE d = c
      BY <1>2, <3>1 DEF ChildStep
    <3>2. CASE d # c
      BY <1>2, <3>2 DEF FrozenInv, Records
    <3> QED
      BY <3>1, <3>2
  <2>2. \A e \in Experts : DOMAIN adapters'[e] = {"weights", "bound", "smoke"}
    BY DEF ChildStep, FrozenInv, Records
  <2> QED
    BY <1>2, <2>1, <2>2 DEF FrozenInv, Records, ChildStep
<1>4. ASSUME ~history.shared
      PROVE  /\ Owned' /\ \A d \in Launches : InStep(d)' /\ OnFrozen(d)'
             /\ TrainedOnFrozenData'
  <2>1. /\ Owned /\ TrainedOnFrozenData /\ \A d \in Launches : InStep(d)
    BY <1>4 DEF FrozenInv
  <2>2. \A d \in Launches : InStep(d)'
    BY <2>1 DEF InStep, Alive, ChildStep
  <2>3. Owned'
    BY <1>1, <1>2, <2>1 DEF Owned, ChildStep
  <2>4. \A d \in Launches : d # c => OnFrozen(d)'
    BY <1>1, <1>2 DEF OnFrozen
  <2>5. CompleteJobs(status)' = CompleteJobs(status)
    BY DEF CompleteJobs, ChildStep
  <2>6. ASSUME NEW e \in CompleteJobs(status) \ history.moved
        PROVE  /\ adapters'[e].weights = {manifest.data[e]}
               /\ \A f \in Experts : adapters'[e].bound[1][f][2] = manifest.data[f]
               /\ adapters'[e].smoke = adapters'[e].bound
    <3>1. e \in Experts
      <4>1. PICK s \in Seq(JobRecords) : s = status.jobs
        BY DEF FrozenInv, Records
      <4>2. PICK i \in DOMAIN s : e = s[i].e
        BY <2>6, <4>1 DEF CompleteJobs
      <4>3. s[i] \in JobRecords
        BY <4>1, <4>2
      <4> QED
        BY <4>2, <4>3 DEF JobRecords
    <3>2. /\ adapters[e].weights = {manifest.data[e]}
          /\ BoundTo(adapters[e].bound, adapters[e].smoke)
      BY <1>4, <2>1, <2>6 DEF TrainedOnFrozenData, BoundTo
    <3>3. /\ adapters'[e].weights = {manifest.data[e]}
          /\ BoundTo(adapters'[e].bound, adapters'[e].smoke)
      <4>1. CASE e = t.e
        <5>1. \/ adapters' = adapters
              \/ /\ adapters'[e].weights = {manifest.data[e]}
                 /\ adapters'[e].bound = adapters[e].bound /\ adapters'[e].smoke = adapters[e].smoke
              \/ /\ adapters'[e].weights = adapters[e].weights
                 /\ BoundTo(adapters'[e].bound, adapters'[e].smoke)
          BY <1>4, <2>6, <4>1 DEF ChildStep
        <5> QED
          BY <3>2, <5>1
      <4>2. CASE e # t.e
        <5>1. adapters'[e] = adapters[e]
          BY <3>1, <4>2 DEF ChildStep
        <5> QED
          BY <3>2, <5>1
      <4> QED
        BY <4>1, <4>2
    <3> QED
      BY <3>3 DEF BoundTo
  <2>7. TrainedOnFrozenData'
    <3> HIDE DEF CompleteJobs
    <3> QED
      BY <2>5, <2>6 DEF TrainedOnFrozenData, ChildStep
  <2> QED
    BY <1>4, <2>2, <2>3, <2>4, <2>7
<1> QED
  BY <1>3, <1>4 DEF FrozenInv, TrainedOnFrozenData, ChildStep

LEMMA DigestFiles ==
  ASSUME NEW m, NEW f \in Experts
  PROVE  SnapshotDigest(m)[1][f][2] = m.files[f].sha
<1>1. SnapshotDigest(m)[1] = [e \in Experts |-> <<m.files[e].name, m.files[e].sha, m.files[e].records>>]
  BY DEF SnapshotDigest
<1> QED
  BY <1>1

\* The child's own preflight ties the snapshot it is bound to to the files that are there.
LEMMA PreflightBinds ==
  ASSUME Ready, NEW f \in Experts
  PROVE  SnapshotDigest(man)[1][f][2] = data[f]
<1>1. man.files[f].sha = data[f]
  BY DEF Ready, PreflightPasses, SnapshotBound, FileBound
<1> QED
  BY <1>1, DigestFiles

\* The facts of a child before a step.
LEMMA ChildFacts ==
  ASSUME FrozenInv, NEW c \in Launches, trainer[c].pc # "none"
  PROVE  /\ DOMAIN trainer[c] = ChildFields /\ trainer[c].steps \in Nat /\ trainer[c].e \in Experts
         /\ DOMAIN adapters = Experts /\ \A e \in Experts : DOMAIN adapters[e] = {"weights", "bound", "smoke"}
         /\ ~history.shared => OnFrozen(c)
  BY DEF FrozenInv, Records

\* What is left to show of a step that leaves the adapters alone.
LEMMA QuietChild ==
  ASSUME FrozenInv, LockInv, NEW c \in Launches, NEW t, trainer[c].pc # "none", Child(c, t),
         DOMAIN t = ChildFields, t.steps \in Nat, t.e = trainer[c].e,
         UNCHANGED <<rest, adapters>>,
         t.pc \in {"load", "steps", "failed"},
         ~history.shared /\ t.e \notin history.moved =>
           /\ t.pc = "load" => t.read = {} /\ t.steps = 0
           /\ t.pc # "failed" => BoundTo(t.bound, t.smoke)
           /\ t.pc = "steps" => t.read = IF t.steps = 0 THEN {} ELSE {manifest.data[t.e]}
  PROVE  FrozenInv'
<1>1. ChildStep(c, t)
  BY ChildFacts DEF ChildStep, rest, handoffFiles
<1>2. trainer'[c] = t
  BY DEF Child, FrozenInv, Records
<1>3. ASSUME ~history.shared PROVE OnFrozen(c)'
  <2>1. /\ OnFrozen(c) /\ UNCHANGED <<data, manifest, adapters, history>>
    BY <1>3, ChildFacts DEF rest, handoffFiles
  <2>2. t.e \notin history.moved => \A f \in Experts : data[f] = manifest.data[f]
    BY <2>1 DEF OnFrozen
  <2>3. BoundTo(t.bound, t.smoke)' = BoundTo(t.bound, t.smoke)
    BY <2>1 DEF BoundTo
  <2> QED
    BY <1>2, <1>3, <2>1, <2>2, <2>3 DEF OnFrozen
<1> QED
  BY <1>1, <1>3, ChildStepKeeps

LEMMA CheckKeepsFrozen ==
  ASSUME FrozenInv, LockInv, NEW c \in Launches, TrainCheck(c)
  PROVE  FrozenInv'
<1>1. trainer[c].pc = "check" /\ UNCHANGED <<rest, adapters>>
  BY DEF TrainCheck
<1>2. CASE Ready /\ PriorSmokePasses(smoke, man)
  <2>1. PICK b : b = SnapshotDigest(man)
    OBVIOUS
  <2>2. PICK t : t = [trainer[c] EXCEPT !.pc = "load", !.bound = b, !.smoke = smoke.digest]
    OBVIOUS
  <2>3. /\ DOMAIN t = ChildFields /\ t.steps = trainer[c].steps /\ t.e = trainer[c].e /\ t.pc = "load"
        /\ t.read = trainer[c].read /\ t.bound = b /\ t.smoke = smoke.digest
    BY <1>1, <2>2, ChildFacts DEF ChildFields
  <2>4. Child(c, t)
    BY <1>2, <2>1, <2>2 DEF TrainCheck
  <2>5. t.smoke = b /\ \A f \in Experts : b[1][f][2] = data[f]
    BY <1>2, <2>1, <2>3, PreflightBinds DEF PriorSmokePasses
  <2>6. ASSUME ~history.shared, t.e \notin history.moved
        PROVE  BoundTo(t.bound, t.smoke) /\ t.read = {} /\ t.steps = 0
    BY <1>1, <2>3, <2>5, <2>6, ChildFacts DEF OnFrozen, BoundTo
  <2> QED
    BY <1>1, <2>3, <2>4, <2>6, ChildFacts, QuietChild
<1>3. CASE ~(Ready /\ PriorSmokePasses(smoke, man))
  <2>1. PICK t : t = [trainer[c] EXCEPT !.pc = "failed"]
    OBVIOUS
  <2>2. DOMAIN t = ChildFields /\ t.steps = trainer[c].steps /\ t.e = trainer[c].e /\ t.pc = "failed"
    BY <1>1, <2>1, ChildFacts DEF ChildFields
  <2>3. Child(c, t)
    BY <1>3, <2>1 DEF TrainCheck
  <2> QED
    BY <1>1, <2>2, <2>3, ChildFacts, QuietChild
<1> QED
  BY <1>2, <1>3

LEMMA FailKeepsFrozen ==
  ASSUME FrozenInv, LockInv, NEW c \in Launches, trainer[c].pc # "none",
         Child(c, [trainer[c] EXCEPT !.pc = "failed"]), UNCHANGED <<rest, adapters>>
  PROVE  FrozenInv'
<1>1. PICK t : t = [trainer[c] EXCEPT !.pc = "failed"]
  OBVIOUS
<1>2. DOMAIN t = ChildFields /\ t.steps = trainer[c].steps /\ t.e = trainer[c].e /\ t.pc = "failed"
  BY <1>1, ChildFacts DEF ChildFields
<1> QED
  BY <1>1, <1>2, ChildFacts, QuietChild

LEMMA LoadKeepsFrozen ==
  ASSUME FrozenInv, LockInv, NEW c \in Launches, TrainLoad(c)
  PROVE  FrozenInv'
<1>1. trainer[c].pc = "load" /\ UNCHANGED <<rest, adapters>>
  BY DEF TrainLoad
<1>2. CASE Child(c, [trainer[c] EXCEPT !.pc = "steps", !.index = data[trainer[c].e]])
  <2>1. PICK t : t = [trainer[c] EXCEPT !.pc = "steps", !.index = data[trainer[c].e]]
    OBVIOUS
  <2>2. /\ DOMAIN t = ChildFields /\ t.steps = trainer[c].steps /\ t.e = trainer[c].e /\ t.pc = "steps"
        /\ t.read = trainer[c].read /\ t.bound = trainer[c].bound /\ t.smoke = trainer[c].smoke
    BY <1>1, <2>1, ChildFacts DEF ChildFields
  <2>3. ASSUME ~history.shared, t.e \notin history.moved
        PROVE  BoundTo(t.bound, t.smoke) /\ t.read = {} /\ t.steps = 0
    BY <1>1, <2>2, <2>3, ChildFacts DEF OnFrozen
  <2> QED
    BY <1>1, <1>2, <2>1, <2>2, <2>3, ChildFacts, QuietChild
<1>3. CASE Child(c, [trainer[c] EXCEPT !.pc = "failed"])
  BY <1>1, <1>3, FailKeepsFrozen
<1> QED
  BY <1>2, <1>3 DEF TrainLoad

LEMMA StepKeepsFrozen ==
  ASSUME FrozenInv, LockInv, NEW c \in Launches, TrainStep(c)
  PROVE  FrozenInv'
<1>1. trainer[c].pc = "steps" /\ UNCHANGED <<rest, adapters>>
  BY DEF TrainStep
<1>2. PICK f : f = data[trainer[c].e]
  OBVIOUS
<1>3. CASE Child(c, [trainer[c] EXCEPT !.read = @ \cup {f}, !.steps = @ + 1])
  <2>1. PICK read : read = trainer[c].read \cup {f}
    OBVIOUS
  <2>2. PICK n \in Nat : n = trainer[c].steps + 1
    BY <1>1, ChildFacts
  <2>3. PICK t : t = [trainer[c] EXCEPT !.read = read, !.steps = n]
    OBVIOUS
  <2>4. /\ DOMAIN t = ChildFields /\ t.steps = n /\ t.e = trainer[c].e /\ t.pc = "steps"
        /\ t.read = read /\ t.bound = trainer[c].bound /\ t.smoke = trainer[c].smoke
    BY <1>1, <2>3, ChildFacts DEF ChildFields
  <2>5. Child(c, t)
    BY <1>1, <1>3, <2>1, <2>2, <2>3, ChildFacts DEF ChildFields
  <2>6. ASSUME ~history.shared, t.e \notin history.moved
        PROVE  BoundTo(t.bound, t.smoke) /\ t.read = {manifest.data[t.e]} /\ n # 0
    <3>1. /\ trainer[c].read \in {{}, {manifest.data[t.e]}} /\ f = manifest.data[t.e]
          /\ BoundTo(trainer[c].bound, trainer[c].smoke)
      <4>1. PICK old : old = trainer[c]
        OBVIOUS
      <4>2. /\ old.e \in Experts /\ old.pc = "steps" /\ old.e \notin history.moved
            /\ OnFrozen(c)
        BY <1>1, <2>4, <2>6, <4>1, ChildFacts
      <4>3. /\ \A x \in Experts : data[x] = manifest.data[x]
            /\ BoundTo(old.bound, old.smoke)
            /\ old.read = IF old.steps = 0 THEN {} ELSE {manifest.data[old.e]}
        BY <4>1, <4>2 DEF OnFrozen
      <4>4. old.read = {} \/ old.read = {manifest.data[old.e]}
        BY <4>3
      <4> QED
        BY <1>2, <2>4, <4>1, <4>2, <4>3, <4>4
    <3>2. n # 0
      BY <1>1, <2>2, ChildFacts
    <3> QED
      BY <2>1, <2>4, <3>1, <3>2
  <2> QED
    BY <1>1, <2>2, <2>4, <2>5, <2>6, ChildFacts, QuietChild
<1>4. CASE Child(c, [trainer[c] EXCEPT !.pc = "failed"])
  BY <1>1, <1>4, FailKeepsFrozen
<1> QED
  BY <1>2, <1>3, <1>4 DEF TrainStep

\* A job that did all its steps read the frozen file, and nothing else.
LEMMA WeightsKeepFrozen ==
  ASSUME FrozenInv, LockInv, NEW c \in Launches, SaveWeights(c)
  PROVE  FrozenInv'
<1>1. trainer[c].pc = "steps" /\ trainer[c].steps = Steps /\ UNCHANGED rest
  BY DEF SaveWeights
<1>2. PICK e \in Experts : e = trainer[c].e
  BY <1>1, ChildFacts
<1>3. PICK read : read = trainer[c].read
  OBVIOUS
<1>4. PICK a : a = [adapters[e] EXCEPT !.weights = read]
  OBVIOUS
<1>5. /\ DOMAIN a = {"weights", "bound", "smoke"} /\ a.weights = read
      /\ a.bound = adapters[e].bound /\ a.smoke = adapters[e].smoke
  BY <1>1, <1>4, ChildFacts
<1>6. adapters' = [adapters EXCEPT ![e] = a]
  BY <1>2, <1>3, <1>4 DEF SaveWeights
<1>7. /\ DOMAIN adapters' = Experts /\ adapters'[e] = a
      /\ \A x \in Experts : x # e => adapters'[x] = adapters[x]
  BY <1>1, <1>6, ChildFacts
<1>8. PICK t : t = [trainer[c] EXCEPT !.pc = "saved"]
  OBVIOUS
<1>9. /\ DOMAIN t = ChildFields /\ t.steps = trainer[c].steps /\ t.e = e /\ t.pc = "saved"
      /\ t.bound = trainer[c].bound /\ t.smoke = trainer[c].smoke
  BY <1>1, <1>2, <1>8, ChildFacts DEF ChildFields
<1>10. Child(c, t)
  BY <1>8 DEF SaveWeights
<1>11. ASSUME ~history.shared, e \notin history.moved
       PROVE  /\ \A f \in Experts : data[f] = manifest.data[f]
              /\ BoundTo(t.bound, t.smoke) /\ read = {manifest.data[e]}
  <2>1. PICK old : old = trainer[c]
    OBVIOUS
  <2>2. /\ old.e = e /\ old.pc = "steps" /\ old.steps # 0 /\ OnFrozen(c)
    BY <1>1, <1>2, <1>11, <2>1, ChildFacts, HandoffAssumption
  <2>3. /\ \A f \in Experts : data[f] = manifest.data[f]
        /\ BoundTo(old.bound, old.smoke)
        /\ old.read = IF old.steps = 0 THEN {} ELSE {manifest.data[old.e]}
    BY <1>11, <2>1, <2>2 DEF OnFrozen
  <2> QED
    BY <1>3, <1>9, <2>1, <2>2, <2>3
<1>12. ChildStep(c, t)
  BY <1>1, <1>2, <1>5, <1>7, <1>9, <1>10, <1>11, ChildFacts DEF ChildStep, rest, handoffFiles
<1>13. ASSUME ~history.shared PROVE OnFrozen(c)'
  <2>1. trainer'[c] = t /\ UNCHANGED <<data, manifest, history>>
    BY <1>1, <1>10 DEF Child, FrozenInv, Records, rest, handoffFiles
  <2>2. e \notin history.moved => BoundTo(t.bound, t.smoke)'
    BY <1>11, <1>13, <2>1 DEF BoundTo
  <2> QED
    BY <1>5, <1>7, <1>9, <1>11, <1>13, <2>1, <2>2 DEF OnFrozen
<1> QED
  BY <1>12, <1>13, ChildStepKeeps

LEMMA MetadataKeepsFrozen ==
  ASSUME FrozenInv, LockInv, NEW c \in Launches, SaveMetadata(c)
  PROVE  FrozenInv'
<1>1. trainer[c].pc = "saved" /\ UNCHANGED rest
  BY DEF SaveMetadata
<1>2. PICK e \in Experts : e = trainer[c].e
  BY <1>1, ChildFacts
<1>3. PICK b, s : b = trainer[c].bound /\ s = trainer[c].smoke
  OBVIOUS
<1>4. PICK a : a = [adapters[e] EXCEPT !.bound = b, !.smoke = s]
  OBVIOUS
<1>5. /\ DOMAIN a = {"weights", "bound", "smoke"} /\ a.weights = adapters[e].weights
      /\ a.bound = b /\ a.smoke = s
  BY <1>1, <1>4, ChildFacts
<1>6. adapters' = [adapters EXCEPT ![e] = a]
  BY <1>1, <1>2, <1>3, <1>4, ChildFacts DEF SaveMetadata
<1>7. /\ DOMAIN adapters' = Experts /\ adapters'[e] = a
      /\ \A x \in Experts : x # e => adapters'[x] = adapters[x]
  BY <1>1, <1>6, ChildFacts
<1>8. PICK t : t = [trainer[c] EXCEPT !.pc = "done"]
  OBVIOUS
<1>9. /\ DOMAIN t = ChildFields /\ t.steps = trainer[c].steps /\ t.e = e /\ t.pc = "done"
      /\ t.bound = b /\ t.smoke = s
  BY <1>1, <1>2, <1>3, <1>8, ChildFacts DEF ChildFields
<1>10. Child(c, t)
  BY <1>8 DEF SaveMetadata
<1>11. ASSUME ~history.shared, e \notin history.moved
       PROVE  /\ \A f \in Experts : data[f] = manifest.data[f]
              /\ BoundTo(b, s) /\ adapters[e].weights = {manifest.data[e]}
  <2>1. PICK old : old = trainer[c]
    OBVIOUS
  <2>2. /\ old.e = e /\ old.pc = "saved" /\ OnFrozen(c)
    BY <1>1, <1>2, <1>11, <2>1, ChildFacts
  <2>3. /\ \A f \in Experts : data[f] = manifest.data[f]
        /\ BoundTo(old.bound, old.smoke) /\ adapters[old.e].weights = {manifest.data[old.e]}
    BY <1>11, <2>1, <2>2 DEF OnFrozen
  <2> QED
    BY <1>3, <2>1, <2>2, <2>3
<1>12. ChildStep(c, t)
  BY <1>1, <1>2, <1>5, <1>7, <1>9, <1>10, <1>11, ChildFacts DEF ChildStep, rest, handoffFiles
<1>13. ASSUME ~history.shared PROVE OnFrozen(c)'
  <2>1. trainer'[c] = t /\ UNCHANGED <<data, manifest, history>>
    BY <1>1, <1>10 DEF Child, FrozenInv, Records, rest, handoffFiles
  <2>2. /\ BoundTo(t.bound, t.smoke)' = BoundTo(b, s)
        /\ BoundTo(adapters[e].bound, adapters[e].smoke)' = BoundTo(b, s)
    BY <1>5, <1>7, <1>9, <2>1 DEF BoundTo
  <2> QED
    BY <1>5, <1>7, <1>9, <1>11, <1>13, <2>1, <2>2 DEF OnFrozen
<1> QED
  BY <1>12, <1>13, ChildStepKeeps

LEMMA OrphanKeepsFrozen ==
  ASSUME FrozenInv, LockInv, NEW c \in Launches, OrphanEnds(c)
  PROVE  FrozenInv'
<1>1. /\ trainer[c].pc # "none" /\ Child(c, NoChild)
      /\ UNCHANGED <<status, run, data, manifest, adapters, history>>
  BY DEF OrphanEnds, rest, handoffFiles
<1>2. \A d \in Launches : d # c => trainer[d].pc = "none"
  BY <1>1, NoOtherChild DEF Holder
<1>3. /\ DOMAIN trainer' = Launches /\ trainer'[c] = NoChild
      /\ \A d \in Launches : d # c => trainer'[d] = trainer[d]
  BY <1>1 DEF Child, FrozenInv, Records
<1>4. Records'
  BY SMTT(30), <1>1, <1>3 DEF FrozenInv, Records, NoChild, ChildFields
<1>5. \A d \in Launches : trainer'[d].pc = "none"
  BY <1>2, <1>3 DEF NoChild
<1>6. ASSUME ~history.shared
      PROVE  Owned' /\ \A d \in Launches : InStep(d)' /\ OnFrozen(d)'
  BY <1>1, <1>5, <1>6 DEF FrozenInv, Owned, InStep, OnFrozen, Alive
<1>7. TrainedOnFrozenData'
  <2>1. CompleteJobs(status)' = CompleteJobs(status)
    BY <1>1 DEF CompleteJobs
  <2> HIDE DEF CompleteJobs
  <2> QED
    BY <1>1, <2>1 DEF FrozenInv, TrainedOnFrozenData
<1> QED
  BY <1>1, <1>4, <1>6, <1>7 DEF FrozenInv

\* Around the coordinators files may be replaced, which takes every job that runs out of the claim.
LEMMA AroundStep ==
  ASSUME FrozenInv, UNCHANGED <<status, run, trainer, adapters, manifest>>, DOMAIN data' = Experts,
         DOMAIN history' = DOMAIN history, history'.shared = history.shared,
         history.moved \subseteq history'.moved,
         data' = data \/ \A c \in Launches : trainer[c].pc # "none" => trainer[c].e \in history'.moved
  PROVE  FrozenInv'
<1>1. Records'
  BY DEF FrozenInv, Records
<1>2. ASSUME ~history.shared
      PROVE  Owned' /\ \A c \in Launches : InStep(c)' /\ OnFrozen(c)'
  <2>1. Owned' /\ \A c \in Launches : InStep(c)'
    BY <1>2 DEF FrozenInv, Owned, InStep, Alive
  <2>2. CASE data' = data
    BY <1>2, <2>1, <2>2, OnFrozenKept DEF FrozenInv
  <2>3. CASE \A c \in Launches : trainer[c].pc # "none" => trainer[c].e \in history'.moved
    BY <2>1, <2>3 DEF OnFrozen
  <2> QED
    BY <2>1, <2>2, <2>3
<1>3. TrainedOnFrozenData'
  <2>1. CompleteJobs(status)' = CompleteJobs(status)
    BY DEF CompleteJobs
  <2> HIDE DEF CompleteJobs
  <2> QED
    BY <2>1 DEF FrozenInv, TrainedOnFrozenData
<1> QED
  BY <1>1, <1>2, <1>3 DEF FrozenInv

LEMMA AroundKeepsFrozen ==
  ASSUME FrozenInv,
         \/ \E e \in Experts : ReplaceFile(e)
         \/ PublishSnapshot \/ AutomationMoves \/ SmokeStart
         \/ \E passed \in BOOLEAN : SmokeEnd(passed)
         \/ UNCHANGED vars
  PROVE  FrozenInv'
<1>0. /\ UNCHANGED <<status, run, trainer, adapters, manifest>>
  BY DEF ReplaceFile, PublishSnapshot, AutomationMoves, SmokeStart, SmokeEnd, unmoved, vars, handoffFiles
<1>1. /\ DOMAIN data = Experts
      /\ DOMAIN history = {"shared", "moved", "changes", "crashes", "smokes", "triggered"}
      /\ \A c \in Launches : trainer[c].pc # "none" => trainer[c].e \in Experts
  BY DEF FrozenInv, Records
<1>2. ASSUME Moved
      PROVE  /\ DOMAIN history' = DOMAIN history /\ history'.shared = history.shared
             /\ history.moved \subseteq history'.moved
             /\ \A c \in Launches : trainer[c].pc # "none" => trainer[c].e \in history'.moved
  <2>1. PICK out : out = history.moved \cup ({trainer[c].e : c \in Launches} \cap Experts)
    OBVIOUS
  <2>2. history' = [history EXCEPT !.changes = @ + 1, !.moved = out]
    BY <1>1, <1>2, <2>1 DEF Moved
  <2> QED
    BY <1>1, <2>1, <2>2
<1>3. ASSUME NEW e \in Experts, ReplaceFile(e) PROVE FrozenInv'
  <2>1. DOMAIN data' = Experts /\ Moved
    BY <1>1, <1>3 DEF ReplaceFile
  <2> QED
    BY <1>0, <1>2, <2>1, AroundStep
<1>4. CASE PublishSnapshot
  <2>1. data' = data /\ Moved
    BY <1>4 DEF PublishSnapshot
  <2> QED
    BY <1>0, <1>1, <1>2, <2>1, AroundStep
<1>5. CASE AutomationMoves \/ SmokeStart \/ (\E passed \in BOOLEAN : SmokeEnd(passed)) \/ UNCHANGED vars
  <2>1. /\ data' = data /\ DOMAIN history' = DOMAIN history
        /\ history'.shared = history.shared /\ history'.moved = history.moved
    <3>1. CASE AutomationMoves
      BY <1>1, <3>1 DEF AutomationMoves, Reached
    <3>2. CASE SmokeStart
      BY <1>1, <3>2 DEF SmokeStart
    <3> QED
      BY <1>5, <3>1, <3>2 DEF SmokeEnd, vars
  <2> QED
    BY <1>0, <1>1, <2>1, AroundStep
<1> QED
  BY <1>3, <1>4, <1>5

LEMMA FrozenInductive == LockInv /\ FrozenInv /\ [Next]_vars => FrozenInv'
<1> SUFFICES ASSUME LockInv, FrozenInv, [Next]_vars PROVE FrozenInv'
  OBVIOUS
<1>1. ASSUME NEW c \in Launches,
             \/ \E live, train \in BOOLEAN : Launch(c, live, train)
             \/ StageRun(c) \/ (\E exported \in BOOLEAN : StagePassed(c, exported))
             \/ Decide(c) \/ Distill(c) \/ ClassifyTerminal(c)
             \/ ReadFile(c) \/ HashFile(c) \/ JudgeSnapshot(c)
      PROVE  FrozenInv'
  BY <1>1, LaunchKeepsFrozen, RampKeepsFrozen, WaitKeepsFrozen, ReadKeepsFrozen
<1>2. ASSUME NEW c \in Launches,
             \/ RecoverHandoff(c) \/ WriteManifest(c) \/ WriteSidecar(c) \/ RecordHandoff(c)
             \/ TrainGate(c) \/ TakeLock(c) \/ StartJob(c) \/ JobEnds(c) \/ LeaveLock(c) \/ Finish(c)
             \/ Crash(c) \/ Interrupt(c)
      PROVE  FrozenInv'
  BY <1>2, FreezeKeepsFrozen, SectionKeepsFrozen, StartKeepsFrozen, EndsKeepsFrozen,
     InterruptKeepsFrozen
<1>3. ASSUME NEW c \in Launches,
             \/ TrainCheck(c) \/ TrainLoad(c) \/ TrainStep(c)
             \/ SaveWeights(c) \/ SaveMetadata(c) \/ OrphanEnds(c)
      PROVE  FrozenInv'
  BY <1>3, CheckKeepsFrozen, LoadKeepsFrozen, StepKeepsFrozen, WeightsKeepFrozen,
     MetadataKeepsFrozen, OrphanKeepsFrozen
<1> QED
  BY <1>1, <1>2, <1>3, AroundKeepsFrozen DEF Next

\* While coordinators do not overlap, every adapter whose job the saved status calls complete
\* holds weights of the frozen file only, with metadata bound to the frozen snapshot, unless a
\* file moved while it was trained.
THEOREM TrainedOnFrozenAlways == Spec => []TrainedOnFrozenData
<1>1. FrozenInv => TrainedOnFrozenData
  BY DEF FrozenInv
<1>2. LockInv /\ FrozenInv /\ [Next]_vars => LockInv' /\ FrozenInv'
  BY LockInductive, FrozenInductive
<1> QED
  BY InitLock, InitFrozen, <1>1, <1>2, PTL DEF Spec

\* A handoff that the status records is never written again: the only steps that write the two
\* files come before it is recorded.
THEOREM HandoffStays == Spec => HandoffNeverReplaced
<1>1. FrozenInv /\ [Next]_vars => [status.handoff /\ ~history.shared' => UNCHANGED handoffFiles]_vars
  <2> SUFFICES ASSUME FrozenInv, Next, status.handoff, ~history.shared', ~UNCHANGED handoffFiles
               PROVE  FALSE
    OBVIOUS
  <2>1. PICK c \in Launches : WriteManifest(c) \/ WriteSidecar(c)
    <3> USE DEF handoffFiles, rest, unmoved
    <3>1. ASSUME NEW c \in Launches,
                 \/ \E live, train \in BOOLEAN : Launch(c, live, train)
                 \/ StageRun(c) \/ (\E exported \in BOOLEAN : StagePassed(c, exported))
                 \/ Decide(c) \/ Distill(c) \/ ClassifyTerminal(c)
                 \/ ReadFile(c) \/ HashFile(c) \/ JudgeSnapshot(c)
                 \/ RecoverHandoff(c) \/ RecordHandoff(c)
                 \/ TrainGate(c) \/ TakeLock(c) \/ StartJob(c) \/ JobEnds(c) \/ LeaveLock(c) \/ Finish(c)
                 \/ Crash(c) \/ Interrupt(c)
                 \/ TrainCheck(c) \/ TrainLoad(c) \/ TrainStep(c)
                 \/ SaveWeights(c) \/ SaveMetadata(c) \/ OrphanEnds(c)
          PROVE  UNCHANGED handoffFiles
      BY <3>1 DEF Launch, StageRun, StagePassed, Decide, Distill, ClassifyTerminal, ReadFile, HashFile,
         JudgeSnapshot, RecoverHandoff, RecordHandoff, TrainGate, TakeLock, StartJob, JobEnds, LeaveLock,
         Finish, Crash, Interrupt, TrainCheck, TrainLoad, TrainStep, SaveWeights, SaveMetadata, OrphanEnds
    <3>2. ASSUME \/ \E e \in Experts : ReplaceFile(e)
                 \/ PublishSnapshot \/ AutomationMoves \/ SmokeStart
                 \/ \E passed \in BOOLEAN : SmokeEnd(passed)
          PROVE  UNCHANGED handoffFiles
      BY <3>2 DEF ReplaceFile, PublishSnapshot, AutomationMoves, SmokeStart, SmokeEnd
    <3> QED
      BY <3>1, <3>2 DEF Next
  <2>2. history'.shared = history.shared /\ Alive(c)
    BY <2>1 DEF WriteManifest, WriteSidecar, world, Alive
  <2>3. InStep(c)
    BY <2>2 DEF FrozenInv
  <2> QED
    BY <2>1, <2>2, <2>3 DEF InStep, WriteManifest, WriteSidecar
<1>2. LockInv /\ FrozenInv /\ [Next]_vars => LockInv' /\ FrozenInv'
  BY LockInductive, FrozenInductive
<1> QED
  BY InitLock, InitFrozen, <1>1, <1>2, PTL DEF Spec, HandoffNeverReplaced
==============================================================================
