--------------------------- MODULE UsageLedgerProofs ---------------------------
(***************************************************************************)
(* Theorems about UsageLedger for every number of workers, every budget,    *)
(* every pair of flush intervals and any number of crashes.                 *)
(***************************************************************************)
EXTENDS UsageLedger, FiniteSetTheorems, TLAPS

(* The relations between the counters that every action keeps.  The runner   *)
(* may spend exactly what the epoch had left when the process started; the   *)
(* file and the unsaved group make up the counters in memory; every attempt  *)
(* is in status.json, in the memory of the live process, or was lost.        *)
Counters ==
  /\ used + limit = MaxRequests + baseline
  /\ limit <= MaxRequests
  /\ logical <= limit /\ wire <= limit
  /\ baseline <= Larger(logical, wire)
  /\ tokenBaseline <= wireTokens

Ledger ==
  /\ diskUsed + unsaved = used
  /\ diskTokens + unsavedTokens = usedTokens
  /\ unsaved < RequestInterval

Accounting ==
  /\ up => sent + limit <= lost + MaxRequests + wire
  /\ ~up => sent <= lost + diskUsed

IInv == TypeOK /\ Counters /\ Ledger /\ Accounting

-------------------------------------------------------------------------------
(* Linear arithmetic, stated over constants: the provers decide it at once   *)
(* there and not at all under primed state variables.                        *)
LEMMA Constants ==
  /\ MaxRequests \in Nat /\ MaxOutputTokens \in Nat /\ MaxRetries \in Nat
  /\ StageJobs \in Nat /\ AnswerTokens \subseteq Nat
  /\ RequestInterval \in Nat /\ RequestInterval > 0
BY UsageAssumption

LEMMA MoveBaseline ==
  ASSUME NEW u \in Nat, NEW b \in Nat, NEW s \in Nat, NEW l \in Nat, NEW m \in Nat,
         u + l = m + b
  PROVE  (u + (s - b)) + l = m + s
OBVIOUS

LEMMA Charge ==
  ASSUME NEW d \in Nat, NEW n \in Nat, NEW u \in Nat, NEW b \in Nat, NEW s \in Nat,
         d + n = u, b <= s
  PROVE  /\ u + (s - b) \in Nat /\ n + (s - b) \in Nat
         /\ d + (n + (s - b)) = u + (s - b)
         /\ u + (s - b) >= d
OBVIOUS

LEMMA Leftover ==
  ASSUME NEW sent1 \in Nat, NEW lost1 \in Nat, NEW m \in Nat, NEW w \in Nat,
         NEW l \in Nat, NEW d \in Nat,
         sent1 + l <= lost1 + m + w, l <= m
  PROVE  /\ Larger(0, (m - l + w) - d) \in Nat
         /\ sent1 <= (lost1 + Larger(0, (m - l + w) - d)) + d
BY DEF Larger

LEMMA Remaining ==
  ASSUME NEW d \in Nat, NEW m \in Nat, d <= m
  PROVE  /\ Larger(0, m - d) \in Nat /\ Larger(0, m - d) <= m
         /\ d + Larger(0, m - d) = m
BY DEF Larger

LEMMA Grown ==
  ASSUME NEW a \in Nat, NEW b \in Nat, NEW d \in Nat, NEW e \in Nat,
         a <= b + d, e >= d
  PROVE  a <= b + e
OBVIOUS

LEMMA Smaller ==
  ASSUME NEW a \in Nat, NEW b \in Nat, a < b
  PROVE  a + 1 \in Nat /\ a <= a + 1 /\ a + 1 <= b
OBVIOUS

LEMMA Widen ==
  ASSUME NEW b \in Nat, NEW l \in Nat, NEW w \in Nat, NEW x \in Nat,
         b <= Larger(l, w), w <= x
  PROVE  b <= Larger(l, x)
BY DEF Larger

LEMMA Shift ==
  ASSUME NEW a \in Nat, NEW b \in Nat, NEW c \in Nat, NEW d \in Nat, NEW e \in Nat,
         a + b <= c + d + e
  PROVE  (a + 1) + b <= c + d + (e + 1)
OBVIOUS

LEMMA Part ==
  ASSUME NEW a \in Nat, NEW b \in Nat, NEW c \in Nat, a + b = c
  PROVE  c >= a
OBVIOUS

LEMMA Resume ==
  ASSUME NEW s \in Nat, NEW l \in Nat, NEW d \in Nat, NEW r \in Nat, NEW m \in Nat,
         s <= l + d, d + r = m
  PROVE  s + r <= l + m + 0
OBVIOUS

LEMMA Bounded ==
  ASSUME NEW u \in Nat, NEW l \in Nat, NEW m \in Nat, NEW b \in Nat,
         NEW x \in Nat, NEW y \in Nat,
         u + l = m + b, b <= Larger(x, y), x <= l, y <= l
  PROVE  u <= m
BY DEF Larger

LEMMA Overspend ==
  ASSUME NEW s \in Nat, NEW l \in Nat, NEW o \in Nat, NEW m \in Nat, NEW w \in Nat,
         s + l <= o + m + w, w <= l
  PROVE  s <= m + o
OBVIOUS

LEMMA Recorded ==
  ASSUME NEW s \in Nat, NEW o \in Nat, NEW d \in Nat, NEW m \in Nat,
         s <= o + d, d <= m
  PROVE  s <= m + o
OBVIOUS

-------------------------------------------------------------------------------
(* What one checkpoint does to the ledger, due or not.                       *)
LEMMA CheckpointEffect ==
  ASSUME TypeOK, Ledger,
         NEW snapshot \in Nat, NEW tokens \in Nat, NEW force \in BOOLEAN,
         baseline <= snapshot, tokenBaseline <= tokens,
         CheckpointUsage(snapshot, tokens, force)
  PROVE  /\ baseline' = snapshot /\ tokenBaseline' = tokens
         /\ used' = used + (snapshot - baseline)
         /\ used' \in Nat /\ usedTokens' \in Nat
         /\ unsaved' \in Nat /\ unsavedTokens' \in Nat /\ flushed' \in BOOLEAN
         /\ diskUsed' \in Nat /\ diskTokens' \in Nat
         /\ diskUsed' >= diskUsed /\ diskTokens' >= diskTokens
         /\ Ledger'
<1> DEFINE pending       == unsaved + (snapshot - baseline)
           pendingTokens == unsavedTokens + (tokens - tokenBaseline)
<1>1. /\ baseline' = snapshot /\ tokenBaseline' = tokens
      /\ used' = used + (snapshot - baseline)
      /\ usedTokens' = usedTokens + (tokens - tokenBaseline)
  BY DEF CheckpointUsage
<1>2. PICK timer \in BOOLEAN :
           IF FlushDue(pending, pendingTokens, force, timer)
           THEN /\ diskUsed' = used' /\ diskTokens' = usedTokens'
                /\ unsaved' = 0 /\ unsavedTokens' = 0
                /\ flushed' = TRUE
           ELSE /\ unsaved' = pending /\ unsavedTokens' = pendingTokens
                /\ UNCHANGED <<diskUsed, diskTokens, flushed>>
  BY DEF CheckpointUsage
<1>3. /\ used' \in Nat /\ pending \in Nat
      /\ diskUsed + pending = used' /\ used' >= diskUsed
  BY <1>1, Charge DEF TypeOK, Ledger
<1>4. /\ usedTokens' \in Nat /\ pendingTokens \in Nat
      /\ diskTokens + pendingTokens = usedTokens' /\ usedTokens' >= diskTokens
  BY <1>1, Charge DEF TypeOK, Ledger
<1> HIDE DEF pending, pendingTokens
<1>5. CASE FlushDue(pending, pendingTokens, force, timer)
  BY <1>1, <1>2, <1>3, <1>4, <1>5, Constants DEF TypeOK, Ledger
<1>6. CASE ~FlushDue(pending, pendingTokens, force, timer)
  <2>1. pending < RequestInterval
    BY <1>3, <1>4, <1>6, Constants DEF FlushDue
  <2>2. QED
    BY <1>1, <1>2, <1>3, <1>4, <1>6, <2>1 DEF TypeOK, Ledger
<1>7. QED
  BY <1>5, <1>6

(* Any step that only checkpoints the ledger, reserves at most within the    *)
(* limit, and touches no other counter keeps the invariant.                  *)
LEMMA CheckpointStep ==
  ASSUME IInv,
         UNCHANGED <<limit, tokenLimit, wire, wireTokens, up, sent, lost, crashes>>,
         logical' \in Nat, logical <= logical', logical' <= limit,
         NEW force \in BOOLEAN,
         CheckpointUsage(Snapshot(logical', wire), wireTokens, force),
         exhausted' \in BOOLEAN, jobs' \in Nat,
         phase' \in [Workers -> Phases],
         attempt' \in [Workers -> 0 .. MaxRetries]
  PROVE  IInv' /\ diskUsed' >= diskUsed /\ diskTokens' >= diskTokens
<1>0. TypeOK /\ Counters /\ Ledger /\ Accounting
  BY DEF IInv
<1>1. /\ Snapshot(logical', wire) \in Nat
      /\ baseline <= Snapshot(logical', wire)
      /\ tokenBaseline <= wireTokens
  BY <1>0 DEF Snapshot, Larger, TypeOK, Counters
<1>2. /\ baseline' = Snapshot(logical', wire) /\ tokenBaseline' = wireTokens
      /\ used' = used + (Snapshot(logical', wire) - baseline)
      /\ used' \in Nat /\ usedTokens' \in Nat
      /\ unsaved' \in Nat /\ unsavedTokens' \in Nat /\ flushed' \in BOOLEAN
      /\ diskUsed' \in Nat /\ diskTokens' \in Nat
      /\ diskUsed' >= diskUsed /\ diskTokens' >= diskTokens
      /\ Ledger'
  BY <1>0, <1>1, CheckpointEffect DEF TypeOK
<1>3. TypeOK'
  BY <1>0, <1>1, <1>2 DEF TypeOK
<1>4. Counters'
  <2>1. used' + limit = MaxRequests + Snapshot(logical', wire)
    BY <1>0, <1>1, <1>2, Constants, MoveBaseline DEF TypeOK, Counters
  <2>2. baseline' = Larger(logical', wire') /\ baseline' <= Larger(logical', wire')
    BY <1>2, <1>3 DEF Snapshot, TypeOK
  <2>3. tokenBaseline' <= wireTokens'
    BY <1>2, <1>3 DEF TypeOK
  <2>4. limit' <= MaxRequests /\ logical' <= limit' /\ wire' <= limit'
    BY <1>0 DEF Counters
  <2>5. QED
    BY <1>2, <2>1, <2>2, <2>3, <2>4 DEF Counters
<1>5. Accounting'
  <2>1. CASE up
    BY <1>0, <2>1 DEF Accounting
  <2>2. CASE ~up
    <3>1. sent <= lost + diskUsed /\ diskUsed' >= diskUsed
      BY <1>0, <1>2, <2>2 DEF Accounting
    <3>2. sent \in Nat /\ lost \in Nat /\ diskUsed \in Nat /\ diskUsed' \in Nat
      BY <1>0, <1>2 DEF TypeOK
    <3>3. sent <= lost + diskUsed'
      BY <3>1, <3>2, Grown
    <3>4. sent' <= lost' + diskUsed'
      BY <3>3
    <3>5. QED
      BY <2>2, <3>4 DEF Accounting
  <2>3. QED
    BY <2>1, <2>2
<1>6. QED
  BY <1>2, <1>3, <1>4, <1>5 DEF IInv

-------------------------------------------------------------------------------
LEMMA InitIInv == Init => IInv
<1> SUFFICES ASSUME Init PROVE IInv
  OBVIOUS
<1>1. /\ phase \in [Workers -> Phases]
      /\ attempt \in [Workers -> 0 .. MaxRetries]
  BY Constants DEF Init, Phases
<1>2. TypeOK
  BY <1>1, Constants DEF Init, TypeOK
<1>3. Counters
  BY Constants DEF Init, Counters, Larger
<1>4. Ledger
  BY Constants DEF Init, Ledger
<1>5. Accounting
  BY Constants DEF Init, Accounting
<1>6. QED
  BY <1>2, <1>3, <1>4, <1>5 DEF IInv

(* The jobs of the workers: which actions keep the types of phase, attempt.  *)
LEMMA JobTypes ==
  ASSUME TypeOK, NEW w \in Workers, NEW p \in Phases
  PROVE  /\ [phase EXCEPT ![w] = p] \in [Workers -> Phases]
         /\ [attempt EXCEPT ![w] = 0] \in [Workers -> 0 .. MaxRetries]
         /\ attempt[w] < MaxRetries
              => [attempt EXCEPT ![w] = @ + 1] \in [Workers -> 0 .. MaxRetries]
BY Constants DEF TypeOK

(* Actions that move a job and leave every counter of the ledger alone.      *)
LEMMA JobStep ==
  ASSUME IInv,
         UNCHANGED <<limit, tokenLimit, logical, wire, baseline, tokenBaseline,
                     used, usedTokens, unsaved, unsavedTokens, flushed,
                     diskUsed, diskTokens, up, exhausted, sent, lost, crashes>>,
         wireTokens' \in Nat, wireTokens <= wireTokens',
         jobs' \in Nat,
         phase' \in [Workers -> Phases],
         attempt' \in [Workers -> 0 .. MaxRetries]
  PROVE  IInv'
<1>0. TypeOK /\ Counters /\ Ledger /\ Accounting
  BY DEF IInv
<1>1. TypeOK'
  BY <1>0 DEF TypeOK
<1>2. Counters'
  <2>1. tokenBaseline <= wireTokens /\ tokenBaseline \in Nat /\ wireTokens \in Nat
    BY <1>0 DEF TypeOK, Counters
  <2>2. tokenBaseline <= wireTokens'
    BY <2>1
  <2>3. QED
    BY <1>0, <2>2 DEF Counters
<1>3. Ledger' /\ Accounting'
  BY <1>0 DEF Ledger, Accounting
<1>4. QED
  BY <1>1, <1>2, <1>3 DEF IInv

-------------------------------------------------------------------------------
(* One lemma per group of actions: the invariant is kept and status.json     *)
(* never goes back.                                                          *)
Kept == IInv' /\ diskUsed' >= diskUsed /\ diskTokens' >= diskTokens

LEMMA Reflexive == ASSUME NEW n \in Nat PROVE n >= n
OBVIOUS

LEMMA DiskUnchanged ==
  ASSUME TypeOK, UNCHANGED <<diskUsed, diskTokens>>
  PROVE  diskUsed' >= diskUsed /\ diskTokens' >= diskTokens
BY Reflexive DEF TypeOK

LEMMA EventLoopKeeps ==
  ASSUME IInv, NEW w \in Workers, EventLoop(w)
  PROVE  Kept
<1>0. TypeOK /\ Counters
  BY DEF IInv
<1>1. /\ \A p \in Phases : [phase EXCEPT ![w] = p] \in [Workers -> Phases]
      /\ [attempt EXCEPT ![w] = 0] \in [Workers -> 0 .. MaxRetries]
      /\ phase \in [Workers -> Phases] /\ attempt \in [Workers -> 0 .. MaxRetries]
      /\ logical \in Nat /\ limit \in Nat /\ exhausted \in BOOLEAN /\ jobs \in Nat
  BY <1>0, JobTypes DEF TypeOK
<1>2. /\ logical <= limit /\ logical <= logical
      /\ jobs > 0 => jobs - 1 \in Nat
  BY <1>0, <1>1, Reflexive DEF Counters
<1>3. CASE Reserve(w)
  <2>1. /\ logical' = logical + 1 /\ logical < limit
        /\ CheckpointUsage(Snapshot(logical', wire), wireTokens, FALSE)
        /\ phase' = [phase EXCEPT ![w] = "reserved"]
        /\ jobs' = jobs - 1 /\ jobs > 0 /\ exhausted' = exhausted /\ attempt' = attempt
        /\ UNCHANGED <<limit, tokenLimit, wire, wireTokens, up, sent, lost, crashes>>
    BY <1>3 DEF Reserve, TakeJob, limitVars, history
  <2>2. logical' \in Nat /\ logical <= logical' /\ logical' <= limit
    BY <1>1, <2>1, Smaller
  <2>3. /\ phase' \in [Workers -> Phases] /\ attempt' \in [Workers -> 0 .. MaxRetries]
        /\ jobs' \in Nat /\ exhausted' \in BOOLEAN
    BY <1>1, <1>2, <2>1 DEF Phases
  <2>4. QED
    BY <2>1, <2>2, <2>3, CheckpointStep DEF Kept
<1>4. CASE RefuseJob(w)
  <2>1. /\ UNCHANGED <<limit, tokenLimit, logical, wire, wireTokens, baseline,
                       tokenBaseline, used, usedTokens, unsaved, unsavedTokens,
                       flushed, diskUsed, diskTokens, up, exhausted, phase,
                       attempt, sent, lost, crashes>>
        /\ jobs' = jobs - 1 /\ jobs > 0
    BY <1>4 DEF RefuseJob, TakeJob, limitVars, clientVars, ledgerVars, history
  <2>2. /\ phase' \in [Workers -> Phases] /\ attempt' \in [Workers -> 0 .. MaxRetries]
        /\ jobs' \in Nat
    BY <1>1, <1>2, <2>1
  <2>3. wireTokens' \in Nat /\ wireTokens <= wireTokens'
    BY <1>0, <2>1, Reflexive DEF TypeOK
  <2>4. IInv'
    BY <2>1, <2>2, <2>3, JobStep
  <2>5. QED
    BY <1>0, <2>1, <2>4, DiskUnchanged DEF Kept
<1>5. CASE Return(w)
  <2>1. /\ UNCHANGED <<logical, limit, tokenLimit, wire, wireTokens, up, sent,
                       lost, crashes, exhausted, jobs>>
        /\ CheckpointUsage(Snapshot(logical, wire), wireTokens, FALSE)
        /\ attempt' = [attempt EXCEPT ![w] = 0]
    BY <1>5 DEF Return, limitVars, clientVars, history
  <2>2. \E p \in Phases : phase' = [phase EXCEPT ![w] = p]
    BY <1>5 DEF Return, Phases
  <2>3. CheckpointUsage(Snapshot(logical', wire), wireTokens, FALSE)
    BY <2>1
  <2>4. logical' \in Nat /\ logical <= logical' /\ logical' <= limit
    BY <1>1, <1>2, <2>1
  <2>5. /\ phase' \in [Workers -> Phases] /\ attempt' \in [Workers -> 0 .. MaxRetries]
        /\ jobs' \in Nat /\ exhausted' \in BOOLEAN
    BY <1>1, <2>1, <2>2
  <2>6. QED
    BY <2>1, <2>3, <2>4, <2>5, CheckpointStep DEF Kept
<1>6. CASE Stored(w)
  <2>1. /\ UNCHANGED <<logical, limit, tokenLimit, wire, wireTokens, up, sent,
                       lost, crashes, exhausted, jobs, attempt>>
        /\ CheckpointUsage(Snapshot(logical, wire), wireTokens, FALSE)
        /\ phase' = [phase EXCEPT ![w] = "idle"]
    BY <1>6 DEF Stored, limitVars, clientVars, history
  <2>3. CheckpointUsage(Snapshot(logical', wire), wireTokens, FALSE)
    BY <2>1
  <2>4. logical' \in Nat /\ logical <= logical' /\ logical' <= limit
    BY <1>1, <1>2, <2>1
  <2>5. /\ phase' \in [Workers -> Phases] /\ attempt' \in [Workers -> 0 .. MaxRetries]
        /\ jobs' \in Nat /\ exhausted' \in BOOLEAN
    BY <1>1, <2>1 DEF Phases
  <2>6. QED
    BY <2>1, <2>3, <2>4, <2>5, CheckpointStep DEF Kept
<1>7. QED
  BY <1>3, <1>4, <1>5, <1>6 DEF EventLoop

LEMMA ThreadKeeps ==
  ASSUME IInv, NEW w \in Workers, Thread(w)
  PROVE  Kept
<1>0. TypeOK /\ Counters /\ Ledger /\ Accounting
  BY DEF IInv
<1>1. /\ \A p \in Phases : [phase EXCEPT ![w] = p] \in [Workers -> Phases]
      /\ attempt[w] < MaxRetries
           => [attempt EXCEPT ![w] = @ + 1] \in [Workers -> 0 .. MaxRetries]
      /\ attempt \in [Workers -> 0 .. MaxRetries] /\ jobs \in Nat
      /\ wireTokens \in Nat
  BY <1>0, JobTypes DEF TypeOK
<1>2. wireTokens <= wireTokens
  BY <1>1, Reflexive
<1>3. CASE SendAttempt(w)
  <2>1. /\ up /\ wire < limit /\ wire' = wire + 1 /\ sent' = sent + 1
        /\ UNCHANGED <<up, exhausted, attempt, jobs, limit, tokenLimit, logical,
                       wireTokens, baseline, tokenBaseline, used, usedTokens,
                       unsaved, unsavedTokens, flushed, diskUsed, diskTokens,
                       lost, crashes>>
        /\ phase' \in [Workers -> Phases]
    BY <1>1, <1>3 DEF SendAttempt, limitVars, ledgerVars, Phases
  <2>2. /\ wire' \in Nat /\ wire <= wire' /\ wire' <= limit
        /\ sent' \in Nat /\ sent + limit <= lost + MaxRequests + wire
        /\ baseline <= Larger(logical, wire)
    <3>1. wire \in Nat /\ limit \in Nat /\ sent \in Nat
      BY <1>0 DEF TypeOK
    <3>2. sent' \in Nat
      BY <2>1, <3>1
    <3>3. QED
      BY <1>0, <2>1, <3>1, <3>2, Smaller DEF Accounting, Counters
  <2>3. TypeOK'
    BY <1>0, <2>1, <2>2 DEF TypeOK
  <2>4. Counters'
    <3>1. baseline <= Larger(logical, wire')
      BY <1>0, <2>2, Widen DEF TypeOK
    <3>2. QED
      BY <1>0, <2>1, <2>2, <3>1 DEF Counters
  <2>5. Ledger'
    BY <1>0, <2>1 DEF Ledger
  <2>6. Accounting'
    <3>1. (sent + 1) + limit <= lost + MaxRequests + (wire + 1)
      BY <1>0, <2>2, Constants, Shift DEF TypeOK
    <3>2. QED
      BY <2>1, <3>1 DEF Accounting
  <2>7. QED
    BY <1>0, <2>1, <2>3, <2>4, <2>5, <2>6, DiskUnchanged DEF IInv, Kept
<1>4. CASE Answer(w)
  <2>1. PICK n \in AnswerTokens : wireTokens' = wireTokens + n
    BY <1>4 DEF Answer
  <2>2. wireTokens' \in Nat /\ wireTokens <= wireTokens'
    BY <1>1, <2>1, Constants
  <2>3. /\ UNCHANGED <<limit, tokenLimit, logical, wire, baseline, tokenBaseline,
                       used, usedTokens, unsaved, unsavedTokens, flushed,
                       diskUsed, diskTokens, up, exhausted, sent, lost, crashes,
                       jobs, attempt>>
        /\ phase' \in [Workers -> Phases]
    BY <1>1, <1>4 DEF Answer, limitVars, ledgerVars, history, Phases
  <2>4. jobs' \in Nat /\ attempt' \in [Workers -> 0 .. MaxRetries]
    BY <1>1, <2>3
  <2>5. IInv'
    BY <2>2, <2>3, <2>4, JobStep
  <2>6. QED
    BY <1>0, <2>3, <2>5, DiskUnchanged DEF Kept
<1>5. CASE RefuseAttempt(w) \/ RetryableFailure(w) \/ FinalFailure(w)
  <2>1. /\ UNCHANGED <<limit, tokenLimit, logical, wire, wireTokens, baseline,
                       tokenBaseline, used, usedTokens, unsaved, unsavedTokens,
                       flushed, diskUsed, diskTokens, up, exhausted, sent, lost,
                       crashes, jobs>>
        /\ phase' \in [Workers -> Phases]
        /\ attempt' \in [Workers -> 0 .. MaxRetries]
    BY <1>1, <1>5 DEF RefuseAttempt, RetryableFailure, FinalFailure, Phases,
                      limitVars, clientVars, ledgerVars, history
  <2>2. jobs' \in Nat /\ wireTokens' \in Nat /\ wireTokens <= wireTokens'
    BY <1>1, <1>2, <2>1
  <2>3. IInv'
    BY <2>1, <2>2, JobStep
  <2>4. QED
    BY <1>0, <2>1, <2>3, DiskUnchanged DEF Kept
<1>6. QED
  BY <1>3, <1>4, <1>5 DEF Thread

LEMMA StageBoundaryKeeps ==
  ASSUME IInv, StageBoundary
  PROVE  Kept
<1>0. TypeOK /\ Counters
  BY DEF IInv
<1>1. /\ UNCHANGED <<limit, tokenLimit, logical, wire, wireTokens, up, sent, lost,
                     crashes, phase, attempt>>
      /\ CheckpointUsage(Snapshot(logical, wire), wireTokens, TRUE)
      /\ exhausted' \in BOOLEAN
      /\ jobs' = IF exhausted' THEN 0 ELSE StageJobs
  BY DEF StageBoundary, limitVars, clientVars, history, BudgetExhausted
<1>2. CheckpointUsage(Snapshot(logical', wire), wireTokens, TRUE)
  BY <1>1
<1>3. /\ phase' \in [Workers -> Phases] /\ attempt' \in [Workers -> 0 .. MaxRetries]
      /\ jobs' \in Nat
  BY <1>0, <1>1, Constants DEF TypeOK
<1>4. logical' \in Nat /\ logical <= logical' /\ logical' <= limit
  BY <1>0, <1>1, Reflexive DEF TypeOK, Counters
<1>5. QED
  BY <1>1, <1>2, <1>3, <1>4, CheckpointStep DEF Kept

LEMMA EventSaveKeeps ==
  ASSUME IInv, EventSave
  PROVE  Kept
<1>0. TypeOK /\ Counters /\ Ledger /\ Accounting
  BY DEF IInv
<1>1. /\ UNCHANGED <<up, exhausted, phase, attempt, jobs, limit, tokenLimit,
                     logical, wire, wireTokens, baseline, tokenBaseline, used,
                     usedTokens, sent, lost, crashes>>
      /\ diskUsed' = used /\ diskTokens' = usedTokens
      /\ unsaved' = 0 /\ unsavedTokens' = 0 /\ flushed' = TRUE /\ up
  BY DEF EventSave, jobVars, limitVars, clientVars, history
<1>2. TypeOK'
  BY <1>0, <1>1 DEF TypeOK
<1>3. Counters'
  BY <1>0, <1>1 DEF Counters
<1>4. Ledger'
  BY <1>0, <1>1, <1>2, Constants DEF Ledger, TypeOK
<1>5. Accounting'
  BY <1>0, <1>1 DEF Accounting
<1>6. diskUsed' >= diskUsed /\ diskTokens' >= diskTokens
  <2>1. /\ used >= diskUsed /\ usedTokens >= diskTokens
    BY <1>0, Part DEF TypeOK, Ledger
  <2>2. QED
    BY <1>1, <2>1
<1>7. QED
  BY <1>2, <1>3, <1>4, <1>5, <1>6 DEF IInv, Kept

LEMMA CrashKeeps ==
  ASSUME IInv, Crash
  PROVE  Kept
<1>0. TypeOK /\ Counters /\ Ledger /\ Accounting
  BY DEF IInv
<1>1. /\ UNCHANGED <<exhausted, phase, attempt, jobs, limit, tokenLimit,
                     logical, wire, wireTokens, baseline, tokenBaseline, used,
                     usedTokens, unsaved, unsavedTokens, flushed, diskUsed,
                     diskTokens, sent>>
      /\ up /\ up' = FALSE /\ crashes' = crashes + 1
      /\ lost' = lost + Larger(0, (MaxRequests - limit + wire) - diskUsed)
  BY DEF Crash, Attempted, jobVars, limitVars, clientVars, ledgerVars
<1>2. /\ Larger(0, (MaxRequests - limit + wire) - diskUsed) \in Nat
      /\ sent <= (lost + Larger(0, (MaxRequests - limit + wire) - diskUsed)) + diskUsed
  BY <1>0, <1>1, Constants, Leftover DEF TypeOK, Counters, Accounting
<1>3. lost' \in Nat /\ crashes' \in Nat
  <2>1. lost \in Nat /\ crashes \in Nat
    BY <1>0 DEF TypeOK
  <2>2. QED
    BY <1>1, <1>2, <2>1
<1>4. TypeOK'
  BY <1>0, <1>1, <1>3 DEF TypeOK
<1>5. Counters' /\ Ledger'
  BY <1>0, <1>1 DEF Counters, Ledger
<1>6. Accounting'
  BY <1>1, <1>2 DEF Accounting
<1>7. QED
  BY <1>0, <1>1, <1>4, <1>5, <1>6, DiskUnchanged DEF IInv, Kept

LEMMA RestartKeeps ==
  ASSUME IInv, Restart
  PROVE  Kept
<1>0. TypeOK /\ Counters /\ Ledger /\ Accounting
  BY DEF IInv
<1>1. diskUsed <= MaxRequests
  <2>1. used <= MaxRequests
    BY <1>0, Constants, Bounded DEF TypeOK, Counters
  <2>2. used >= diskUsed
    BY <1>0, Part DEF TypeOK, Ledger
  <2>3. used \in Nat /\ diskUsed \in Nat
    BY <1>0 DEF TypeOK
  <2>4. QED
    BY <2>1, <2>2, <2>3, Constants
<1>2. /\ limit' = Larger(0, MaxRequests - diskUsed)
      /\ tokenLimit' = Larger(0, MaxOutputTokens - diskTokens)
      /\ logical' = 0 /\ wire' = 0 /\ wireTokens' = 0
      /\ baseline' = 0 /\ tokenBaseline' = 0
      /\ used' = diskUsed /\ usedTokens' = diskTokens
      /\ unsaved' = 0 /\ unsavedTokens' = 0 /\ flushed' = FALSE
      /\ UNCHANGED <<diskUsed, diskTokens, sent, lost, crashes>>
      /\ ~up /\ up' = TRUE /\ jobs' = StageJobs /\ exhausted' \in BOOLEAN
  BY <1>0 DEF Restart, history, BudgetExhausted, TypeOK
<1>3. /\ limit' \in Nat /\ limit' <= MaxRequests /\ diskUsed + limit' = MaxRequests
      /\ tokenLimit' \in Nat
  <2>1. diskUsed \in Nat /\ diskTokens \in Nat
    BY <1>0 DEF TypeOK
  <2>2. tokenLimit' \in Nat
    BY <1>2, <2>1, Constants DEF Larger
  <2>3. QED
    BY <1>1, <1>2, <2>1, <2>2, Constants, Remaining
<1>4. /\ phase' \in [Workers -> Phases]
      /\ attempt' \in [Workers -> 0 .. MaxRetries]
  BY Constants DEF Restart, Phases
<1>5. TypeOK'
  BY <1>0, <1>2, <1>3, <1>4, Constants DEF TypeOK
<1>6. Counters'
  <2>1. used' + limit' = MaxRequests + baseline'
    BY <1>2, <1>3, Constants
  <2>2. QED
    BY <1>2, <1>3, <2>1 DEF Counters, Larger
<1>7. Ledger'
  <2>1. diskUsed \in Nat /\ diskTokens \in Nat
    BY <1>0 DEF TypeOK
  <2>2. diskUsed' + unsaved' = used' /\ diskTokens' + unsavedTokens' = usedTokens'
    BY <1>2, <2>1
  <2>3. QED
    BY <1>2, <2>2, Constants DEF Ledger
<1>8. Accounting'
  <2>1. sent <= lost + diskUsed
    BY <1>0, <1>2 DEF Accounting
  <2>2. sent + limit' <= lost + MaxRequests + 0
    BY <1>0, <1>3, <2>1, Constants, Resume DEF TypeOK
  <2>3. QED
    BY <1>2, <2>2 DEF Accounting
<1>9. QED
  BY <1>0, <1>2, <1>5, <1>6, <1>7, <1>8, DiskUnchanged DEF IInv, Kept

LEMMA NextKeeps ==
  ASSUME IInv, [Next]_vars
  PROVE  Kept
<1>1. CASE \E w \in Workers : EventLoop(w) \/ Thread(w)
  BY <1>1, EventLoopKeeps, ThreadKeeps
<1>2. CASE StageBoundary
  BY <1>2, StageBoundaryKeeps
<1>3. CASE EventSave
  BY <1>3, EventSaveKeeps
<1>4. CASE Crash
  BY <1>4, CrashKeeps
<1>5. CASE Restart
  BY <1>5, RestartKeeps
<1>6. CASE UNCHANGED vars
  <2>1. /\ UNCHANGED <<limit, tokenLimit, logical, wire, wireTokens, baseline,
                       tokenBaseline, used, usedTokens, unsaved, unsavedTokens,
                       flushed, diskUsed, diskTokens, up, exhausted, sent, lost,
                       crashes, jobs, phase, attempt>>
    BY <1>6 DEF vars
  <2>2. TypeOK
    BY DEF IInv
  <2>3. /\ jobs' \in Nat /\ wireTokens' \in Nat /\ wireTokens <= wireTokens'
        /\ phase' \in [Workers -> Phases]
        /\ attempt' \in [Workers -> 0 .. MaxRetries]
    BY <2>1, <2>2, Reflexive DEF TypeOK
  <2>4. IInv'
    BY <2>1, <2>3, JobStep
  <2>5. QED
    BY <2>1, <2>2, <2>4, DiskUnchanged DEF Kept
<1>7. QED
  BY <1>1, <1>2, <1>3, <1>4, <1>5, <1>6 DEF Next

LEMMA Inductive == Spec => []IInv
<1>1. IInv /\ [Next]_vars => IInv'
  BY NextKeeps DEF Kept
<1>2. QED
  BY InitIInv, <1>1, PTL DEF Spec

-------------------------------------------------------------------------------
(* Every variable keeps its type: in particular no subtraction of            *)
(* _sync_usage ever makes a counter negative.                                *)
THEOREM TypeCorrect == Spec => []TypeOK
<1>1. IInv => TypeOK
  BY DEF IInv
<1>2. QED
  BY Inductive, <1>1, PTL

(* The budget of the epoch is never exceeded by what the runner counts, for  *)
(* any budget, any number of workers and retries, and any crash schedule     *)
(* (automation.py:1872-1887, 1454-1492).                                     *)
THEOREM BudgetIsNeverExceeded == Spec => []EpochWithinBudget
<1>1. ASSUME IInv PROVE EpochWithinBudget
  <2>0. TypeOK /\ Counters /\ Ledger
    BY <1>1 DEF IInv
  <2>1. used <= MaxRequests
    BY <2>0, Constants, Bounded DEF TypeOK, Counters
  <2>2. used >= diskUsed /\ used \in Nat /\ diskUsed \in Nat
    BY <2>0, Part DEF TypeOK, Ledger
  <2>3. diskUsed <= used
    BY <2>2
  <2>4. QED
    BY <2>1, <2>3 DEF EpochWithinBudget
<1>2. QED
  BY Inductive, <1>1, PTL

(* The provider is asked more than the budget allows only as often as        *)
(* crashes hid attempts from status.json: no interleaving of retries,        *)
(* reservations and checkpoints overspends by itself.                        *)
THEOREM OverspendNeedsACrash == Spec => []SpendAccounted
<1>1. ASSUME IInv PROVE SpendAccounted
  <2>0. TypeOK /\ Counters /\ Ledger /\ Accounting
    BY <1>1 DEF IInv
  <2>1. CASE up
    <3>1. sent + limit <= lost + MaxRequests + wire /\ wire <= limit
      BY <2>0, <2>1 DEF Accounting, Counters
    <3>2. QED
      BY <2>0, <3>1, Constants, Overspend DEF TypeOK, SpendAccounted
  <2>2. CASE ~up
    <3>1. used <= MaxRequests
      BY <2>0, Constants, Bounded DEF TypeOK, Counters
    <3>2. used >= diskUsed /\ used \in Nat /\ diskUsed \in Nat
      BY <2>0, Part DEF TypeOK, Ledger
    <3>3. diskUsed <= MaxRequests
      BY <3>1, <3>2, Constants
    <3>4. sent <= lost + diskUsed
      BY <2>0, <2>2 DEF Accounting
    <3>5. QED
      BY <2>0, <3>3, <3>4, Constants, Recorded DEF TypeOK, SpendAccounted
  <2>3. QED
    BY <2>1, <2>2
<1>2. QED
  BY Inductive, <1>1, PTL

(* Usage that reached status.json is never reported smaller again, over      *)
(* every flush, crash and restart.                                           *)
THEOREM UsageIsNeverForgotten == Spec => PersistedUsageGrows
<1>1. IInv /\ [Next]_vars => [diskUsed' >= diskUsed /\ diskTokens' >= diskTokens]_vars
  BY NextKeeps DEF Kept
<1>2. QED
  BY Inductive, <1>1, PTL DEF Spec, PersistedUsageGrows

-------------------------------------------------------------------------------
(* What a crash can hide.  The attempts a job has made since its last        *)
(* callback are counted one by one: the pair <<w, i>> is the i-th of w.      *)

Made(w) == attempt[w] + (IF phase[w] \in {"wire", "answered", "failed"} THEN 1 ELSE 0)
Attempts == Workers \X (1 .. MaxRetries + 1)
Unreported == {p \in Attempts : p[2] <= Made(p[1])}

(* The counter of the threads is ahead of the last checkpoint by no more     *)
(* than those, whoever made that checkpoint.                                 *)
Ahead == wire <= baseline + Cardinality(Unreported)

GapInv == IInv /\ Ahead /\ CrashGapBounded

LEMMA AttemptsFinite ==
  /\ IsFiniteSet(Attempts)
  /\ Cardinality(Attempts) = Cardinality(Workers) * (MaxRetries + 1)
  /\ Cardinality(Workers) \in Nat
<1>1. /\ IsFiniteSet(1 .. MaxRetries + 1) /\ Cardinality(1 .. MaxRetries + 1) = MaxRetries + 1
  BY Constants, FS_Interval
<1>2. IsFiniteSet(Workers) /\ Cardinality(Workers) \in Nat
  BY UsageAssumption, FS_CardinalityType
<1> QED
  BY <1>1, <1>2, FS_Product DEF Attempts

LEMMA UnreportedBound ==
  /\ IsFiniteSet(Unreported) /\ Cardinality(Unreported) \in Nat
  /\ Cardinality(Unreported) <= Cardinality(Workers) * (MaxRetries + 1)
<1>1. Unreported \subseteq Attempts
  BY DEF Unreported
<1> QED
  BY <1>1, AttemptsFinite, FS_Subset, FS_CardinalityType

LEMMA UnreportedBoundNext ==
  /\ IsFiniteSet(Unreported') /\ Cardinality(Unreported') \in Nat
<1>1. Unreported' \subseteq Attempts
  BY DEF Unreported, Attempts
<1> QED
  BY <1>1, AttemptsFinite, FS_Subset, FS_CardinalityType

(* A checkpoint leaves nothing ahead of it.                                  *)
LEMMA CheckpointCatchesUp ==
  ASSUME TypeOK, TypeOK', NEW tokens, NEW force \in BOOLEAN, wire' = wire,
         CheckpointUsage(Snapshot(logical', wire), tokens, force)
  PROVE  Ahead'
<1>1. baseline' = Snapshot(logical', wire)
  BY DEF CheckpointUsage
<1>2. wire \in Nat /\ logical' \in Nat
  BY DEF TypeOK
<1>3. wire <= Snapshot(logical', wire) /\ Snapshot(logical', wire) \in Nat
  BY <1>2 DEF Snapshot, Larger
<1> QED
  BY <1>1, <1>2, <1>3, UnreportedBoundNext DEF Ahead

(* A job that moves without a callback does not count fewer attempts.        *)
LEMMA MovesKeepAhead ==
  ASSUME TypeOK, Ahead, wire' = wire, baseline' = baseline,
         Unreported \subseteq Unreported'
  PROVE  Ahead'
<1>1. Cardinality(Unreported) <= Cardinality(Unreported')
  BY UnreportedBoundNext, FS_Subset
<1> QED
  BY <1>1, UnreportedBound, UnreportedBoundNext DEF Ahead, TypeOK

LEMMA MadeGrows ==
  ASSUME \A w \in Workers : Made(w) \in Nat /\ Made(w)' \in Nat /\ Made(w) <= Made(w)'
  PROVE  Unreported \subseteq Unreported'
<1> SUFFICES ASSUME NEW p \in Unreported PROVE p \in Unreported'
  OBVIOUS
<1>1. p \in Attempts /\ p[1] \in Workers /\ p[2] \in Int /\ p[2] <= Made(p[1])
  BY DEF Unreported, Attempts
<1>2. p[2] <= Made(p[1])'
  BY <1>1
<1> QED
  BY <1>1, <1>2 DEF Unreported, Attempts

(* The gap between what was attempted and what is saved: what is ahead of    *)
(* the last checkpoint and the group that was not flushed.                   *)
LEMMA GapOf ==
  ASSUME IInv, Ahead
  PROVE  Attempted - diskUsed <= CrashGap
<1>0. TypeOK /\ Counters /\ Ledger /\ Ahead
  BY DEF IInv
<1>1. PICK a \in Nat : a = Cardinality(Workers) * (MaxRetries + 1)
  BY Constants, AttemptsFinite
<1>2. PICK n \in Nat : n = Cardinality(Unreported) /\ n <= a
  BY <1>1, UnreportedBound
<1>3. /\ wire <= baseline + n
      /\ used + limit = MaxRequests + baseline
      /\ diskUsed + unsaved = used /\ unsaved < RequestInterval
  BY <1>0, <1>2 DEF Ahead, Counters, Ledger
<1>4. (MaxRequests - limit + wire) - diskUsed <= (RequestInterval - 1) + a
  BY <1>0, <1>2, <1>3, Constants DEF TypeOK
<1>5. CrashGap = (RequestInterval - 1) + a
  BY <1>1, Zenon DEF CrashGap
<1>6. Attempted - diskUsed = (MaxRequests - limit + wire) - diskUsed
  BY DEF Attempted
<1> QED
  BY <1>4, <1>5, <1>6

LEMMA InitAhead == Init => Ahead
  BY Constants, UnreportedBound DEF Init, Ahead

LEMMA LoopCatchesUp ==
  ASSUME IInv, IInv', Ahead, NEW w \in Workers, EventLoop(w)
  PROVE  Ahead'
<1>0. TypeOK /\ TypeOK'
  BY DEF IInv
<1>1. CASE Reserve(w)
  <2>1. wire' = wire /\ CheckpointUsage(Snapshot(logical', wire), wireTokens, FALSE)
    BY <1>1 DEF Reserve
  <2> QED
    BY <1>0, <2>1, CheckpointCatchesUp
<1>2. CASE RefuseJob(w)
  <2>1. UNCHANGED <<wire, baseline, phase, attempt>>
    BY <1>2 DEF RefuseJob, clientVars, ledgerVars
  <2>2. Unreported' = Unreported
    BY <2>1 DEF Unreported, Made
  <2> QED
    BY <1>0, <2>1, <2>2, MovesKeepAhead
<1>3. CASE Return(w) \/ Stored(w)
  <2>1. /\ wire' = wire /\ logical' = logical
        /\ CheckpointUsage(Snapshot(logical, wire), wireTokens, FALSE)
    BY <1>3 DEF Return, Stored, clientVars
  <2>2. CheckpointUsage(Snapshot(logical', wire), wireTokens, FALSE)
    BY <2>1
  <2> QED
    BY <1>0, <2>1, <2>2, CheckpointCatchesUp
<1> QED
  BY <1>1, <1>2, <1>3 DEF EventLoop

(* One more request on the wire is one more attempt of its job.              *)
LEMMA SendKeepsAhead ==
  ASSUME IInv, IInv', Ahead, NEW w \in Workers, SendAttempt(w)
  PROVE  Ahead'
<1>0. TypeOK /\ TypeOK'
  BY DEF IInv
<1>1. /\ phase[w] \in {"reserved", "retry"} /\ phase' = [phase EXCEPT ![w] = "wire"]
      /\ wire' = wire + 1 /\ UNCHANGED <<attempt, baseline>>
  BY DEF SendAttempt, ledgerVars
<1>2. PICK a \in 0 .. MaxRetries : a = attempt[w]
  BY <1>0 DEF TypeOK
<1>3. PICK one : one = <<w, a + 1>>
  OBVIOUS
<1>4. /\ phase \in [Workers -> Phases] /\ attempt \in [Workers -> 0 .. MaxRetries]
  BY <1>0 DEF TypeOK
<1>5. Made(w) = a /\ Made(w)' = a + 1
  BY <1>1, <1>2, <1>4 DEF Made
<1>6. \A v \in Workers : v # w => Made(v)' = Made(v)
  BY <1>1, <1>4 DEF Made
<1>7. \A v \in Workers : Made(v) \in Nat
  BY <1>4, Constants DEF Made
<1>8. one \in Attempts /\ one \notin Unreported
  BY <1>2, <1>3, <1>5, Constants DEF Unreported, Attempts
<1>9. Unreported \cup {one} \subseteq Unreported'
  <2>1. Unreported \subseteq Unreported'
    BY <1>2, <1>5, <1>6, <1>7, MadeGrows
  <2>2. one \in Unreported'
    BY <1>2, <1>3, <1>5, <1>8 DEF Unreported, Attempts
  <2> QED
    BY <2>1, <2>2
<1>10. Cardinality(Unreported \cup {one}) = Cardinality(Unreported) + 1
  BY <1>8, UnreportedBound, FS_AddElement
<1>11. Cardinality(Unreported \cup {one}) <= Cardinality(Unreported')
  BY <1>9, UnreportedBoundNext, FS_Subset
<1> QED
  BY <1>0, <1>1, <1>10, <1>11, UnreportedBound, UnreportedBoundNext DEF Ahead, TypeOK

LEMMA ThreadKeepsAhead ==
  ASSUME IInv, IInv', Ahead, NEW w \in Workers, Thread(w)
  PROVE  Ahead'
<1>0. TypeOK /\ TypeOK'
  BY DEF IInv
<1>1. CASE SendAttempt(w)
  BY <1>1, SendKeepsAhead
<1>2. CASE RefuseAttempt(w) \/ Answer(w) \/ RetryableFailure(w) \/ FinalFailure(w)
  <2>1. UNCHANGED <<wire, baseline>>
    BY <1>2 DEF RefuseAttempt, Answer, RetryableFailure, FinalFailure, clientVars, ledgerVars
  <2>2. /\ phase \in [Workers -> Phases] /\ attempt \in [Workers -> 0 .. MaxRetries]
    BY <1>0 DEF TypeOK
  <2>3. PICK p \in Phases :
          /\ phase' = [phase EXCEPT ![w] = p]
          /\ \/ /\ attempt' = attempt /\ p \in {"answered", "failed"}
             \/ /\ attempt' = [attempt EXCEPT ![w] = @ + 1]
                /\ phase[w] = "wire"
    BY <1>2 DEF RefuseAttempt, Answer, RetryableFailure, FinalFailure, Phases
  <2>4. ASSUME NEW v \in Workers
        PROVE  Made(v) \in Nat /\ Made(v)' \in Nat /\ Made(v) <= Made(v)'
    BY <2>2, <2>3, Constants DEF Made
  <2>5. Unreported \subseteq Unreported'
    BY <2>4, MadeGrows
  <2> QED
    BY <1>0, <2>1, <2>5, MovesKeepAhead
<1> QED
  BY <1>1, <1>2 DEF Thread

LEMMA AheadInductive ==
  ASSUME IInv, IInv', Ahead, [Next]_vars
  PROVE  Ahead'
<1>0. TypeOK /\ TypeOK'
  BY DEF IInv
<1>1. CASE \E w \in Workers : EventLoop(w) \/ Thread(w)
  BY <1>1, LoopCatchesUp, ThreadKeepsAhead
<1>2. CASE StageBoundary
  <2>1. /\ wire' = wire /\ logical' = logical
        /\ CheckpointUsage(Snapshot(logical, wire), wireTokens, TRUE)
    BY <1>2 DEF StageBoundary, clientVars
  <2>2. CheckpointUsage(Snapshot(logical', wire), wireTokens, TRUE)
    BY <2>1
  <2> QED
    BY <1>0, <2>1, <2>2, CheckpointCatchesUp
<1>3. CASE EventSave \/ Crash \/ UNCHANGED vars
  <2>1. UNCHANGED <<wire, baseline, phase, attempt>>
    BY <1>3 DEF EventSave, Crash, vars, clientVars, ledgerVars, jobVars
  <2>2. Unreported' = Unreported
    BY <2>1 DEF Unreported, Made
  <2> QED
    BY <1>0, <2>1, <2>2, MovesKeepAhead
<1>4. CASE Restart
  <2>1. wire' = 0 /\ baseline' = 0
    BY <1>4 DEF Restart
  <2> QED
    BY <2>1, UnreportedBoundNext DEF Ahead
<1> QED
  BY <1>1, <1>2, <1>3, <1>4 DEF Next

LEMMA GapIsNatural == CrashGap \in Nat
<1>1. PICK a \in Nat : a = Cardinality(Workers) * (MaxRetries + 1)
  BY Constants, AttemptsFinite
<1>2. CrashGap = (RequestInterval - 1) + a
  BY <1>1, Zenon DEF CrashGap
<1> QED
  BY <1>1, <1>2, Constants

LEMMA OneMore ==
  ASSUME NEW l \in Nat, NEW k \in Nat, NEW g \in Nat, NEW d \in Int, l <= k * g, d <= g
  PROVE  l + Larger(0, d) <= (k + 1) * g
<1>1. (k + 1) * g = k * g + g
  OBVIOUS
<1>2. k * g \in Nat
  OBVIOUS
<1>3. Larger(0, d) \in Nat /\ Larger(0, d) <= g
  BY DEF Larger
<1> QED
  BY <1>1, <1>2, <1>3

LEMMA GapInductive ==
  ASSUME GapInv, [Next]_vars
  PROVE  GapInv'
<1>1. IInv' /\ Ahead'
  BY NextKeeps, AheadInductive DEF GapInv, Kept
<1>2. PICK g \in Nat : g = CrashGap
  BY GapIsNatural
<1>3. TypeOK /\ TypeOK'
  BY <1>1 DEF GapInv, IInv
<1>4. (Attempted - diskUsed <= CrashGap)'
  <2>1. (IInv /\ Ahead => Attempted - diskUsed <= CrashGap)'
    BY GapOf, PTL
  <2> QED
    BY <1>1, <2>1
<1>5. lost' <= crashes' * CrashGap
  <2>1. CASE Crash
    <3>1. PICK d \in Int : d = Attempted - diskUsed
      BY <1>3, Constants DEF TypeOK, Attempted
    <3>2. d <= g /\ lost <= crashes * g
      BY <1>2, <2>1, <3>1, GapOf DEF GapInv, CrashGapBounded
    <3>3. lost' = lost + Larger(0, d) /\ crashes' = crashes + 1
      BY <2>1, <3>1 DEF Crash
    <3>4. lost + Larger(0, d) <= (crashes + 1) * g
      BY <1>3, <3>2, OneMore DEF TypeOK
    <3> QED
      BY <1>2, <3>3, <3>4
  <2>2. CASE ~Crash
    <3>1. UNCHANGED <<lost, crashes>>
      BY <2>2 DEF Next, EventLoop, Thread, Reserve, RefuseJob, Return, Stored, SendAttempt, RefuseAttempt,
         Answer, RetryableFailure, FinalFailure, StageBoundary, EventSave, Restart, history, vars
    <3>2. lost <= crashes * CrashGap
      BY DEF GapInv, CrashGapBounded
    <3> QED
      BY <3>1, <3>2
  <2> QED
    BY <2>1, <2>2
<1> QED
  BY <1>1, <1>4, <1>5 DEF GapInv, CrashGapBounded, CrashGap

(* Type correctness, and what a crash can hide: fewer requests than a group  *)
(* that is not flushed, plus the attempts that every worker's job may make   *)
(* between two of its callbacks; over all crashes, that for each             *)
(* (automation.py:1454-1492).                                                *)
THEOREM LedgerIsSafe == Spec => []Safety
<1>1. Init => GapInv
  <2> SUFFICES ASSUME Init PROVE GapInv
    OBVIOUS
  <2>1. IInv /\ Ahead
    BY InitIInv, InitAhead
  <2>2. lost = 0 /\ crashes = 0
    BY DEF Init
  <2>3. lost <= crashes * CrashGap
    BY <2>2, GapIsNatural
  <2> QED
    BY <2>1, <2>3, GapOf DEF GapInv, CrashGapBounded
<1>2. GapInv /\ [Next]_vars => GapInv'
  BY GapInductive
<1>3. GapInv => Safety
  BY DEF GapInv, IInv, Safety
<1> QED
  BY <1>1, <1>2, <1>3, PTL DEF Spec
===============================================================================
