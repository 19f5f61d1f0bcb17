----------------------------- MODULE ToolingProofs -----------------------------
(* Theorems about the two tools beside the collection, for every value of     *)
(* their constants: the metadata store of integrations/ccswitch_metadata      *)
(* (MetadataSync), and the live tool harness with the partition of its        *)
(* sessions (LiveBatch).                                                      *)
EXTENDS MetadataSync, LiveBatch, FiniteSetTheorems, WellFoundedInduction, TLAPS

-------------------------------------------------------------------------------
(* The metadata store of sync.py: every set of commands, targets and anchors  *)
(* and every release history.  The lock, the journal and the verification     *)
(* hold whatever dies or fails, and the journal is an undo log.               *)

Pins == {Pin[r] : r \in Releases}

Places == {"new", "verify", "verified", "fallback", "resolved", "lock", "apply", "rollback",
           "backup", "journal", "install", "drop", "unlock", "ended"}

Kinds == {"apply", "rollback"}

Command == [at : Places, kind : Kinds \cup {"none"}, target : Targets \cup {Absent},
            rel : Releases \cup {0}, known : Pins \cup {Absent}, got : SUBSET Files, snapshot : Snapshots,
            before : Snapshots, entry : Nat]

\* A command under way has a target and a release, and a snapshot or an entry that is there.
CommandsTyped ==
  /\ cmd \in [Commands -> Command]
  /\ \A c \in Commands : cmd[c].at \notin {"new", "ended"} =>
       cmd[c].target \in Targets /\ cmd[c].rel \in Releases /\ cmd[c].kind \in Kinds
  /\ \A c \in Commands : cmd[c].at = "new" => cmd[c].got = {}

\* The journal names commands that wrote their entry and never return to their backup.
Journalled ==
  \A i \in DOMAIN index : cmd[index[i].id].at \in {"install", "unlock", "ended"}

\* What a command is about to journal is in its backup.
BackedUp ==
  \A c \in Commands : cmd[c].at = "journal" /\ cmd[c].before # Absent =>
    backups[c] = cmd[c].before

\* The entry that was restored is still in its place.
DropsItsOwn == \A c \in Commands : cmd[c].at = "drop" => cmd[c].entry \in DOMAIN index

Arrived(pin) == \A f \in Files : <<f, pin>> \in downloaded

\* The cache, and what a command keeps of it, stand for downloads of their pin.
CacheStands ==
  /\ cache # Absent => Arrived(cache)
  /\ \A c \in Commands : cmd[c].at = "verify" =>
       /\ cmd[c].known # Absent => cmd[c].known = PinOf(c) /\ Arrived(PinOf(c))
       /\ \A f \in cmd[c].got : <<f, PinOf(c)>> \in downloaded
  /\ \A c \in Commands : cmd[c].at = "verified" => Arrived(PinOf(c))

IInv == /\ TypeOK /\ CommandsTyped /\ OneInside /\ EntriesRestorable
        /\ Journalled /\ BackedUp /\ DropsItsOwn /\ CacheStands /\ VerifiedMeansDownloaded

LEMMA Constants ==
  /\ Releases = 1 .. Len(Pin) /\ Len(Pin) \in Nat /\ 1 \in Releases
  /\ Absent \notin Releases /\ Absent \notin Commands
<1>1. PICK S : Pin \in Seq(S) /\ Pin # <<>>
  BY MetadataSyncAssumption
<1>2. DOMAIN Pin = 1 .. Len(Pin) /\ Len(Pin) \in Nat /\ Len(Pin) # 0
  BY <1>1
<1>3. Absent \notin DOMAIN Pin /\ Absent \notin Commands
  BY MetadataSyncAssumption
<1> QED
  BY <1>2, <1>3 DEF Releases

LEMMA UnstartedTyped ==
  ASSUME NEW a \in Places
  PROVE  /\ [Unstarted EXCEPT !.at = a] \in Command
         /\ [Unstarted EXCEPT !.at = a].at = a
         /\ Unstarted \in Command /\ Unstarted.at = "new" /\ Unstarted.got = {}
<1>1. [Unstarted EXCEPT !.at = a] =
        [at |-> a, kind |-> "none", target |-> Absent, rel |-> 0, known |-> Absent,
         got |-> {}, snapshot |-> Absent, before |-> Absent, entry |-> 0]
  BY DEF Unstarted
<1>2. Absent \in Snapshots
  BY DEF Snapshots
<1> QED
  BY <1>1, <1>2 DEF Command, Unstarted, Places

LEMMA InitIInv == Init => IInv
<1> SUFFICES ASSUME Init PROVE IInv
  OBVIOUS
<1> USE Constants DEF Init
<1>1. TypeOK
  BY DEF TypeOK, Snapshots
<1>2. CommandsTyped
  <2>1. "new" \in Places
    BY DEF Places
  <2>2. Unstarted \in Command /\ Unstarted.at = "new" /\ Unstarted.got = {}
    BY <2>1, UnstartedTyped
  <2> QED
    BY <2>2 DEF CommandsTyped
<1>3. OneInside /\ EntriesRestorable /\ Journalled /\ BackedUp /\ DropsItsOwn
  BY DEF OneInside, Inside, Writing, EntriesRestorable, Journalled, BackedUp, DropsItsOwn, Unstarted
<1>4. CacheStands /\ VerifiedMeansDownloaded
  BY DEF CacheStands, VerifiedMeansDownloaded, Unstarted
<1> QED
  BY <1>1, <1>2, <1>3, <1>4 DEF IInv

------------------------------------------------------------------------------
(* Steps of one command *)

\* What a step of c leaves of the others.
Only(c) == /\ DOMAIN cmd' = Commands
           /\ \A d \in Commands : d # c => cmd'[d] = cmd[d]

LEMMA GotoDoes ==
  ASSUME CommandsTyped, NEW c \in Commands, NEW a \in Places, Goto(c, a)
  PROVE  /\ cmd' \in [Commands -> Command] /\ Only(c) /\ cmd'[c].at = a
         /\ cmd'[c].target = cmd[c].target /\ cmd'[c].rel = cmd[c].rel /\ cmd'[c].kind = cmd[c].kind
         /\ cmd'[c].known = cmd[c].known
         /\ cmd'[c].got = cmd[c].got /\ cmd'[c].snapshot = cmd[c].snapshot
         /\ cmd'[c].before = cmd[c].before /\ cmd'[c].entry = cmd[c].entry
<1> DEFINE r == [cmd[c] EXCEPT !.at = a]
<1>1. cmd[c] \in Command /\ DOMAIN cmd = Commands
  BY DEF CommandsTyped
<1>2. cmd' = [cmd EXCEPT ![c] = r]
  BY DEF Goto
<1>3. /\ r \in Command /\ r.at = a
      /\ r.target = cmd[c].target /\ r.rel = cmd[c].rel /\ r.kind = cmd[c].kind /\ r.known = cmd[c].known
      /\ r.got = cmd[c].got /\ r.snapshot = cmd[c].snapshot
      /\ r.before = cmd[c].before /\ r.entry = cmd[c].entry
  BY <1>1 DEF Command
<1> HIDE DEF r
<1>4. cmd'[c] = r /\ Only(c)
  BY <1>1, <1>2 DEF Only
<1>5. cmd' \in [Commands -> Command]
  BY <1>2, <1>3 DEF CommandsTyped
<1> QED
  BY <1>3, <1>4, <1>5

LEMMA EndDoes ==
  ASSUME CommandsTyped, NEW c \in Commands, End(c)
  PROVE  /\ cmd' \in [Commands -> Command] /\ Only(c) /\ cmd'[c].at = "ended"
<1> DEFINE r == [Unstarted EXCEPT !.at = "ended"]
<1>1. r \in Command /\ r.at = "ended"
  BY UnstartedTyped DEF Places
<1>2. cmd' = [cmd EXCEPT ![c] = r]
  BY DEF End
<1> HIDE DEF r
<1> QED
  BY <1>1, <1>2 DEF CommandsTyped, Only

\* Where a command is that has written its journal entry.
Left == {"install", "unlock", "ended"}

LEMMA EntryTyped ==
  ASSUME TypeOK, NEW i \in DOMAIN index
  PROVE  /\ index[i].id \in Commands /\ index[i].target \in Targets /\ index[i].before \in Snapshots
         /\ i \in 1 .. Len(index) /\ Len(index) \in Nat
<1> DEFINE E == [id : Commands, target : Targets, before : Snapshots]
<1>1. index \in Seq(E)
  BY DEF TypeOK
<1> HIDE DEF E
<1>2. index[i] \in E /\ Len(index) \in Nat /\ DOMAIN index = 1 .. Len(index)
  BY <1>1
<1> QED
  BY <1>2 DEF E

\* A step of c that leaves journal and backups alone.
LEMMA BooksKeep ==
  ASSUME IInv, NEW c \in Commands, Only(c), UNCHANGED <<index, backups>>,
         cmd'[c].at \in Inside => lock' = c,
         \A d \in Commands : d # c /\ cmd[d].at \in Inside => lock' = d,
         cmd[c].at \in Left => cmd'[c].at \in Left,
         cmd'[c].at = "journal" /\ cmd'[c].before # Absent => backups[c] = cmd'[c].before,
         cmd'[c].at = "drop" => cmd'[c].entry \in DOMAIN index
  PROVE  OneInside' /\ EntriesRestorable' /\ Journalled' /\ BackedUp' /\ DropsItsOwn'
<1>1. OneInside'
  BY DEF IInv, OneInside, Only
<1>2. EntriesRestorable'
  BY DEF IInv, EntriesRestorable
<1>3. Journalled'
  <2>1. \A i \in DOMAIN index : index[i].id \in Commands
    BY EntryTyped DEF IInv
  <2> QED
    BY <2>1 DEF IInv, Journalled, Only, Left
<1>4. BackedUp' /\ DropsItsOwn'
  BY DEF IInv, BackedUp, DropsItsOwn, Only
<1> QED
  BY <1>1, <1>2, <1>3, <1>4

\* A step of c that verifies nothing.
LEMMA VerificationKeeps ==
  ASSUME IInv, NEW c \in Commands, Only(c), UNCHANGED <<cache, verified>>,
         downloaded \subseteq downloaded',
         cmd'[c].at # "verified",
         cmd'[c].at = "verify" =>
           /\ cmd'[c].known # Absent =>
                cmd'[c].known = Pin[cmd'[c].rel] /\ \A f \in Files : <<f, cmd'[c].known>> \in downloaded'
           /\ \A f \in cmd'[c].got : <<f, Pin[cmd'[c].rel]>> \in downloaded'
  PROVE  CacheStands' /\ VerifiedMeansDownloaded'
<1>1. VerifiedMeansDownloaded'
  BY DEF IInv, VerifiedMeansDownloaded
<1>2. CacheStands'
  BY DEF IInv, CacheStands, Arrived, PinOf, Only
<1> QED
  BY <1>1, <1>2

\* Both, for a step that writes no file.
LEMMA QuietKeeps ==
  ASSUME IInv, NEW c \in Commands, Only(c), cmd' \in [Commands -> Command],
         cmd'[c].at \notin {"new", "ended"} =>
           cmd'[c].target \in Targets /\ cmd'[c].rel \in Releases /\ cmd'[c].kind \in Kinds,
         cmd'[c].at # "new",
         UNCHANGED <<release, files, verified>>, lock' \in Commands \cup {Absent},
         cmd'[c].at \in Inside => lock' = c,
         \A d \in Commands : d # c /\ cmd[d].at \in Inside => lock' = d,
         cmd[c].at \in Left => cmd'[c].at \in Left,
         cmd'[c].at = "journal" /\ cmd'[c].before # Absent => backups[c] = cmd'[c].before,
         cmd'[c].at = "drop" => cmd'[c].entry \in DOMAIN index,
         downloaded \subseteq downloaded',
         cmd'[c].at # "verified",
         cmd'[c].at = "verify" =>
           /\ cmd'[c].known # Absent =>
                cmd'[c].known = Pin[cmd'[c].rel] /\ \A f \in Files : <<f, cmd'[c].known>> \in downloaded'
           /\ \A f \in cmd'[c].got : <<f, Pin[cmd'[c].rel]>> \in downloaded'
  PROVE  IInv'
<1>1. TypeOK'
  BY DEF IInv, TypeOK, files
<1>2. CommandsTyped'
  BY DEF IInv, CommandsTyped, Only
<1>3. UNCHANGED <<index, backups, cache>>
  BY DEF files
<1> QED
  BY <1>1, <1>2, <1>3, BooksKeep, VerificationKeeps DEF IInv

\* A step under the lock keeps it, and only its holder makes one.
LEMMA LockHeld ==
  ASSUME IInv, NEW c \in Commands, UNCHANGED lock
  PROVE  /\ lock' \in Commands \cup {Absent}
         /\ cmd[c].at \in Inside => lock' = c
         /\ \A d \in Commands : d # c /\ cmd[d].at \in Inside => lock' = d
  BY DEF IInv, TypeOK, OneInside

LEMMA EndKeeps ==
  ASSUME IInv, NEW c \in Commands, End(c), UNCHANGED <<release, files, lock, downloaded, verified>>
  PROVE  IInv'
<1>1. cmd' \in [Commands -> Command] /\ Only(c) /\ cmd'[c].at = "ended"
  BY EndDoes DEF IInv
<1>2. /\ cmd'[c].at \notin Inside /\ cmd'[c].at \in Left
      /\ cmd'[c].at \notin {"new", "journal", "drop", "verify", "verified"}
  BY <1>1 DEF Inside, Writing, Left
<1> QED
  BY <1>1, <1>2, LockHeld, QuietKeeps

\* A command goes on to a place that asks for nothing new.
LEMMA GotoKeeps ==
  ASSUME IInv, NEW c \in Commands, NEW a \in Places, Goto(c, a),
         UNCHANGED <<release, files, lock, downloaded, verified>>,
         cmd[c].at \notin {"new", "ended"},
         a \in Inside => cmd[c].at \in Inside,
         cmd[c].at \in Left => a \in Left,
         a \notin {"new", "journal", "drop", "verify", "verified"}
  PROVE  IInv'
<1>1. /\ cmd' \in [Commands -> Command] /\ Only(c) /\ cmd'[c].at = a
      /\ cmd'[c].target = cmd[c].target /\ cmd'[c].rel = cmd[c].rel /\ cmd'[c].kind = cmd[c].kind
  BY GotoDoes DEF IInv
<1>2. cmd[c].target \in Targets /\ cmd[c].rel \in Releases /\ cmd[c].kind \in Kinds
  BY DEF IInv, CommandsTyped
<1>3. /\ cmd'[c].at \notin {"new", "journal", "drop", "verify", "verified"}
      /\ cmd'[c].at \in Inside => cmd[c].at \in Inside
      /\ cmd[c].at \in Left => cmd'[c].at \in Left
  BY <1>1
<1> QED
  BY <1>1, <1>2, <1>3, LockHeld, QuietKeeps

LEMMA BeginKeeps ==
  ASSUME IInv, NEW c \in Commands, Begin(c)
  PROVE  IInv'
<1>1. PICK kind \in Kinds, t \in Targets, off \in BOOLEAN :
        cmd' = [cmd EXCEPT ![c] =
         [@ EXCEPT !.kind = kind, !.target = t, !.rel = release,
                   !.known = CachedFor(release),
                   !.at = IF kind = "rollback" THEN "lock"
                          ELSE IF off THEN "fallback" ELSE "verify"]]
  BY DEF Begin, Kinds
<1> DEFINE a == IF kind = "rollback" THEN "lock" ELSE IF off THEN "fallback" ELSE "verify"
           r == [cmd[c] EXCEPT !.kind = kind, !.target = t, !.rel = release,
                               !.known = CachedFor(release), !.at = a]
<1>2. /\ cmd[c] \in Command /\ cmd[c].got = {} /\ release \in Releases
      /\ cache \in Pins \cup {Absent} /\ CachedFor(release) \in Pins \cup {Absent}
  BY DEF Begin, IInv, CommandsTyped, TypeOK, CachedFor, Pins
<1>3. a \in {"lock", "fallback", "verify"} /\ a \in Places
  BY DEF Places
<1> HIDE DEF a
<1>4. /\ r \in Command /\ r.at = a /\ r.target = t /\ r.rel = release /\ r.kind = kind
      /\ r.known = CachedFor(release) /\ r.got = {}
  BY <1>2, <1>3 DEF Command
<1>5. cmd' = [cmd EXCEPT ![c] = r]
  BY <1>1 DEF a
<1> HIDE DEF r
<1>6. cmd' \in [Commands -> Command] /\ Only(c) /\ cmd'[c] = r
  BY <1>4, <1>5 DEF IInv, CommandsTyped, Only
<1>7. cmd'[c].at \notin Inside /\ cmd[c].at \notin Left
  BY <1>3, <1>4, <1>6 DEF Begin, Inside, Writing, Left
<1>8. CachedFor(release) # Absent =>
        CachedFor(release) = Pin[release] /\ \A f \in Files : <<f, Pin[release]>> \in downloaded
  BY DEF IInv, CacheStands, Arrived, CachedFor
<1>9. UNCHANGED <<release, files, lock, downloaded, verified>>
  BY DEF Begin
<1> QED
  BY <1>2, <1>3, <1>4, <1>6, <1>7, <1>8, <1>9, LockHeld, QuietKeeps

LEMMA FetchKeeps ==
  ASSUME IInv, NEW c \in Commands, NEW f \in Files, Fetch(c, f)
  PROVE  IInv'
<1>1. cmd[c].at = "verify" /\ UNCHANGED <<release, files, lock, verified>>
  BY DEF Fetch
<1>2. CASE End(c) /\ UNCHANGED downloaded
  BY <1>1, <1>2, EndKeeps
<1>3. CASE Goto(c, "fallback") /\ UNCHANGED downloaded
  BY <1>1, <1>3, GotoKeeps DEF Places, Inside, Writing, Left
<1>4. ASSUME cmd' = [cmd EXCEPT ![c].got = @ \cup {f}],
             \/ downloaded' = downloaded \cup {<<f, PinOf(c)>>}
             \/ cmd[c].known # Absent /\ UNCHANGED downloaded
      PROVE  IInv'
  <2> DEFINE r == [cmd[c] EXCEPT !.got = @ \cup {f}]
  <2>1. cmd[c] \in Command
    BY DEF IInv, CommandsTyped
  <2>2. /\ r \in Command /\ r.at = cmd[c].at
        /\ r.target = cmd[c].target /\ r.rel = cmd[c].rel /\ r.kind = cmd[c].kind
        /\ r.known = cmd[c].known /\ r.got = cmd[c].got \cup {f}
    BY <2>1 DEF Command
  <2>3. cmd' = [cmd EXCEPT ![c] = r]
    BY <1>4
  <2> HIDE DEF r
  <2>4. cmd' \in [Commands -> Command] /\ Only(c) /\ cmd'[c] = r
    BY <2>2, <2>3 DEF IInv, CommandsTyped, Only
  <2>5. /\ r.known # Absent => r.known = Pin[r.rel] /\ \A g \in Files : <<g, r.known>> \in downloaded
        /\ \A g \in cmd[c].got : <<g, Pin[r.rel]>> \in downloaded
    BY <1>1, <2>2 DEF IInv, CacheStands, Arrived, PinOf
  <2>6. downloaded \subseteq downloaded' /\ <<f, Pin[r.rel]>> \in downloaded'
    BY <1>4, <2>2, <2>5 DEF PinOf
  <2>7. /\ cmd'[c].at \notin Inside /\ cmd[c].at \notin Left
        /\ cmd[c].target \in Targets /\ cmd[c].rel \in Releases /\ cmd[c].kind \in Kinds
    BY <1>1, <2>2, <2>4 DEF IInv, CommandsTyped, Inside, Writing, Left
  <2> QED
    BY <1>1, <2>2, <2>4, <2>5, <2>6, <2>7, LockHeld, QuietKeeps
<1> QED
  BY <1>2, <1>3, <1>4 DEF Fetch

LEMMA PlainStepsKeep ==
  ASSUME IInv, NEW c \in Commands, Compare(c) \/ NothingToRestore(c) \/ WriteFails(c) \/ Crash(c)
  PROVE  IInv'
<1>1. UNCHANGED <<release, files, lock, downloaded, verified>>
  BY DEF Compare, NothingToRestore, WriteFails, Crash
<1>2. CASE End(c)
  BY <1>1, <1>2, EndKeeps
<1>3. CASE Goto(c, "lock") /\ cmd[c].at = "resolved"
  BY <1>1, <1>3, GotoKeeps DEF Places, Inside, Writing, Left
<1>4. CASE Goto(c, "unlock") /\ cmd[c].at \in Writing
  BY <1>1, <1>4, GotoKeeps DEF Places, Inside, Writing, Left
<1> QED
  BY <1>2, <1>3, <1>4 DEF Compare, NothingToRestore, WriteFails, Crash, Writing

------------------------------------------------------------------------------
(* Resolving a snapshot *)

LEMMA ResolvedDoes ==
  ASSUME CommandsTyped, NEW c \in Commands, NEW s \in Snapshots, Resolved(c, s)
  PROVE  /\ cmd' \in [Commands -> Command] /\ Only(c) /\ cmd'[c].at = "resolved"
         /\ cmd'[c].target = cmd[c].target /\ cmd'[c].rel = cmd[c].rel /\ cmd'[c].kind = cmd[c].kind
         /\ cmd'[c].snapshot = s
<1> DEFINE r == [cmd[c] EXCEPT !.snapshot = s, !.at = "resolved"]
<1>1. cmd[c] \in Command /\ DOMAIN cmd = Commands
  BY DEF CommandsTyped
<1>2. cmd' = [cmd EXCEPT ![c] = r]
  BY DEF Resolved
<1>3. /\ r \in Command /\ r.at = "resolved"
      /\ r.target = cmd[c].target /\ r.rel = cmd[c].rel /\ r.kind = cmd[c].kind /\ r.snapshot = s
  BY <1>1 DEF Command, Places
<1> HIDE DEF r
<1>4. cmd'[c] = r /\ Only(c)
  BY <1>1, <1>2 DEF Only
<1>5. cmd' \in [Commands -> Command]
  BY <1>2, <1>3 DEF CommandsTyped
<1> QED
  BY <1>3, <1>4, <1>5

\* The state of a command that is under way.
LEMMA UnderWay ==
  ASSUME IInv, NEW c \in Commands, cmd[c].at \notin {"new", "ended"}
  PROVE  /\ cmd[c] \in Command
         /\ cmd[c].target \in Targets /\ cmd[c].rel \in Releases /\ cmd[c].kind \in Kinds
         /\ cmd[c].snapshot \in Snapshots /\ cmd[c].before \in Snapshots /\ cmd[c].entry \in Nat
         /\ PinOf(c) \in Pins
  BY DEF IInv, CommandsTyped, Command, PinOf, Pins

LEMMA FallBackKeeps ==
  ASSUME IInv, NEW c \in Commands, FallBack(c)
  PROVE  IInv'
<1> DEFINE s == IF Validates(c, last) THEN last ELSE cmd[c].rel
<1>1. /\ cmd[c].at = "fallback" /\ UNCHANGED <<release, files, lock, downloaded, verified>>
      /\ Resolved(c, s)
  BY DEF FallBack
<1>2. cmd[c].target \in Targets /\ cmd[c].rel \in Releases /\ cmd[c].kind \in Kinds
  BY <1>1, UnderWay
<1>3. s \in Snapshots
  BY <1>2 DEF IInv, TypeOK, Snapshots
<1> HIDE DEF s
<1>4. /\ cmd' \in [Commands -> Command] /\ Only(c) /\ cmd'[c].at = "resolved"
      /\ cmd'[c].target = cmd[c].target /\ cmd'[c].rel = cmd[c].rel /\ cmd'[c].kind = cmd[c].kind
  BY <1>1, <1>3, ResolvedDoes DEF IInv
<1>5. cmd'[c].at \notin Inside /\ cmd[c].at \notin Left
  BY <1>1, <1>4 DEF Inside, Writing, Left
<1> QED
  BY <1>1, <1>2, <1>4, <1>5, LockHeld, QuietKeeps

LEMMA WriteCacheKeeps ==
  ASSUME IInv, NEW c \in Commands, WriteCache(c)
  PROVE  IInv'
<1>1. /\ cmd[c].at = "verify" /\ cmd[c].got = Files /\ cache' = PinOf(c) /\ Goto(c, "verified")
      /\ UNCHANGED <<release, last, active, backups, index, lock, downloaded, verified>>
  BY DEF WriteCache
<1>2. /\ cmd' \in [Commands -> Command] /\ Only(c) /\ cmd'[c].at = "verified"
      /\ cmd'[c].target = cmd[c].target /\ cmd'[c].rel = cmd[c].rel /\ cmd'[c].kind = cmd[c].kind
  BY <1>1, GotoDoes DEF IInv, Places
<1>3. cmd[c].target \in Targets /\ cmd[c].rel \in Releases /\ cmd[c].kind \in Kinds /\ PinOf(c) \in Pins
  BY <1>1, UnderWay
<1>4. Arrived(PinOf(c))
  BY <1>1 DEF IInv, CacheStands, Arrived
<1>5. TypeOK'
  BY <1>1, <1>3 DEF IInv, TypeOK, Pins
<1>6. CommandsTyped'
  BY <1>2, <1>3 DEF IInv, CommandsTyped, Only
<1>7. cmd'[c].at \notin Inside /\ cmd[c].at \notin Left
  BY <1>1, <1>2 DEF Inside, Writing, Left
<1>8. OneInside' /\ EntriesRestorable' /\ Journalled' /\ BackedUp' /\ DropsItsOwn'
  BY <1>1, <1>2, <1>7, LockHeld, BooksKeep
<1>9. VerifiedMeansDownloaded'
  BY <1>1 DEF IInv, VerifiedMeansDownloaded
<1>10. CacheStands'
  BY <1>1, <1>2, <1>4 DEF IInv, CacheStands, Arrived, PinOf, Only
<1> QED
  BY <1>5, <1>6, <1>8, <1>9, <1>10 DEF IInv

LEMMA WriteLastKeeps ==
  ASSUME IInv, NEW c \in Commands, WriteLast(c)
  PROVE  IInv'
<1>1. /\ cmd[c].at = "verified" /\ last' = cmd[c].rel /\ Resolved(c, cmd[c].rel)
      /\ verified' = verified \cup {cmd[c].rel}
      /\ UNCHANGED <<release, cache, active, backups, index, lock, downloaded>>
  BY DEF WriteLast
<1>2. cmd[c].target \in Targets /\ cmd[c].rel \in Releases /\ cmd[c].kind \in Kinds /\ cmd[c].rel \in Snapshots
  BY <1>1, UnderWay DEF Snapshots
<1>3. /\ cmd' \in [Commands -> Command] /\ Only(c) /\ cmd'[c].at = "resolved"
      /\ cmd'[c].target = cmd[c].target /\ cmd'[c].rel = cmd[c].rel /\ cmd'[c].kind = cmd[c].kind
  BY <1>1, <1>2, ResolvedDoes DEF IInv
<1>4. Arrived(PinOf(c))
  BY <1>1 DEF IInv, CacheStands
<1>5. TypeOK'
  BY <1>1, <1>2 DEF IInv, TypeOK
<1>6. CommandsTyped'
  BY <1>2, <1>3 DEF IInv, CommandsTyped, Only
<1>7. cmd'[c].at \notin Inside /\ cmd[c].at \notin Left
  BY <1>1, <1>3 DEF Inside, Writing, Left
<1>8. OneInside' /\ EntriesRestorable' /\ Journalled' /\ BackedUp' /\ DropsItsOwn'
  BY <1>1, <1>3, <1>7, LockHeld, BooksKeep
<1>9. VerifiedMeansDownloaded'
  BY <1>1, <1>4 DEF IInv, VerifiedMeansDownloaded, Arrived, PinOf
<1>10. CacheStands'
  BY <1>1, <1>3 DEF IInv, CacheStands, Arrived, PinOf, Only
<1> QED
  BY <1>5, <1>6, <1>8, <1>9, <1>10 DEF IInv

------------------------------------------------------------------------------
(* Under the lock *)

LEMMA TakeLockKeeps ==
  ASSUME IInv, NEW c \in Commands, TakeLock(c)
  PROVE  IInv'
<1>1. /\ cmd[c].at = "lock" /\ UNCHANGED <<release, files, downloaded, verified>>
      /\ IF lock = Absent THEN lock' = c /\ Goto(c, cmd[c].kind) ELSE End(c) /\ UNCHANGED lock
  BY DEF TakeLock
<1>2. CASE lock # Absent
  BY <1>1, <1>2, EndKeeps
<1>3. CASE lock = Absent
  <2>1. cmd[c].target \in Targets /\ cmd[c].rel \in Releases /\ cmd[c].kind \in Kinds 
    BY <1>1, UnderWay DEF Command
  <2>2. cmd[c].kind \in Places
    BY <2>1 DEF Places, Kinds
  <2>3. lock' = c /\ Goto(c, cmd[c].kind)
    BY <1>1, <1>3
  <2>4. /\ cmd' \in [Commands -> Command] /\ Only(c) /\ cmd'[c].at \in Kinds
        /\ cmd'[c].target = cmd[c].target /\ cmd'[c].rel = cmd[c].rel /\ cmd'[c].kind = cmd[c].kind
    BY <2>1, <2>2, <2>3, GotoDoes DEF IInv
  <2>5. \A d \in Commands : cmd[d].at \notin Inside
    BY <1>3, Constants DEF IInv, OneInside
  <2>6. cmd[c].at \notin Left /\ lock' = c
    BY <1>1, <2>3 DEF Left
  <2>7. cmd'[c].at \notin {"new", "ended", "journal", "drop", "verify", "verified"}
    BY <2>4 DEF Kinds
  <2> QED
    BY <1>1, <2>1, <2>4, <2>5, <2>6, <2>7, QuietKeeps
<1> QED
  BY <1>2, <1>3

\* A step under the lock that writes at most the backups, the journal or the target.
LEMMA InsideKeeps ==
  ASSUME IInv, NEW c \in Commands, cmd[c].at \in Inside, Only(c), cmd' \in [Commands -> Command],
         cmd'[c].at \in Inside,
         cmd'[c].target = cmd[c].target, cmd'[c].rel = cmd[c].rel, cmd'[c].kind = cmd[c].kind,
         UNCHANGED <<release, cache, last, lock, downloaded, verified>>
  PROVE  /\ CommandsTyped' /\ OneInside' /\ CacheStands' /\ VerifiedMeansDownloaded'
         /\ \A d \in Commands : d # c => cmd'[d].at \notin Inside
<1>1. /\ cmd[c].at \notin {"new", "ended"}
      /\ cmd'[c].at \notin {"new", "ended", "verify", "verified"}
  BY DEF Inside, Writing
<1>2. cmd[c].target \in Targets /\ cmd[c].rel \in Releases /\ cmd[c].kind \in Kinds
  BY <1>1, UnderWay
<1>3. CommandsTyped'
  BY <1>1, <1>2 DEF IInv, CommandsTyped, Only
<1>4. lock = c /\ \A d \in Commands : d # c => cmd[d].at \notin Inside
  BY DEF IInv, OneInside
<1>5. OneInside' /\ \A d \in Commands : d # c => cmd'[d].at \notin Inside
  BY <1>4 DEF OneInside, Only
<1>6. CacheStands' /\ VerifiedMeansDownloaded'
  BY <1>1, VerificationKeeps
<1> QED
  BY <1>3, <1>5, <1>6

\* After a step under the lock only c itself can be about to write or to drop an entry.
LEMMA OnlyOwnEntry ==
  ASSUME NEW c \in Commands, \A d \in Commands : d # c => cmd'[d].at \notin Inside,
         cmd'[c].at = "journal" /\ cmd'[c].before # Absent => backups'[c] = cmd'[c].before,
         cmd'[c].at = "drop" => cmd'[c].entry \in DOMAIN index'
  PROVE  BackedUp' /\ DropsItsOwn'
<1>1. \A d \in Commands : cmd'[d].at \in {"journal", "drop"} => d = c
  BY DEF Inside, Writing
<1> QED
  BY <1>1 DEF BackedUp, DropsItsOwn

LEMMA ReadActiveKeeps ==
  ASSUME IInv, NEW c \in Commands, ReadActive(c)
  PROVE  IInv'
<1> DEFINE now == active[cmd[c].target]
           a == IF now = cmd[c].snapshot THEN "unlock"
                ELSE IF now = Absent THEN "journal"
                ELSE IF Validates(c, now) THEN "backup" ELSE "unlock"
           r == [cmd[c] EXCEPT !.before = now, !.at = a]
<1>1. /\ cmd[c].at = "apply" /\ cmd' = [cmd EXCEPT ![c] = r]
      /\ UNCHANGED <<release, files, lock, downloaded, verified>>
  BY DEF ReadActive
<1>2. cmd[c] \in Command /\ cmd[c].target \in Targets /\ cmd[c].rel \in Releases /\ cmd[c].kind \in Kinds
  BY <1>1, UnderWay
<1>3. now \in Snapshots
  BY <1>2 DEF IInv, TypeOK
<1>4. a \in {"unlock", "journal", "backup"} /\ (a = "journal" => now = Absent)
  OBVIOUS
<1> HIDE DEF now, a
<1>5. /\ r \in Command /\ r.at = a /\ r.before = now
      /\ r.target = cmd[c].target /\ r.rel = cmd[c].rel /\ r.kind = cmd[c].kind
  BY <1>2, <1>3, <1>4 DEF Command, Places
<1> HIDE DEF r
<1>6. cmd' \in [Commands -> Command] /\ Only(c) /\ cmd'[c] = r
  BY <1>1, <1>5 DEF IInv, CommandsTyped, Only
<1>7. cmd[c].at \in Inside /\ cmd[c].at \notin Left
  BY <1>1 DEF Inside, Writing, Left
<1>8. /\ cmd'[c].at \notin {"new", "drop", "verify", "verified"}
      /\ cmd'[c].at = "journal" => cmd'[c].before = Absent
  BY <1>4, <1>5, <1>6
<1> QED
  BY <1>1, <1>2, <1>5, <1>6, <1>7, <1>8, LockHeld, QuietKeeps

LEMMA WriteBackupKeeps ==
  ASSUME IInv, NEW c \in Commands, WriteBackup(c)
  PROVE  IInv'
<1>1. /\ cmd[c].at = "backup" /\ backups' = [backups EXCEPT ![c] = cmd[c].before] /\ Goto(c, "journal")
      /\ UNCHANGED <<release, cache, last, active, index, lock, downloaded, verified>>
  BY DEF WriteBackup
<1>2. /\ cmd' \in [Commands -> Command] /\ Only(c) /\ cmd'[c].at = "journal"
      /\ cmd'[c].target = cmd[c].target /\ cmd'[c].rel = cmd[c].rel /\ cmd'[c].kind = cmd[c].kind
      /\ cmd'[c].before = cmd[c].before
  BY <1>1, GotoDoes DEF IInv, Places
<1>3. cmd[c].before \in Snapshots
  BY <1>1, UnderWay
<1>4. TypeOK'
  BY <1>1, <1>3 DEF IInv, TypeOK
<1>5. cmd[c].at \in Inside /\ cmd'[c].at \in Inside
  BY <1>1, <1>2 DEF Inside, Writing
<1>6. /\ CommandsTyped' /\ OneInside' /\ CacheStands' /\ VerifiedMeansDownloaded'
      /\ \A d \in Commands : d # c => cmd'[d].at \notin Inside
  BY <1>1, <1>2, <1>5, InsideKeeps
<1>7. \A i \in DOMAIN index : index[i].id \in Commands /\ index[i].id # c
  BY <1>1, EntryTyped DEF IInv, Journalled
<1>8. \A d \in Commands : d # c => backups'[d] = backups[d]
  BY <1>1 DEF IInv, TypeOK
<1>9. EntriesRestorable'
  BY <1>1, <1>7, <1>8 DEF IInv, EntriesRestorable
<1>10. Journalled'
  BY <1>1, <1>2, <1>7 DEF IInv, Journalled, Only
<1>11. backups'[c] = cmd'[c].before /\ cmd'[c].at # "drop"
  BY <1>1, <1>2 DEF IInv, TypeOK
<1>12. BackedUp' /\ DropsItsOwn'
  BY <1>6, <1>11, OnlyOwnEntry
<1> QED
  BY <1>4, <1>6, <1>9, <1>10, <1>12 DEF IInv

LEMMA WriteEntryKeeps ==
  ASSUME IInv, NEW c \in Commands, WriteEntry(c)
  PROVE  IInv'
<1> DEFINE e == [id |-> c, target |-> cmd[c].target, before |-> cmd[c].before]
           E == [id : Commands, target : Targets, before : Snapshots]
<1>1. /\ cmd[c].at = "journal" /\ index' = Append(index, e) /\ Goto(c, "install")
      /\ UNCHANGED <<release, cache, last, active, backups, lock, downloaded, verified>>
  BY DEF WriteEntry
<1>2. /\ cmd' \in [Commands -> Command] /\ Only(c) /\ cmd'[c].at = "install"
      /\ cmd'[c].target = cmd[c].target /\ cmd'[c].rel = cmd[c].rel /\ cmd'[c].kind = cmd[c].kind
  BY <1>1, GotoDoes DEF IInv, Places
<1>3. e \in E
  BY <1>1, UnderWay
<1>4. index \in Seq(E)
  BY DEF IInv, TypeOK
<1>5. e.id = c /\ (e.before # Absent => backups[c] = e.before)
  BY <1>1 DEF IInv, BackedUp
<1> HIDE DEF e, E
<1>6. /\ index' \in Seq(E)
      /\ \A i \in DOMAIN index' : (i \in DOMAIN index /\ index'[i] = index[i]) \/ index'[i] = e
  BY <1>1, <1>3, <1>4
<1>7. TypeOK'
  BY <1>1, <1>6 DEF IInv, TypeOK, E
<1>8. cmd[c].at \in Inside /\ cmd'[c].at \in Inside
  BY <1>1, <1>2 DEF Inside, Writing
<1>9. /\ CommandsTyped' /\ OneInside' /\ CacheStands' /\ VerifiedMeansDownloaded'
      /\ \A d \in Commands : d # c => cmd'[d].at \notin Inside
  BY <1>1, <1>2, <1>8, InsideKeeps
<1>10. EntriesRestorable'
  <2> SUFFICES ASSUME NEW i \in DOMAIN index', index'[i].before # Absent
               PROVE  backups'[index'[i].id] = index'[i].before
    BY DEF EntriesRestorable
  <2>1. CASE index'[i] = e
    BY <1>1, <1>5, <2>1
  <2>2. CASE i \in DOMAIN index /\ index'[i] = index[i]
    BY <1>1, <2>2 DEF IInv, EntriesRestorable
  <2> QED
    BY <1>6, <2>1, <2>2
<1>11. Journalled'
  <2> SUFFICES ASSUME NEW i \in DOMAIN index'
               PROVE  cmd'[index'[i].id].at \in Left
    BY DEF Journalled, Left
  <2>1. CASE index'[i] = e
    BY <1>2, <1>5, <2>1 DEF Left
  <2>2. CASE i \in DOMAIN index /\ index'[i] = index[i]
    <3>1. index[i].id \in Commands /\ cmd[index[i].id].at \in Left /\ index[i].id # c
      BY <1>1, <2>2, EntryTyped DEF IInv, Journalled, Left
    <3> QED
      BY <1>2, <2>2, <3>1 DEF Only
  <2> QED
    BY <1>6, <2>1, <2>2
<1>12. cmd'[c].at \notin {"journal", "drop"}
  BY <1>2
<1>13. BackedUp' /\ DropsItsOwn'
  BY <1>9, <1>12, OnlyOwnEntry
<1> QED
  BY <1>7, <1>9, <1>10, <1>11, <1>13 DEF IInv

\* A step under the lock that writes the target.
LEMMA TargetWritten ==
  ASSUME IInv, NEW c \in Commands, NEW t \in Targets, NEW s \in Snapshots,
         active' = [active EXCEPT ![t] = s],
         cmd[c].at \in Inside, Only(c), cmd' \in [Commands -> Command], cmd'[c].at \in Inside,
         cmd'[c].target = cmd[c].target, cmd'[c].rel = cmd[c].rel, cmd'[c].kind = cmd[c].kind,
         cmd[c].at \in Left => cmd'[c].at \in Left,
         cmd'[c].at # "journal",
         cmd'[c].at = "drop" => cmd'[c].entry \in DOMAIN index,
         UNCHANGED <<release, cache, last, backups, index, lock, downloaded, verified>>
  PROVE  IInv'
<1>1. TypeOK'
  BY DEF IInv, TypeOK
<1>2. CommandsTyped' /\ CacheStands' /\ VerifiedMeansDownloaded'
  BY InsideKeeps
<1>3. OneInside' /\ EntriesRestorable' /\ Journalled' /\ BackedUp' /\ DropsItsOwn'
  BY LockHeld, BooksKeep
<1> QED
  BY <1>1, <1>2, <1>3 DEF IInv

LEMMA WriteActiveKeeps ==
  ASSUME IInv, NEW c \in Commands, WriteActive(c)
  PROVE  IInv'
<1>1. /\ cmd[c].at = "install" /\ active' = [active EXCEPT ![cmd[c].target] = cmd[c].snapshot]
      /\ Goto(c, "unlock")
      /\ UNCHANGED <<release, cache, last, backups, index, lock, downloaded, verified>>
  BY DEF WriteActive
<1>2. /\ cmd' \in [Commands -> Command] /\ Only(c) /\ cmd'[c].at = "unlock"
      /\ cmd'[c].target = cmd[c].target /\ cmd'[c].rel = cmd[c].rel /\ cmd'[c].kind = cmd[c].kind
  BY <1>1, GotoDoes DEF IInv, Places
<1>3. cmd[c].target \in Targets /\ cmd[c].snapshot \in Snapshots
  BY <1>1, UnderWay
<1>4. cmd[c].at \in Inside /\ cmd'[c].at \in Inside /\ cmd'[c].at \in Left
  BY <1>1, <1>2 DEF Inside, Writing, Left
<1>5. cmd'[c].at # "journal" /\ cmd'[c].at # "drop"
  BY <1>2
<1> QED
  BY <1>1, <1>2, <1>3, <1>4, <1>5, TargetWritten

\* A target with entries has a latest one: the journal is finite.
LEMMA LatestIsThere ==
  ASSUME TypeOK, NEW t \in Targets, EntriesOf(t) # {}
  PROVE  /\ Latest(t) \in DOMAIN index /\ Latest(t) \in Nat
         /\ Latest(t) \in EntriesOf(t) /\ \A j \in EntriesOf(t) : j <= Latest(t)
<1>1. Len(index) \in Nat /\ DOMAIN index = 1 .. Len(index)
  <2> DEFINE E == [id : Commands, target : Targets, before : Snapshots]
  <2>1. index \in Seq(E)
    BY DEF TypeOK
  <2> HIDE DEF E
  <2> QED
    BY <2>1
<1> DEFINE After == {Len(index) - i : i \in EntriesOf(t)}
<1>2. After # {} /\ After \subseteq Nat
  BY <1>1 DEF EntriesOf
<1>3. PICK k \in After : \A j \in After : ~(<<j, k>> \in OpToRel(<, Nat))
  BY <1>2, WFMin, NatLessThanWellFounded
<1>4. \A j \in After : k <= j
  <2> SUFFICES ASSUME NEW j \in After PROVE k <= j
    OBVIOUS
  <2>1. j \in Nat /\ k \in Nat
    BY <1>2
  <2>2. <<j, k>> \in OpToRel(<, Nat) <=> <<j, k>> \in Nat \X Nat /\ <<j, k>>[1] < <<j, k>>[2]
    BY DEF OpToRel
  <2>3. ~(j < k)
    BY <1>3, <2>1, <2>2
  <2> QED
    BY <2>1, <2>3
<1>5. PICK m \in EntriesOf(t) : k = Len(index) - m
  BY <1>3
<1>6. ASSUME NEW j \in EntriesOf(t)
      PROVE  j <= m
  <2>1. k <= Len(index) - j
    BY <1>4
  <2> QED
    BY <1>1, <1>5, <2>1 DEF EntriesOf
<1>7. Latest(t) \in EntriesOf(t) /\ \A j \in EntriesOf(t) : j <= Latest(t)
  BY <1>6 DEF Latest
<1> QED
  BY <1>1, <1>7 DEF EntriesOf

LEMMA RestoreKeeps ==
  ASSUME IInv, NEW c \in Commands, Restore(c)
  PROVE  IInv'
<1> DEFINE n == Latest(cmd[c].target)
<1>1. /\ cmd[c].at = "rollback" /\ EntriesOf(cmd[c].target) # {}
      /\ UNCHANGED <<release, cache, last, backups, index, lock, downloaded, verified>>
  BY DEF Restore
<1>2. /\ cmd[c] \in Command /\ cmd[c].target \in Targets /\ cmd[c].rel \in Releases
      /\ cmd[c].kind \in Kinds
  BY <1>1, UnderWay
<1>3. n \in DOMAIN index /\ n \in Nat
  BY <1>1, <1>2, LatestIsThere DEF IInv
<1>4. index[n].before \in Snapshots
  BY <1>3, EntryTyped DEF IInv
<1>5. CASE Goto(c, "unlock") /\ UNCHANGED active
  BY <1>1, <1>5, GotoKeeps DEF Places, Inside, Writing, Left, files
<1>6. ASSUME active' = [active EXCEPT ![cmd[c].target] = index[n].before],
             cmd' = [cmd EXCEPT ![c].entry = n, ![c].at = "drop"]
      PROVE  IInv'
  <2> HIDE DEF n
  <2> DEFINE r == [cmd[c] EXCEPT !.entry = n, !.at = "drop"]
  <2>1. /\ r \in Command /\ r.at = "drop" /\ r.entry = n
        /\ r.target = cmd[c].target /\ r.rel = cmd[c].rel /\ r.kind = cmd[c].kind
    BY <1>2, <1>3 DEF Command, Places
  <2>2. cmd' = [cmd EXCEPT ![c] = r]
    BY <1>6
  <2> HIDE DEF r
  <2>3. cmd' \in [Commands -> Command] /\ Only(c) /\ cmd'[c] = r
    BY <2>1, <2>2 DEF IInv, CommandsTyped, Only
  <2>4. cmd[c].at \in Inside /\ cmd'[c].at \in Inside /\ cmd[c].at \notin Left
    BY <1>1, <2>1, <2>3 DEF Inside, Writing, Left
  <2> QED
    BY <1>1, <1>2, <1>3, <1>4, <1>6, <2>1, <2>3, <2>4, TargetWritten
<1> QED
  BY <1>5, <1>6 DEF Restore

\* The journal without its n-th entry.
LEMMA Removed ==
  ASSUME NEW S, NEW s \in Seq(S), NEW n \in DOMAIN s
  PROVE  /\ RemoveAt(s, n) \in Seq(S)
         /\ Len(RemoveAt(s, n)) = Len(s) - 1 /\ DOMAIN RemoveAt(s, n) = 1 .. Len(s) - 1
         /\ \A i \in 1 .. Len(s) - 1 : RemoveAt(s, n)[i] = IF i < n THEN s[i] ELSE s[i + 1]
<1> DEFINE front == SubSeq(s, 1, n - 1)
           back == SubSeq(s, n + 1, Len(s))
           r == RemoveAt(s, n)
<1>1. n \in 1 .. Len(s) /\ Len(s) \in Nat /\ DOMAIN s = 1 .. Len(s)
  OBVIOUS
<1>2. /\ front \in Seq(S) /\ Len(front) = n - 1
      /\ \A i \in 1 .. n - 1 : front[i] = s[i]
  BY <1>1
<1>3. /\ back \in Seq(S) /\ Len(back) = Len(s) - n
      /\ \A i \in 1 .. Len(s) - n : back[i] = s[n + i]
  BY <1>1
<1>4. r = front \o back
  BY DEF RemoveAt
<1> HIDE DEF front, back, r
<1>5. r \in Seq(S) /\ Len(r) = Len(s) - 1 /\ DOMAIN r = 1 .. Len(s) - 1
  <2>1. front \o back \in Seq(S) /\ Len(front \o back) = Len(front) + Len(back)
    <3>1. front \in Seq(S) /\ back \in Seq(S)
      BY <1>2, <1>3
    <3> QED
      BY <3>1
  <2>2. (n - 1) + (Len(s) - n) = Len(s) - 1
    BY <1>1
  <2>3. r \in Seq(S) /\ Len(r) = Len(s) - 1
    BY <1>2, <1>3, <1>4, <2>1, <2>2
  <2> QED
    BY <2>3
<1>6. \A i \in 1 .. Len(s) - 1 : r[i] = IF i <= n - 1 THEN front[i] ELSE back[i - (n - 1)]
  BY <1>1, <1>2, <1>3, <1>4
<1>7. ASSUME NEW i \in 1 .. Len(s) - 1
      PROVE  r[i] = IF i < n THEN s[i] ELSE s[i + 1]
  <2>1. CASE i < n
    BY <1>1, <1>2, <1>6, <2>1
  <2>2. CASE ~(i < n)
    <3>1. PICK k : k = i - (n - 1)
      OBVIOUS
    <3>2. k \in 1 .. Len(s) - n /\ n + k = i + 1 /\ ~(i <= n - 1)
      BY <1>1, <2>2, <3>1
    <3>3. r[i] = back[k]
      BY <1>6, <3>1, <3>2
    <3>4. back[k] = s[n + k]
      BY <1>3, <3>2
    <3> QED
      BY <2>2, <3>2, <3>3, <3>4
  <2> QED
    BY <2>1, <2>2
<1> QED
  BY <1>5, <1>7 DEF r

LEMMA DropEntryKeeps ==
  ASSUME IInv, NEW c \in Commands, DropEntry(c)
  PROVE  IInv'
<1> DEFINE n == cmd[c].entry
           E == [id : Commands, target : Targets, before : Snapshots]
<1>1. /\ cmd[c].at = "drop" /\ index' = RemoveAt(index, n) /\ Goto(c, "unlock")
      /\ UNCHANGED <<release, cache, last, active, backups, lock, downloaded, verified>>
  BY DEF DropEntry
<1>2. /\ cmd' \in [Commands -> Command] /\ Only(c) /\ cmd'[c].at = "unlock"
      /\ cmd'[c].target = cmd[c].target /\ cmd'[c].rel = cmd[c].rel /\ cmd'[c].kind = cmd[c].kind
  BY <1>1, GotoDoes DEF IInv, Places
<1>3. index \in Seq(E) /\ n \in DOMAIN index
  BY <1>1 DEF IInv, TypeOK, DropsItsOwn
<1> HIDE DEF n, E
<1>4. /\ index' \in Seq(E)
      /\ \A i \in DOMAIN index' : \E j \in DOMAIN index : index'[i] = index[j]
  <2>1. /\ index' \in Seq(E) /\ DOMAIN index' = 1 .. Len(index) - 1
        /\ \A i \in 1 .. Len(index) - 1 : index'[i] = IF i < n THEN index[i] ELSE index[i + 1]
    BY <1>1, <1>3, Removed
  <2>2. \A i \in 1 .. Len(index) - 1 : i \in DOMAIN index /\ i + 1 \in DOMAIN index
    BY <1>3
  <2> QED
    BY <2>1, <2>2
<1>5. TypeOK'
  BY <1>1, <1>4 DEF IInv, TypeOK, E
<1>6. cmd[c].at \in Inside /\ cmd'[c].at \in Inside
  BY <1>1, <1>2 DEF Inside, Writing
<1>7. /\ CommandsTyped' /\ OneInside' /\ CacheStands' /\ VerifiedMeansDownloaded'
      /\ \A d \in Commands : d # c => cmd'[d].at \notin Inside
  BY <1>1, <1>2, <1>6, InsideKeeps
<1>8. EntriesRestorable'
  BY <1>1, <1>4 DEF IInv, EntriesRestorable
<1>9. Journalled'
  <2> SUFFICES ASSUME NEW i \in DOMAIN index'
               PROVE  cmd'[index'[i].id].at \in Left
    BY DEF Journalled, Left
  <2>1. PICK j \in DOMAIN index : index'[i] = index[j]
    BY <1>4
  <2>2. index[j].id \in Commands /\ cmd[index[j].id].at \in Left
    BY <2>1, EntryTyped DEF IInv, Journalled, Left
  <2> QED
    BY <1>2, <2>1, <2>2 DEF Only, Left
<1>10. cmd'[c].at \notin {"journal", "drop"}
  BY <1>2
<1>11. BackedUp' /\ DropsItsOwn'
  BY <1>7, <1>10, OnlyOwnEntry
<1> QED
  BY <1>5, <1>7, <1>8, <1>9, <1>11 DEF IInv

LEMMA UnlockKeeps ==
  ASSUME IInv, NEW c \in Commands, Unlock(c)
  PROVE  IInv'
<1>1. cmd[c].at = "unlock" /\ lock' = Absent /\ End(c) /\ UNCHANGED <<release, files, downloaded, verified>>
  BY DEF Unlock
<1>2. cmd' \in [Commands -> Command] /\ Only(c) /\ cmd'[c].at = "ended"
  BY <1>1, EndDoes DEF IInv
<1>3. \A d \in Commands : d # c => cmd[d].at \notin Inside
  BY <1>1 DEF IInv, OneInside, Inside
<1>4. /\ cmd'[c].at \notin Inside /\ cmd'[c].at \in Left
      /\ cmd'[c].at \notin {"new", "journal", "drop", "verify", "verified"}
  BY <1>2 DEF Inside, Writing, Left
<1> QED
  BY <1>1, <1>2, <1>3, <1>4, QuietKeeps

LEMMA RemoveStaleLockKeeps ==
  ASSUME IInv, RemoveStaleLock
  PROVE  IInv'
<1>1. /\ lock # Absent /\ cmd[lock].at = "ended" /\ lock' = Absent
      /\ UNCHANGED <<release, files, cmd, downloaded, verified>>
  BY DEF RemoveStaleLock
<1>2. "ended" \notin Inside
  BY DEF Inside, Writing
<1>3. \A c \in Commands : cmd[c].at \notin Inside
  BY <1>1, <1>2 DEF IInv, OneInside
<1>4. OneInside' /\ TypeOK'
  BY <1>1, <1>3 DEF IInv, OneInside, TypeOK, files
<1> QED
  BY <1>1, <1>4 DEF IInv, files, CommandsTyped, EntriesRestorable, Journalled, BackedUp,
                    DropsItsOwn, CacheStands, Arrived, PinOf, VerifiedMeansDownloaded

LEMMA UpgradeKeeps ==
  ASSUME IInv, Upgrade
  PROVE  IInv'
<1>1. /\ release < Len(Pin) /\ release' = release + 1
      /\ UNCHANGED <<files, lock, cmd, downloaded, verified>>
  BY DEF Upgrade
<1>2. TypeOK'
  BY <1>1, Constants DEF IInv, TypeOK, files
<1> QED
  BY <1>1, <1>2 DEF IInv, files, CommandsTyped, OneInside, EntriesRestorable, Journalled, BackedUp,
                    DropsItsOwn, CacheStands, Arrived, PinOf, VerifiedMeansDownloaded

------------------------------------------------------------------------------
(* The invariant *)

LEMMA Inductive == IInv /\ [Next]_vars => IInv'
<1> SUFFICES ASSUME IInv, [Next]_vars PROVE IInv'
  OBVIOUS
<1>1. ASSUME NEW c \in Commands,
             \/ Begin(c) \/ WriteCache(c) \/ WriteLast(c) \/ FallBack(c) \/ Compare(c)
             \/ TakeLock(c) \/ ReadActive(c) \/ WriteBackup(c) \/ WriteEntry(c) \/ WriteActive(c)
             \/ Restore(c) \/ NothingToRestore(c) \/ DropEntry(c) \/ Unlock(c)
             \/ WriteFails(c) \/ Crash(c)
      PROVE  IInv'
  BY <1>1, BeginKeeps, WriteCacheKeeps, WriteLastKeeps, FallBackKeeps, PlainStepsKeep,
     TakeLockKeeps, ReadActiveKeeps, WriteBackupKeeps, WriteEntryKeeps, WriteActiveKeeps,
     RestoreKeeps, DropEntryKeeps, UnlockKeeps
<1>2. ASSUME NEW c \in Commands, NEW f \in Files, Fetch(c, f) PROVE IInv'
  BY <1>2, FetchKeeps
<1>3. CASE UNCHANGED vars
  BY <1>3 DEF vars, files, IInv, TypeOK, CommandsTyped, OneInside, EntriesRestorable, Journalled,
              BackedUp, DropsItsOwn, CacheStands, Arrived, PinOf, VerifiedMeansDownloaded
<1> QED
  BY <1>1, <1>2, <1>3, RemoveStaleLockKeeps, UpgradeKeeps DEF Next

\* Metadata sync is safe for every number of commands, targets, anchors and releases: one command
\* at a time under the lock, a journal whose entries can all be rolled back to, and nothing
\* resolved as verified whose pinned files did not arrive.
THEOREM SyncIsSafe == Spec => []Safety
<1>1. IInv => Safety
  BY DEF IInv, Safety
<1> QED
  BY InitIInv, Inductive, <1>1, PTL DEF Spec

------------------------------------------------------------------------------
(* The journal is an undo log: where each command stands towards it *)

\* A command that installs has a release to install, knows what is active while it writes, and
\* has its entry last in the journal when it writes the target; one that drops an entry has
\* restored the latest one of its target.
Standing(c) ==
  /\ cmd[c].at \in {"resolved", "apply", "backup", "journal", "install"} =>
       cmd[c].snapshot \in Releases
  /\ cmd[c].at = "lock" /\ cmd[c].kind = "apply" => cmd[c].snapshot \in Releases
  /\ cmd[c].at \in {"backup", "journal", "install"} =>
       cmd[c].before = active[cmd[c].target] /\ cmd[c].before # cmd[c].snapshot
  /\ cmd[c].at = "install" =>
       /\ Len(index) \in DOMAIN index
       /\ index[Len(index)] = [id |-> c, target |-> cmd[c].target, before |-> cmd[c].before]
  /\ cmd[c].at = "drop" =>
       /\ cmd[c].entry \in EntriesOf(cmd[c].target)
       /\ \A j \in EntriesOf(cmd[c].target) : j <= cmd[c].entry
       /\ index[cmd[c].entry].before = active[cmd[c].target]

\* A command writes one entry.
IdsOnce == \A i, j \in DOMAIN index : index[i].id = index[j].id => i = j

UndoInv == IdsOnce /\ \A c \in Commands : Standing(c)

LEMMA JournalIs ==
  ASSUME TypeOK
  PROVE  /\ index \in Seq([id : Commands, target : Targets, before : Snapshots])
         /\ Len(index) \in Nat /\ DOMAIN index = 1 .. Len(index)
<1> DEFINE E == [id : Commands, target : Targets, before : Snapshots]
<1>1. index \in Seq(E)
  BY DEF TypeOK
<1> HIDE DEF E
<1>2. Len(index) \in Nat /\ DOMAIN index = 1 .. Len(index)
  BY <1>1
<1> QED
  BY <1>1, <1>2 DEF E

LEMMA InitUndoInv == Init => UndoInv
<1> SUFFICES ASSUME Init PROVE UndoInv
  OBVIOUS
<1>1. \A c \in Commands : cmd[c].at = "new"
  BY DEF Init, Unstarted
<1>2. index = <<>>
  BY DEF Init
<1> QED
  BY <1>1, <1>2 DEF UndoInv, IdsOnce, Standing

\* Nobody else writes the journal or a target while a command is at it.
LEMMA OthersStand ==
  ASSUME IInv, UndoInv, NEW c \in Commands, Only(c),
         UNCHANGED <<index, active>> \/ cmd[c].at \in Inside,
         NEW d \in Commands, d # c
  PROVE  Standing(d)'
<1>1. cmd'[d] = cmd[d] /\ Standing(d)
  BY DEF Only, UndoInv
<1>2. CASE UNCHANGED <<index, active>>
  BY <1>1, <1>2 DEF Standing, EntriesOf
<1>3. CASE cmd[c].at \in Inside
  <2>1. cmd[d].at \notin Inside
    BY <1>3 DEF IInv, OneInside
  <2> QED
    BY <1>1, <2>1 DEF Standing, Inside, Writing
<1> QED
  BY <1>2, <1>3

\* A command that is not at the journal stands anywhere.
LEMMA Away ==
  ASSUME NEW c \in Commands,
         cmd'[c].at \notin {"resolved", "lock", "apply", "backup", "journal", "install", "drop"}
  PROVE  Standing(c)'
  BY DEF Standing

\* Steps that write neither the journal nor a target.
LEMMA StandsAgain ==
  ASSUME IInv, UndoInv, NEW c \in Commands, Only(c), Standing(c)', UNCHANGED <<index, active>>
  PROVE  UndoInv'
<1>1. \A d \in Commands : Standing(d)'
  BY OthersStand
<1>2. IdsOnce'
  BY DEF UndoInv, IdsOnce
<1> QED
  BY <1>1, <1>2 DEF UndoInv

LEMMA CmdIs ==
  ASSUME CommandsTyped, NEW c \in Commands, NEW r, cmd' = [cmd EXCEPT ![c] = r]
  PROVE  Only(c) /\ cmd'[c] = r
  BY DEF CommandsTyped, Only

LEMMA EndStands ==
  ASSUME IInv, UndoInv, NEW c \in Commands, End(c), UNCHANGED <<index, active>>
  PROVE  UndoInv'
<1>1. Only(c) /\ cmd'[c].at = "ended"
  BY EndDoes DEF IInv
<1> QED
  BY <1>1, Away, StandsAgain

LEMMA GotoStands ==
  ASSUME IInv, UndoInv, NEW c \in Commands, UNCHANGED <<index, active>>,
         NEW a \in {"fallback", "verified", "rollback", "unlock"}, Goto(c, a)
  PROVE  UndoInv'
<1>1. a \in Places
  BY DEF Places
<1>2. Only(c) /\ cmd'[c].at = a
  BY <1>1, GotoDoes DEF IInv
<1> QED
  BY <1>2, Away, StandsAgain

LEMMA ResolvedStands ==
  ASSUME IInv, UndoInv, NEW c \in Commands, NEW s \in Releases, Resolved(c, s),
         UNCHANGED <<index, active>>
  PROVE  UndoInv'
<1>1. s \in Snapshots
  BY DEF Snapshots
<1>2. Only(c) /\ cmd'[c].at = "resolved" /\ cmd'[c].snapshot = s
  BY <1>1, ResolvedDoes DEF IInv
<1>3. Standing(c)'
  BY <1>2 DEF Standing
<1> QED
  BY <1>2, <1>3, StandsAgain

LEMMA VerifyingStands ==
  ASSUME IInv, UndoInv, NEW c \in Commands,
         Begin(c) \/ (\E f \in Files : Fetch(c, f)) \/ WriteCache(c) \/ WriteLast(c) \/ FallBack(c)
  PROVE  UndoInv'
<1>1. UNCHANGED <<index, active>>
  BY DEF Begin, Fetch, WriteCache, WriteLast, FallBack, files
<1>2. CASE Begin(c)
  <2>1. PICK kind \in Kinds, t \in Targets, off \in BOOLEAN :
          cmd' = [cmd EXCEPT ![c] =
           [@ EXCEPT !.kind = kind, !.target = t, !.rel = release,
                     !.known = CachedFor(release),
                     !.at = IF kind = "rollback" THEN "lock"
                            ELSE IF off THEN "fallback" ELSE "verify"]]
    BY <1>2 DEF Begin, Kinds
  <2> DEFINE a == IF kind = "rollback" THEN "lock" ELSE IF off THEN "fallback" ELSE "verify"
             r == [cmd[c] EXCEPT !.kind = kind, !.target = t, !.rel = release,
                                 !.known = CachedFor(release), !.at = a]
  <2>2. cmd[c] \in Command
    BY DEF IInv, CommandsTyped
  <2>3. r.at = a /\ r.kind = kind
    BY <2>2 DEF Command
  <2>4. a \in {"lock", "fallback", "verify"} /\ (a = "lock" => kind = "rollback")
    OBVIOUS
  <2>5. cmd' = [cmd EXCEPT ![c] = r]
    BY <2>1
  <2> HIDE DEF a, r
  <2>6. Only(c) /\ cmd'[c].at = a /\ cmd'[c].kind = kind
    BY <2>3, <2>5, CmdIs DEF IInv
  <2>7. Standing(c)'
    BY <2>4, <2>6 DEF Standing
  <2> QED
    BY <1>1, <2>6, <2>7, StandsAgain
<1>3. ASSUME NEW f \in Files, Fetch(c, f) PROVE UndoInv'
  <2>1. CASE End(c)
    BY <1>1, <2>1, EndStands
  <2>2. CASE Goto(c, "fallback")
    BY <1>1, <2>2, GotoStands
  <2>3. CASE cmd' = [cmd EXCEPT ![c].got = @ \cup {f}]
    <3> DEFINE r == [cmd[c] EXCEPT !.got = @ \cup {f}]
    <3>1. cmd[c] \in Command /\ cmd[c].at = "verify"
      BY <1>3 DEF IInv, CommandsTyped, Fetch
    <3>2. r.at = "verify"
      BY <3>1 DEF Command
    <3>3. cmd' = [cmd EXCEPT ![c] = r]
      BY <2>3
    <3> HIDE DEF r
    <3>4. Only(c) /\ cmd'[c].at = "verify"
      BY <3>2, <3>3, CmdIs DEF IInv
    <3> QED
      BY <1>1, <3>4, Away, StandsAgain
  <2> QED
    BY <1>3, <2>1, <2>2, <2>3 DEF Fetch
<1>4. CASE WriteCache(c)
  BY <1>1, <1>4, GotoStands DEF WriteCache
<1>5. CASE WriteLast(c)
  <2>1. cmd[c].rel \in Releases
    BY <1>5, UnderWay DEF WriteLast
  <2> QED
    BY <1>1, <1>5, <2>1, ResolvedStands DEF WriteLast
<1>6. CASE FallBack(c)
  <2> DEFINE s == IF Validates(c, last) THEN last ELSE cmd[c].rel
  <2>1. cmd[c].rel \in Releases
    BY <1>6, UnderWay DEF FallBack
  <2>2. s \in Releases
    BY <2>1 DEF IInv, TypeOK, Snapshots, Validates
  <2> QED
    BY <1>1, <1>6, <2>2, ResolvedStands DEF FallBack
<1> QED
  BY <1>2, <1>3, <1>4, <1>5, <1>6

LEMMA PlainStands ==
  ASSUME IInv, UndoInv, NEW c \in Commands,
         Compare(c) \/ TakeLock(c) \/ NothingToRestore(c) \/ Unlock(c) \/ WriteFails(c) \/ Crash(c)
  PROVE  UndoInv'
<1>1. UNCHANGED <<index, active>>
  BY DEF Compare, TakeLock, NothingToRestore, Unlock, WriteFails, Crash, files
<1>2. CASE End(c)
  BY <1>1, <1>2, EndStands
<1>3. CASE Goto(c, "unlock")
  BY <1>1, <1>3, GotoStands
<1>4. ASSUME cmd[c].at = "resolved", Goto(c, "lock") PROVE UndoInv'
  <2>1. Only(c) /\ cmd'[c].at = "lock" /\ cmd'[c].snapshot = cmd[c].snapshot
    BY <1>4, GotoDoes DEF IInv, Places
  <2>2. Standing(c)'
    BY <1>4, <2>1 DEF Standing, UndoInv
  <2> QED
    BY <1>1, <2>1, <2>2, StandsAgain
<1>5. ASSUME cmd[c].at = "lock", Goto(c, cmd[c].kind) PROVE UndoInv'
  <2>1. cmd[c].kind \in Kinds
    BY <1>5, UnderWay
  <2>2. CASE cmd[c].kind = "rollback"
    BY <1>1, <1>5, <2>2, GotoStands
  <2>3. CASE cmd[c].kind = "apply"
    <3>1. Only(c) /\ cmd'[c].at = "apply" /\ cmd'[c].snapshot = cmd[c].snapshot
      BY <1>5, <2>3, GotoDoes DEF IInv, Places
    <3>2. Standing(c)'
      BY <1>5, <2>3, <3>1 DEF Standing, UndoInv
    <3> QED
      BY <1>1, <3>1, <3>2, StandsAgain
  <2> QED
    BY <2>1, <2>2, <2>3 DEF Kinds
<1> QED
  BY <1>2, <1>3, <1>4, <1>5 DEF Compare, TakeLock, NothingToRestore, Unlock, WriteFails, Crash

LEMMA BackupStands ==
  ASSUME IInv, UndoInv, NEW c \in Commands, ReadActive(c) \/ WriteBackup(c)
  PROVE  UndoInv'
<1>1. UNCHANGED <<index, active>>
  BY DEF ReadActive, WriteBackup, files
<1>2. CASE ReadActive(c)
  <2> DEFINE now == active[cmd[c].target]
             a == IF now = cmd[c].snapshot THEN "unlock"
                  ELSE IF now = Absent THEN "journal"
                  ELSE IF Validates(c, now) THEN "backup" ELSE "unlock"
             r == [cmd[c] EXCEPT !.before = now, !.at = a]
  <2>1. cmd[c].at = "apply" /\ cmd' = [cmd EXCEPT ![c] = r]
    BY <1>2 DEF ReadActive
  <2>2. cmd[c] \in Command /\ cmd[c].snapshot \in Releases
    BY <2>1 DEF IInv, CommandsTyped, UndoInv, Standing
  <2>3. /\ r.at = a /\ r.before = now /\ r.target = cmd[c].target /\ r.snapshot = cmd[c].snapshot
    BY <2>2 DEF Command
  <2>4. a \in {"unlock", "journal", "backup"} /\ (a # "unlock" => now # cmd[c].snapshot)
    OBVIOUS
  <2> HIDE DEF a, r
  <2>5. Only(c) /\ cmd'[c] = r
    BY <2>1, CmdIs DEF IInv
  <2>6. Standing(c)'
    BY <1>1, <2>2, <2>3, <2>4, <2>5 DEF Standing
  <2> QED
    BY <1>1, <2>5, <2>6, StandsAgain
<1>3. CASE WriteBackup(c)
  <2>1. cmd[c].at = "backup" /\ Goto(c, "journal")
    BY <1>3 DEF WriteBackup
  <2>2. /\ Only(c) /\ cmd'[c].at = "journal" /\ cmd'[c].snapshot = cmd[c].snapshot
        /\ cmd'[c].before = cmd[c].before /\ cmd'[c].target = cmd[c].target
    BY <2>1, GotoDoes DEF IInv, Places
  <2>3. Standing(c)'
    BY <1>1, <2>1, <2>2 DEF Standing, UndoInv
  <2> QED
    BY <1>1, <2>2, <2>3, StandsAgain
<1> QED
  BY <1>2, <1>3

LEMMA WriteEntryAppends ==
  ASSUME IInv, NEW c \in Commands, WriteEntry(c)
  PROVE  /\ Len(index') = Len(index) + 1 /\ DOMAIN index' = 1 .. Len(index) + 1
         /\ \A i \in DOMAIN index : index'[i] = index[i]
         /\ index'[Len(index) + 1] = [id |-> c, target |-> cmd[c].target, before |-> cmd[c].before]
<1> DEFINE E == [id : Commands, target : Targets, before : Snapshots]
           e == [id |-> c, target |-> cmd[c].target, before |-> cmd[c].before]
<1>1. index' = Append(index, e) /\ cmd[c].at = "journal"
  BY DEF WriteEntry
<1>2. index \in Seq(E) /\ e \in E
  BY <1>1, UnderWay, JournalIs DEF IInv
<1> HIDE DEF E, e
<1>3. /\ Len(index') = Len(index) + 1 /\ DOMAIN index' = 1 .. Len(index) + 1
      /\ \A i \in DOMAIN index : index'[i] = index[i]
      /\ index'[Len(index) + 1] = e
  BY <1>1, <1>2
<1> QED
  BY <1>3 DEF e

LEMMA WriteEntryStands ==
  ASSUME IInv, UndoInv, NEW c \in Commands, WriteEntry(c)
  PROVE  UndoInv'
<1> DEFINE n == Len(index) + 1
<1>1. cmd[c].at = "journal" /\ Goto(c, "install") /\ active' = active
  BY DEF WriteEntry
<1>2. /\ Len(index') = n /\ DOMAIN index' = 1 .. n
      /\ \A i \in DOMAIN index : index'[i] = index[i]
      /\ index'[n] = [id |-> c, target |-> cmd[c].target, before |-> cmd[c].before]
      /\ Len(index) \in Nat /\ DOMAIN index = 1 .. Len(index)
  BY WriteEntryAppends, JournalIs DEF IInv
<1>3. /\ Only(c) /\ cmd'[c].at = "install" /\ cmd'[c].snapshot = cmd[c].snapshot
      /\ cmd'[c].before = cmd[c].before /\ cmd'[c].target = cmd[c].target
  BY <1>1, GotoDoes DEF IInv, Places
<1>4. Standing(c)'
  BY <1>1, <1>2, <1>3 DEF Standing, UndoInv
<1>5. \A d \in Commands : Standing(d)'
  BY <1>1, <1>3, <1>4, OthersStand DEF Inside, Writing
<1>6. \A i \in DOMAIN index : index[i].id # c
  BY <1>1 DEF IInv, Journalled
<1>7. IdsOnce'
  <2> SUFFICES ASSUME NEW i \in DOMAIN index', NEW j \in DOMAIN index', index'[i].id = index'[j].id
               PROVE  i = j
    BY DEF IdsOnce
  <2>1. \A k \in DOMAIN index' : k = n \/ k \in DOMAIN index
    BY <1>2
  <2>2. index'[n].id = c
    BY <1>2
  <2> QED
    BY <1>2, <1>6, <2>1, <2>2 DEF UndoInv, IdsOnce
<1> QED
  BY <1>5, <1>7 DEF UndoInv

LEMMA WriteActiveStands ==
  ASSUME IInv, UndoInv, NEW c \in Commands, WriteActive(c)
  PROVE  UndoInv'
<1>1. cmd[c].at \in Inside /\ Goto(c, "unlock") /\ index' = index
  BY DEF WriteActive, Inside, Writing
<1>2. Only(c) /\ cmd'[c].at = "unlock"
  BY <1>1, GotoDoes DEF IInv, Places
<1>3. \A d \in Commands : Standing(d)'
  BY <1>1, <1>2, Away, OthersStand
<1> QED
  BY <1>1, <1>3 DEF UndoInv, IdsOnce

\* What a rollback restores.
LEMMA Restores ==
  ASSUME IInv, NEW c \in Commands, Restore(c)
  PROVE  /\ cmd[c].at = "rollback" /\ cmd[c].target \in Targets /\ index' = index
         /\ Latest(cmd[c].target) \in EntriesOf(cmd[c].target)
         /\ \A j \in EntriesOf(cmd[c].target) : j <= Latest(cmd[c].target)
         /\ \/ Goto(c, "unlock") /\ UNCHANGED active
            \/ /\ active' = [active EXCEPT ![cmd[c].target] = index[Latest(cmd[c].target)].before]
               /\ Only(c) /\ cmd'[c].at = "drop" /\ cmd'[c].entry = Latest(cmd[c].target)
               /\ cmd'[c].target = cmd[c].target
<1> DEFINE n == Latest(cmd[c].target)
<1>1. /\ cmd[c].at = "rollback" /\ EntriesOf(cmd[c].target) # {} /\ index' = index
  BY DEF Restore
<1>2. cmd[c] \in Command /\ cmd[c].target \in Targets
  BY <1>1, UnderWay
<1>3. n \in EntriesOf(cmd[c].target) /\ \A j \in EntriesOf(cmd[c].target) : j <= n
  BY <1>1, <1>2, LatestIsThere DEF IInv
<1>4. ASSUME cmd' = [cmd EXCEPT ![c].entry = n, ![c].at = "drop"]
      PROVE  Only(c) /\ cmd'[c].at = "drop" /\ cmd'[c].entry = n /\ cmd'[c].target = cmd[c].target
  <2> HIDE DEF n
  <2> DEFINE r == [cmd[c] EXCEPT !.entry = n, !.at = "drop"]
  <2>1. r.at = "drop" /\ r.entry = n /\ r.target = cmd[c].target
    BY <1>2 DEF Command
  <2>2. cmd' = [cmd EXCEPT ![c] = r]
    BY <1>4
  <2> HIDE DEF r
  <2> QED
    BY <2>1, <2>2, CmdIs DEF IInv
<1>5. \/ Goto(c, "unlock") /\ UNCHANGED active
      \/ /\ active' = [active EXCEPT ![cmd[c].target] = index[n].before]
         /\ cmd' = [cmd EXCEPT ![c].entry = n, ![c].at = "drop"]
  BY DEF Restore
<1> QED
  BY <1>1, <1>2, <1>3, <1>4, <1>5

LEMMA RestoreStands ==
  ASSUME IInv, UndoInv, NEW c \in Commands, Restore(c)
  PROVE  UndoInv'
<1> DEFINE T == cmd[c].target
           n == Latest(T)
<1>1. /\ cmd[c].at = "rollback" /\ T \in Targets /\ index' = index
      /\ n \in EntriesOf(T) /\ \A j \in EntriesOf(T) : j <= n
  BY Restores
<1>2. CASE Goto(c, "unlock") /\ UNCHANGED active
  BY <1>1, <1>2, GotoStands
<1>3. ASSUME active' = [active EXCEPT ![T] = index[n].before],
             Only(c), cmd'[c].at = "drop", cmd'[c].entry = n, cmd'[c].target = T
      PROVE  UndoInv'
  <2>1. active'[T] = index[n].before
    BY <1>1, <1>3 DEF IInv, TypeOK
  <2> HIDE DEF n, T
  <2>2. Standing(c)'
    BY <1>1, <1>3, <2>1 DEF Standing, EntriesOf
  <2>3. \A d \in Commands : Standing(d)'
    BY <1>1, <1>3, <2>2, OthersStand DEF Inside, Writing
  <2> QED
    BY <1>1, <2>3 DEF UndoInv, IdsOnce
<1> QED
  BY <1>2, <1>3, Restores

\* What is left when an entry is dropped.
LEMMA DropRemoves ==
  ASSUME IInv, NEW c \in Commands, DropEntry(c)
  PROVE  LET n == cmd[c].entry IN
         /\ cmd[c].at = "drop" /\ active' = active /\ n \in DOMAIN index
         /\ Len(index) \in Nat /\ DOMAIN index = 1 .. Len(index)
         /\ DOMAIN index' = 1 .. Len(index) - 1
         /\ \A i \in 1 .. Len(index) - 1 : index'[i] = IF i < n THEN index[i] ELSE index[i + 1]
<1> DEFINE E == [id : Commands, target : Targets, before : Snapshots]
           n == cmd[c].entry
<1>1. /\ cmd[c].at = "drop" /\ active' = active /\ index' = RemoveAt(index, n)
  BY DEF DropEntry
<1>2. n \in DOMAIN index /\ index \in Seq(E) /\ Len(index) \in Nat /\ DOMAIN index = 1 .. Len(index)
  BY <1>1, JournalIs DEF IInv, DropsItsOwn
<1> HIDE DEF E, n
<1>3. /\ DOMAIN index' = 1 .. Len(index) - 1
      /\ \A i \in 1 .. Len(index) - 1 : index'[i] = IF i < n THEN index[i] ELSE index[i + 1]
  BY <1>1, <1>2, Removed
<1> QED
  BY <1>1, <1>2, <1>3 DEF n

LEMMA DropEntryStands ==
  ASSUME IInv, UndoInv, NEW c \in Commands, DropEntry(c)
  PROVE  UndoInv'
<1> DEFINE n == cmd[c].entry
<1>1. /\ cmd[c].at = "drop" /\ active' = active /\ n \in DOMAIN index
      /\ Len(index) \in Nat /\ DOMAIN index = 1 .. Len(index)
      /\ DOMAIN index' = 1 .. Len(index) - 1
      /\ \A i \in 1 .. Len(index) - 1 : index'[i] = IF i < n THEN index[i] ELSE index[i + 1]
  BY DropRemoves
<1>2. Only(c) /\ cmd'[c].at = "unlock"
  BY GotoDoes DEF DropEntry, IInv, Places
<1>3. \A d \in Commands : Standing(d)'
  BY <1>1, <1>2, Away, OthersStand DEF Inside, Writing
<1> HIDE DEF n
<1>4. IdsOnce'
  <2> SUFFICES ASSUME NEW i \in DOMAIN index', NEW j \in DOMAIN index', index'[i].id = index'[j].id
               PROVE  i = j
    BY DEF IdsOnce
  <2> DEFINE at(k) == IF k < n THEN k ELSE k + 1
  <2>1. /\ index'[i] = index[at(i)] /\ at(i) \in DOMAIN index
        /\ index'[j] = index[at(j)] /\ at(j) \in DOMAIN index
    BY <1>1
  <2>2. at(i) = at(j)
    BY <2>1 DEF UndoInv, IdsOnce
  <2> QED
    BY <1>1, <2>2
<1> QED
  BY <1>3, <1>4 DEF UndoInv

LEMMA UndoInductive == IInv /\ UndoInv /\ [Next]_vars => UndoInv'
<1> SUFFICES ASSUME IInv, UndoInv, [Next]_vars PROVE UndoInv'
  OBVIOUS
<1>1. ASSUME NEW c \in Commands,
             \/ Begin(c) \/ WriteCache(c) \/ WriteLast(c) \/ FallBack(c) \/ Compare(c)
             \/ TakeLock(c) \/ ReadActive(c) \/ WriteBackup(c) \/ WriteEntry(c) \/ WriteActive(c)
             \/ Restore(c) \/ NothingToRestore(c) \/ DropEntry(c) \/ Unlock(c)
             \/ WriteFails(c) \/ Crash(c)
      PROVE  UndoInv'
  BY <1>1, VerifyingStands, PlainStands, BackupStands, WriteEntryStands, WriteActiveStands,
     RestoreStands, DropEntryStands
<1>2. ASSUME NEW c \in Commands, NEW f \in Files, Fetch(c, f) PROVE UndoInv'
  BY <1>2, VerifyingStands
<1>3. CASE RemoveStaleLock \/ Upgrade \/ UNCHANGED vars
  <2>1. UNCHANGED <<index, active, cmd>>
    BY <1>3 DEF RemoveStaleLock, Upgrade, vars, files
  <2> QED
    BY <2>1 DEF UndoInv, IdsOnce, Standing, EntriesOf
<1> QED
  BY <1>1, <1>2, <1>3 DEF Next

------------------------------------------------------------------------------
(* The journal is an undo log: what each step undoes or keeps *)

\* What can be undone by the entry i.
Installed(t, i) == [id |-> index[i].id, before |-> index[i].before,
              older |-> {index[j].id : j \in {k \in Effective(t) : k < i}}]

LEMMA UndoneIs ==
  ASSUME NEW t
  PROVE  Undone(t) = {Installed(t, i) : i \in Effective(t)} /\ (Undone(t) = {Installed(t, i) : i \in Effective(t)})'
  BY DEF Undone, Installed

\* The entry i is the last of its target; the entry j is the next one after it.
IsLast(t, i) == i \in EntriesOf(t) /\ \A j \in EntriesOf(t) : j <= i
NextIs(t, i, j) == /\ j \in EntriesOf(t) /\ j > i
                   /\ \A k \in EntriesOf(t) : k > i => j <= k

LEMMA EntriesAreNumbers ==
  ASSUME TypeOK, NEW t
  PROVE  EntriesOf(t) \subseteq Nat
  BY JournalIs DEF EntriesOf

LEMMA EffectiveIs ==
  ASSUME NEW t, EntriesOf(t) \subseteq Nat
  PROVE  \A i : i \in Effective(t) <=>
           \/ IsLast(t, i) /\ index[i].before # active[t]
           \/ i \in EntriesOf(t) /\ \E j : NextIs(t, i, j) /\ index[i].before # index[j].before
<1>1. ASSUME NEW i \in EntriesOf(t)
      PROVE  {j \in EntriesOf(t) : j > i} = {} <=> \A j \in EntriesOf(t) : j <= i
  OBVIOUS
<1> QED
  BY <1>1 DEF Effective, IsLast, NextIs

LEMMA EffectiveWillBe ==
  ASSUME NEW t, EntriesOf(t)' \subseteq Nat
  PROVE  \A i : i \in Effective(t)' <=>
           \/ IsLast(t, i)' /\ index'[i].before # active'[t]
           \/ i \in EntriesOf(t)' /\ \E j : NextIs(t, i, j)' /\ index'[i].before # index'[j].before
<1>1. ASSUME NEW i \in EntriesOf(t)'
      PROVE  {j \in EntriesOf(t)' : j > i} = {} <=> \A j \in EntriesOf(t)' : j <= i
  OBVIOUS
<1> QED
  BY <1>1 DEF Effective, IsLast, NextIs

\* A step that renumbers the effective entries in their order keeps what can be undone.
LEMMA SameUndone ==
  ASSUME NEW t, NEW p,
         \A i \in Effective(t)' : /\ p[i] \in Effective(t)
                                  /\ index'[i].id = index[p[i]].id
                                  /\ index'[i].before = index[p[i]].before,
         \A j \in Effective(t) : \E i \in Effective(t)' : p[i] = j,
         \A i, k \in Effective(t)' : k < i <=> p[k] < p[i]
  PROVE  Undone(t)' = Undone(t)
<1>1. ASSUME NEW i \in Effective(t)'
      PROVE  {index'[j].id : j \in {k \in Effective(t)' : k < i}}
               = {index[j].id : j \in {k \in Effective(t) : k < p[i]}}
  <2> DEFINE A == {index'[j].id : j \in {k \in Effective(t)' : k < i}}
             B == {index[j].id : j \in {k \in Effective(t) : k < p[i]}}
  <2>1. ASSUME NEW x \in A PROVE x \in B
    <3>1. PICK j \in Effective(t)' : j < i /\ x = index'[j].id
      OBVIOUS
    <3>2. p[j] \in Effective(t) /\ p[j] < p[i] /\ x = index[p[j]].id
      BY <3>1
    <3> QED
      BY <3>2
  <2>2. ASSUME NEW x \in B PROVE x \in A
    <3>1. PICK j \in Effective(t) : j < p[i] /\ x = index[j].id
      OBVIOUS
    <3>2. PICK k \in Effective(t)' : p[k] = j
      BY <3>1
    <3>3. k < i /\ x = index'[k].id
      BY <3>1, <3>2
    <3> QED
      BY <3>3
  <2> QED
    BY <2>1, <2>2
<1>2. ASSUME NEW i \in Effective(t)' PROVE Installed(t, i)' = Installed(t, p[i])
  BY <1>1 DEF Installed
<1>3. \A e \in Undone(t)' : e \in Undone(t)
  BY <1>2, UndoneIs
<1>4. \A e \in Undone(t) : e \in Undone(t)'
  <2> SUFFICES ASSUME NEW j \in Effective(t) PROVE Installed(t, j) \in Undone(t)'
    BY UndoneIs
  <2>1. PICK i \in Effective(t)' : p[i] = j
    OBVIOUS
  <2> QED
    BY <1>2, <2>1, UndoneIs
<1> QED
  BY <1>3, <1>4

LEMMA SameEntries ==
  ASSUME NEW t, Effective(t)' = Effective(t),
         \A i \in Effective(t) : index'[i] = index[i]
  PROVE  Undone(t)' = Undone(t)
<1> DEFINE p == [i \in Effective(t) |-> i]
<1>1. \A i \in Effective(t) : p[i] = i
  OBVIOUS
<1> HIDE DEF p
<1> QED
  BY <1>1, SameUndone

LEMMA UndoneStays ==
  ASSUME NEW t, index' = index, active'[t] = active[t]
  PROVE  Undone(t)' = Undone(t) /\ Effective(t)' = Effective(t)
<1>1. Effective(t)' = Effective(t)
  BY DEF Effective, EntriesOf
<1> QED
  BY <1>1, SameEntries

LEMMA StutterLog ==
  ASSUME active' = active, \A t \in Targets : Undone(t)' = Undone(t)
  PROVE  UNCHANGED Log!vars
  BY DEF Log!vars

LEMMA WriteEntryRefines ==
  ASSUME IInv, UndoInv, NEW c \in Commands, WriteEntry(c)
  PROVE  UNCHANGED Log!vars
<1>0. PICK n, T : n = Len(index) + 1 /\ T = cmd[c].target
  OBVIOUS
<1>1. cmd[c].at = "journal" /\ active' = active
  BY DEF WriteEntry
<1>2. /\ DOMAIN index' = 1 .. n
      /\ \A i \in DOMAIN index : index'[i] = index[i]
      /\ index'[n] = [id |-> c, target |-> T, before |-> cmd[c].before]
      /\ Len(index) \in Nat /\ DOMAIN index = 1 .. Len(index)
  BY <1>0, WriteEntryAppends, JournalIs DEF IInv
<1>3. index'[n].target = T /\ index'[n].before = active[T]
  BY <1>0, <1>1, <1>2 DEF UndoInv, Standing
<1>4. \A i : i \in DOMAIN index' <=> i \in DOMAIN index \/ i = n
  BY <1>0, <1>2
<1>5. \A i \in DOMAIN index : i < n /\ i \in Nat
  BY <1>0, <1>2
<1>6. n \in Nat
  BY <1>0, <1>2
<1>7. ASSUME NEW t \in Targets
      PROVE  Undone(t)' = Undone(t)
  <2>1. \A i : i \in EntriesOf(t)' <=> i \in EntriesOf(t) \/ (i = n /\ t = T)
    BY <1>2, <1>3, <1>4, <1>5, <1>6 DEF EntriesOf
  <2>2. \A i \in EntriesOf(t) : i < n /\ i \in Nat /\ index'[i] = index[i]
    BY <1>2, <1>5 DEF EntriesOf
  <2>3. EntriesOf(t) \subseteq Nat /\ EntriesOf(t)' \subseteq Nat
    BY <1>6, <2>1, <2>2
  <2>4. CASE t # T
    <3>1. EntriesOf(t)' = EntriesOf(t)
      BY <2>1, <2>4
    <3>2. \A i : i \in Effective(t)' <=> i \in Effective(t)
      BY <1>1, <2>2, <2>3, <3>1, EffectiveIs, EffectiveWillBe DEF IsLast, NextIs
    <3> QED
      BY <2>2, <3>2, SameEntries DEF Effective
  <2>5. CASE t = T
    <3>1. \A i \in EntriesOf(t) : IsLast(t, i) <=> NextIs(t, i, n)'
      BY <1>6, <2>1, <2>2, <2>5 DEF IsLast, NextIs
    <3>2. \A i, j \in EntriesOf(t) : NextIs(t, i, j) <=> NextIs(t, i, j)'
      BY <1>6, <2>1, <2>2, <2>5 DEF IsLast, NextIs
    <3>3. \A i : IsLast(t, i)' <=> i = n
      BY <1>6, <2>1, <2>2, <2>5 DEF IsLast, NextIs
    <3>4. \A j : ~NextIs(t, n, j)'
      BY <1>6, <2>1, <2>2 DEF NextIs
    <3>5. ASSUME NEW i \in EntriesOf(t)
          PROVE  i \in Effective(t)' <=> i \in Effective(t)
      <4>1. i \in Effective(t)' <=>
              \/ NextIs(t, i, n)' /\ index'[i].before # index'[n].before
              \/ \E j \in EntriesOf(t) : NextIs(t, i, j)' /\ index'[i].before # index'[j].before
        BY <2>1, <2>2, <2>3, <3>3, EffectiveWillBe DEF NextIs
      <4>2. i \in Effective(t) <=>
              \/ IsLast(t, i) /\ index[i].before # active[t]
              \/ \E j \in EntriesOf(t) : NextIs(t, i, j) /\ index[i].before # index[j].before
        BY <2>3, EffectiveIs DEF NextIs
      <4> QED
        BY <1>3, <2>2, <2>5, <3>1, <3>2, <4>1, <4>2
    <3>6. n \notin Effective(t)'
      BY <1>1, <1>3, <2>3, <2>5, <3>4, EffectiveWillBe
    <3>7. Effective(t)' \subseteq EntriesOf(t)' /\ Effective(t) \subseteq EntriesOf(t)
      BY DEF Effective
    <3>8. Effective(t)' = Effective(t)
      BY <2>1, <3>5, <3>6, <3>7
    <3> QED
      BY <2>2, <3>7, <3>8, SameEntries
  <2> QED
    BY <2>4, <2>5
<1> QED
  BY <1>1, <1>7, StutterLog

LEMMA DropEntryRefines ==
  ASSUME IInv, UndoInv, NEW c \in Commands, DropEntry(c)
  PROVE  UNCHANGED Log!vars
<1> DEFINE n == cmd[c].entry
           T == cmd[c].target
           L == Len(index)
           up(i) == IF i < n THEN i ELSE i + 1
<1>1. /\ cmd[c].at = "drop" /\ active' = active /\ n \in DOMAIN index
      /\ L \in Nat /\ DOMAIN index = 1 .. L /\ DOMAIN index' = 1 .. L - 1
      /\ \A i \in 1 .. L - 1 : index'[i] = IF i < n THEN index[i] ELSE index[i + 1]
  BY DropRemoves
<1>2. IsLast(T, n) /\ index[n].before = active[T]
  BY <1>1 DEF UndoInv, Standing, IsLast
<1> HIDE DEF n, T, L
<1>3. \A i \in 1 .. L - 1 : up(i) \in DOMAIN index /\ up(i) # n /\ index'[i] = index[up(i)]
  BY <1>1
<1>4. \A j \in DOMAIN index : j # n => \E i \in 1 .. L - 1 : up(i) = j
  <2> SUFFICES ASSUME NEW j \in DOMAIN index, j # n
               PROVE  \E i \in 1 .. L - 1 : up(i) = j
    OBVIOUS
  <2>1. CASE j < n
    <3>1. j \in 1 .. L - 1 /\ up(j) = j
      BY <1>1, <2>1
    <3> QED
      BY <3>1
  <2>2. CASE ~(j < n)
    <3>1. j - 1 \in 1 .. L - 1 /\ up(j - 1) = j
      BY <1>1, <2>2
    <3> QED
      BY <3>1
  <2> QED
    BY <2>1, <2>2
<1>5. \A i, k \in 1 .. L - 1 : (k < i <=> up(k) < up(i)) /\ (k <= i <=> up(k) <= up(i))
  BY <1>1
<1>6. n \in Nat /\ \A i \in 1 .. L - 1 : i \in Nat /\ up(i) \in Nat
  BY <1>1
<1> HIDE DEF up
<1>7. ASSUME NEW t \in Targets
      PROVE  Undone(t)' = Undone(t)
  <2>1. \A i : i \in EntriesOf(t)' <=> i \in 1 .. L - 1 /\ up(i) \in EntriesOf(t)
    BY <1>1, <1>3 DEF EntriesOf
  <2>2. \A j \in EntriesOf(t) : j = n \/ \E i \in EntriesOf(t)' : up(i) = j
    BY <1>4, <2>1 DEF EntriesOf
  <2>3. EntriesOf(t) \subseteq Nat /\ EntriesOf(t)' \subseteq Nat
    BY <1>6, <2>1, EntriesAreNumbers DEF IInv
  <2>4. \A i \in EntriesOf(t)' : index'[i] = index[up(i)] /\ up(i) # n
    BY <1>3, <2>1
  <2>5. n \in EntriesOf(t) => t = T
    BY <1>2 DEF EntriesOf, IsLast
  <2>6. t = T => \A j \in EntriesOf(t) : j <= n
    BY <1>2 DEF IsLast
  <2>7. \A i, j \in EntriesOf(t)' : NextIs(t, i, j)' <=> NextIs(t, up(i), up(j))
    <3> SUFFICES ASSUME NEW i \in EntriesOf(t)', NEW j \in EntriesOf(t)'
                 PROVE  NextIs(t, i, j)' <=> NextIs(t, up(i), up(j))
      OBVIOUS
    <3>1. ASSUME NextIs(t, i, j)' PROVE NextIs(t, up(i), up(j))
      <4>1. up(j) \in EntriesOf(t) /\ up(j) > up(i) /\ up(j) \in Nat
        BY <1>5, <1>6, <2>1, <3>1 DEF NextIs
      <4>2. ASSUME NEW k \in EntriesOf(t), k > up(i) PROVE up(j) <= k
        <5>1. CASE k = n
          BY <2>5, <2>6, <4>1, <5>1
        <5>2. CASE k # n
          <6>1. PICK m \in EntriesOf(t)' : up(m) = k
            BY <2>2, <5>2
          <6>2. m > i
            BY <1>5, <2>1, <4>2, <6>1
          <6>3. j <= m
            BY <3>1, <6>2 DEF NextIs
          <6> QED
            BY <1>5, <2>1, <6>1, <6>3
        <5> QED
          BY <5>1, <5>2
      <4> QED
        BY <4>1, <4>2 DEF NextIs
    <3>2. ASSUME NextIs(t, up(i), up(j)) PROVE NextIs(t, i, j)'
      <4>1. j > i
        BY <1>5, <2>1, <3>2 DEF NextIs
      <4>2. ASSUME NEW k \in EntriesOf(t)', k > i PROVE j <= k
        <5>1. up(k) \in EntriesOf(t) /\ up(k) > up(i)
          BY <1>5, <2>1, <4>2
        <5>2. up(j) <= up(k)
          BY <3>2, <5>1 DEF NextIs
        <5> QED
          BY <1>5, <2>1, <5>2
      <4> QED
        BY <4>1, <4>2 DEF NextIs
    <3> QED
      BY <3>1, <3>2
  <2>8. \A i \in EntriesOf(t)' : IsLast(t, i)' <=> IsLast(t, up(i)) \/ NextIs(t, up(i), n)
    <3> SUFFICES ASSUME NEW i \in EntriesOf(t)'
                 PROVE  IsLast(t, i)' <=> IsLast(t, up(i)) \/ NextIs(t, up(i), n)
      OBVIOUS
    <3>1. up(i) \in EntriesOf(t) /\ up(i) \in Nat /\ i \in Nat
      BY <1>6, <2>1
    <3>2. ASSUME IsLast(t, i)' PROVE IsLast(t, up(i)) \/ NextIs(t, up(i), n)
      <4>1. ASSUME NEW k \in EntriesOf(t), k # n PROVE k <= up(i)
        <5>1. PICK m \in EntriesOf(t)' : up(m) = k
          BY <2>2, <4>1
        <5>2. m <= i
          BY <3>2 DEF IsLast
        <5> QED
          BY <1>5, <2>1, <5>1, <5>2
      <4>2. CASE n \in EntriesOf(t)
        <5>1. up(i) < n
          BY <1>6, <2>4, <2>5, <2>6, <3>1, <4>2
        <5>2. \A k \in EntriesOf(t) : k > up(i) => k = n
          BY <2>3, <3>1, <4>1
        <5>3. NextIs(t, up(i), n)
          BY <1>6, <4>2, <5>1, <5>2 DEF NextIs
        <5> QED
          BY <5>3
      <4>3. CASE n \notin EntriesOf(t)
        BY <3>1, <4>1, <4>3 DEF IsLast
      <4> QED
        BY <4>2, <4>3
    <3>3. ASSUME IsLast(t, up(i)) \/ NextIs(t, up(i), n) PROVE IsLast(t, i)'
      <4>1. ASSUME NEW k \in EntriesOf(t)' PROVE k <= i
        <5>1. up(k) \in EntriesOf(t) /\ up(k) \in Nat /\ up(k) # n
          BY <1>6, <2>1, <2>4
        <5>2. CASE IsLast(t, up(i))
          BY <1>5, <2>1, <5>1, <5>2 DEF IsLast
        <5>3. CASE NextIs(t, up(i), n)
          <6>1. up(k) <= n /\ (up(k) > up(i) => n <= up(k))
            BY <2>5, <2>6, <5>1, <5>3 DEF NextIs
          <6>2. up(k) <= up(i)
            BY <1>6, <3>1, <5>1, <6>1
          <6> QED
            BY <1>5, <2>1, <6>2
        <5> QED
          BY <3>3, <5>2, <5>3
      <4> QED
        BY <4>1 DEF IsLast
    <3> QED
      BY <3>2, <3>3
  <2>9. ASSUME NEW i \in EntriesOf(t)'
        PROVE  i \in Effective(t)' <=> up(i) \in Effective(t)
    <3>1. i \in Effective(t)' <=>
            \/ IsLast(t, i)' /\ index[up(i)].before # active[t]
            \/ \E j \in EntriesOf(t)' : NextIs(t, i, j)' /\ index[up(i)].before # index[up(j)].before
      BY <1>1, <2>3, <2>4, EffectiveWillBe DEF NextIs
    <3>2. up(i) \in Effective(t) <=>
            \/ IsLast(t, up(i)) /\ index[up(i)].before # active[t]
            \/ \E j \in EntriesOf(t) : NextIs(t, up(i), j) /\ index[up(i)].before # index[j].before
      BY <2>1, <2>3, EffectiveIs DEF NextIs
    <3>3. (\E j \in EntriesOf(t) : NextIs(t, up(i), j) /\ index[up(i)].before # index[j].before)
            <=> \/ NextIs(t, up(i), n) /\ index[up(i)].before # index[n].before
                \/ \E j \in EntriesOf(t)' : NextIs(t, up(i), up(j)) /\ index[up(i)].before # index[up(j)].before
      BY <2>1, <2>2 DEF NextIs
    <3>4. NextIs(t, up(i), n) => index[n].before = active[t]
      BY <1>2, <2>5 DEF NextIs
    <3> QED
      BY <2>7, <2>8, <3>1, <3>2, <3>3, <3>4
  <2>10. Effective(t)' \subseteq EntriesOf(t)' /\ Effective(t) \subseteq EntriesOf(t)
    BY DEF Effective
  <2>11. n \notin Effective(t)
    <3> SUFFICES ASSUME n \in Effective(t) PROVE FALSE
      OBVIOUS
    <3>1. t = T /\ \A j : ~NextIs(t, n, j)
      BY <1>6, <2>3, <2>5, <2>6, <2>10 DEF NextIs
    <3> QED
      BY <1>2, <2>3, <3>1, EffectiveIs
  <2> DEFINE p == [i \in EntriesOf(t)' |-> up(i)]
  <2>12. \A i \in Effective(t)' : p[i] = up(i)
    BY <2>10
  <2> HIDE DEF p
  <2>13. \A i \in Effective(t)' : /\ p[i] \in Effective(t)
                                  /\ index'[i].id = index[p[i]].id
                                  /\ index'[i].before = index[p[i]].before
    BY <2>4, <2>9, <2>10, <2>12
  <2>14. \A j \in Effective(t) : \E i \in Effective(t)' : p[i] = j
    BY <2>2, <2>9, <2>10, <2>11, <2>12
  <2>15. \A i, k \in Effective(t)' : k < i <=> p[k] < p[i]
    BY <1>5, <2>1, <2>10, <2>12
  <2> QED
    BY <2>13, <2>14, <2>15, SameUndone
<1> QED
  BY <1>1, <1>7, StutterLog

LEMMA IdsOfUndone ==
  ASSUME NEW t
  PROVE  Log!IdsOf(Undone(t)) = {index[i].id : i \in Effective(t)}
<1>1. \A i \in Effective(t) : Installed(t, i).id = index[i].id
  BY DEF Installed
<1>2. ASSUME NEW x PROVE x \in Log!IdsOf(Undone(t)) <=> \E i \in Effective(t) : x = index[i].id
  BY <1>1, UndoneIs DEF Log!IdsOf
<1> QED
  BY <1>2

\* The other targets and their installations stay.
LEMMA LogSteps ==
  ASSUME TypeOK, NEW T \in Targets, NEW s, active' = [active EXCEPT ![T] = s], index' = index
  PROVE  /\ [t \in Targets |-> Undone(t)]' = [[t \in Targets |-> Undone(t)] EXCEPT ![T] = Undone(T)']
         /\ [t \in Targets |-> Undone(t)][T] = Undone(T)
<1>1. \A t \in Targets : t # T => active'[t] = active[t]
  BY DEF TypeOK
<1>2. \A t \in Targets : t # T => Undone(t)' = Undone(t)
  BY <1>1, UndoneStays
<1> QED
  BY <1>2

LEMMA WriteActiveRefines ==
  ASSUME IInv, UndoInv, NEW c \in Commands, WriteActive(c)
  PROVE  Log!Next
<1>0. PICK n, T, s : n = Len(index) /\ T = cmd[c].target /\ s = cmd[c].snapshot
  OBVIOUS
<1>1. cmd[c].at = "install" /\ active' = [active EXCEPT ![T] = s] /\ index' = index
  BY <1>0 DEF WriteActive
<1>2. T \in Targets /\ s \in Releases
  BY <1>0, <1>1, UnderWay DEF UndoInv, Standing
<1>3. /\ n \in DOMAIN index /\ index[n].id = c /\ index[n].target = T
      /\ index[n].before = active[T] /\ active[T] # s
  <2>1. Standing(c)
    BY DEF UndoInv
  <2>2. n \in DOMAIN index /\ index[n] = [id |-> c, target |-> T, before |-> cmd[c].before]
    BY <1>0, <1>1, <2>1 DEF Standing
  <2>3. cmd[c].before = active[T] /\ active[T] # s
    BY <1>0, <1>1, <2>1 DEF Standing
  <2> QED
    BY <2>2, <2>3
<1>4. active'[T] = s
  BY <1>1, <1>2 DEF IInv, TypeOK
<1>5. EntriesOf(T) \subseteq Nat /\ EntriesOf(T)' = EntriesOf(T) /\ n \in Nat
  BY <1>1, <1>3, EntriesAreNumbers, JournalIs DEF EntriesOf, IInv
<1>6. IsLast(T, n) /\ \A i : IsLast(T, i) => i = n
  <2>1. \A j \in EntriesOf(T) : j <= n
    BY <1>0, JournalIs DEF EntriesOf, IInv
  <2>2. n \in EntriesOf(T)
    BY <1>3 DEF EntriesOf
  <2> QED
    BY <1>5, <2>1, <2>2 DEF IsLast
<1>7. (\A i : IsLast(T, i)' <=> IsLast(T, i)) /\ \A i, j : NextIs(T, i, j)' <=> NextIs(T, i, j)
  BY <1>5 DEF IsLast, NextIs
<1>8. \A j : ~NextIs(T, n, j)
  BY <1>5, <1>6 DEF IsLast, NextIs
<1>9. n \notin Effective(T) /\ n \in Effective(T)'
  BY <1>1, <1>3, <1>4, <1>5, <1>6, <1>7, <1>8, EffectiveIs, EffectiveWillBe
<1>10. \A i : i # n => (i \in Effective(T)' <=> i \in Effective(T))
  BY <1>1, <1>5, <1>6, <1>7, EffectiveIs, EffectiveWillBe
<1>11. \A i \in Effective(T) : i < n /\ i \in Nat
  <2>1. \A i \in Effective(T) : i \in EntriesOf(T)
    BY DEF Effective
  <2> QED
    BY <1>5, <1>6, <1>9, <2>1 DEF IsLast
<1>12. \A i \in Effective(T) : Installed(T, i)' = Installed(T, i)
  <2> SUFFICES ASSUME NEW i \in Effective(T) PROVE Installed(T, i)' = Installed(T, i)
    OBVIOUS
  <2>1. {k \in Effective(T)' : k < i} = {k \in Effective(T) : k < i}
    BY <1>5, <1>10, <1>11
  <2> QED
    BY <1>1, <2>1 DEF Installed
<1>13. Installed(T, n)' = [id |-> c, before |-> active[T], older |-> Log!IdsOf(Undone(T))]
  <2>1. {k \in Effective(T)' : k < n} = Effective(T)
    BY <1>5, <1>10, <1>11
  <2>2. {index'[j].id : j \in {k \in Effective(T)' : k < n}} = Log!IdsOf(Undone(T))
    BY <1>1, <2>1, IdsOfUndone
  <2> QED
    BY <1>1, <1>3, <2>2 DEF Installed
<1>14. Undone(T)' = Undone(T) \cup {[id |-> c, before |-> active[T], older |-> Log!IdsOf(Undone(T))]}
  <2>1. \A x : x \in Undone(T)' <=> \E i \in Effective(T)' : x = Installed(T, i)'
    BY UndoneIs
  <2>2. \A x : x \in Undone(T) <=> \E i \in Effective(T) : x = Installed(T, i)
    BY UndoneIs
  <2>3. \A i : i \in Effective(T)' <=> i \in Effective(T) \/ i = n
    BY <1>9, <1>10
  <2>4. \A x : x \in Undone(T)' <=> x \in Undone(T) \/ x = Installed(T, n)'
    BY <1>12, <2>1, <2>2, <2>3
  <2> QED
    BY <1>13, <2>4
<1>15. c \notin Log!IdsOf(Undone(T))
  <2>1. \A i \in Effective(T) : i \in DOMAIN index
    BY DEF Effective, EntriesOf
  <2>2. \A i \in Effective(T) : index[i].id # c
    BY <1>3, <1>9, <2>1 DEF UndoInv, IdsOnce
  <2> QED
    BY <2>2, IdsOfUndone
<1>16. Log!Install(T, c, s)
  BY <1>1, <1>2, <1>3, <1>14, <1>15, LogSteps DEF Log!Install, IInv
<1> QED
  BY <1>2, <1>16 DEF Log!Next

LEMMA RestoreRefines ==
  ASSUME IInv, UndoInv, NEW c \in Commands, Restore(c)
  PROVE  Log!Next \/ UNCHANGED Log!vars
<1>0. PICK n, T : T = cmd[c].target /\ n = Latest(T)
  OBVIOUS
<1>1. /\ T \in Targets /\ index' = index /\ IsLast(T, n)
      /\ active' = active \/ active' = [active EXCEPT ![T] = index[n].before]
  BY <1>0, Restores DEF IsLast
<1>2. EntriesOf(T) \subseteq Nat /\ EntriesOf(T)' = EntriesOf(T) /\ n \in Nat /\ n \in DOMAIN index
  BY <1>1, EntriesAreNumbers DEF EntriesOf, IInv, IsLast
<1>3. CASE active' = active
  BY <1>1, <1>3, UndoneStays, StutterLog
<1>4. ASSUME active' = [active EXCEPT ![T] = index[n].before]
      PROVE  Log!Next \/ UNCHANGED Log!vars
  <2>1. active'[T] = index[n].before /\ active \in [Targets -> Snapshots]
    BY <1>1, <1>4 DEF IInv, TypeOK
  <2>2. CASE index[n].before = active[T]
    <3>1. active' = active
      BY <1>1, <1>4, <2>1, <2>2
    <3> QED
      BY <1>3, <3>1
  <2>3. CASE index[n].before # active[T]
    <3>1. (\A i : IsLast(T, i)' <=> IsLast(T, i)) /\ \A i, j : NextIs(T, i, j)' <=> NextIs(T, i, j)
      BY <1>2 DEF IsLast, NextIs
    <3>2. (\A i : IsLast(T, i) => i = n) /\ \A j : ~NextIs(T, n, j)
      BY <1>1, <1>2 DEF IsLast, NextIs
    <3>3. n \in Effective(T) /\ n \notin Effective(T)'
      BY <1>1, <1>2, <2>1, <2>3, <3>1, <3>2, EffectiveIs, EffectiveWillBe
    <3>4. \A i : i # n => (i \in Effective(T)' <=> i \in Effective(T))
      BY <1>1, <1>2, <3>1, <3>2, EffectiveIs, EffectiveWillBe
    <3>5. \A i \in Effective(T) : i \in Nat /\ i \in DOMAIN index /\ (i # n => i < n)
      <4>1. \A i \in Effective(T) : i \in EntriesOf(T)
        BY DEF Effective
      <4> QED
        BY <1>1, <1>2, <4>1 DEF IsLast, EntriesOf
    <3>6. \A i \in Effective(T)' : Installed(T, i)' = Installed(T, i)
      <4> SUFFICES ASSUME NEW i \in Effective(T)' PROVE Installed(T, i)' = Installed(T, i)
        OBVIOUS
      <4>1. i \in Effective(T) /\ i < n /\ i \in Nat
        BY <3>3, <3>4, <3>5
      <4>2. {k \in Effective(T)' : k < i} = {k \in Effective(T) : k < i}
        BY <1>2, <3>4, <3>5, <4>1
      <4> QED
        BY <1>1, <4>2 DEF Installed
    <3>7. \A i, j \in Effective(T) : Installed(T, i) = Installed(T, j) => i = j
      <4>1. \A i : Installed(T, i).id = index[i].id
        BY DEF Installed
      <4> QED
        BY <3>5, <4>1 DEF UndoInv, IdsOnce
    <3>8. Undone(T)' = Undone(T) \ {Installed(T, n)}
      <4>1. \A x : x \in Undone(T)' <=> \E i \in Effective(T)' : x = Installed(T, i)'
        BY UndoneIs
      <4>2. \A x : x \in Undone(T) <=> \E i \in Effective(T) : x = Installed(T, i)
        BY UndoneIs
      <4>3. \A i : i \in Effective(T)' <=> i \in Effective(T) /\ i # n
        BY <3>3, <3>4
      <4>4. \A x : x \in Undone(T)' <=> x \in Undone(T) /\ x # Installed(T, n)
        BY <3>3, <3>6, <3>7, <4>1, <4>2, <4>3
      <4> QED
        BY <4>4
    <3>9. Installed(T, n) \in Undone(T) /\ Installed(T, n).before = index[n].before
      BY <3>3, UndoneIs DEF Installed
    <3>10. Installed(T, n).older = Log!IdsOf(Undone(T) \ {Installed(T, n)})
      <4>1. Installed(T, n).older = {index[j].id : j \in {k \in Effective(T) : k < n}}
        BY DEF Installed
      <4>2. \A x : x \in Undone(T) \ {Installed(T, n)} <=> \E i \in Effective(T) : i < n /\ x = Installed(T, i)
        <5>1. \A x : x \in Undone(T) <=> \E i \in Effective(T) : x = Installed(T, i)
          BY UndoneIs
        <5>2. \A i \in Effective(T) : i < n <=> i # n
          BY <1>2, <3>5
        <5> QED
          BY <3>3, <3>7, <5>1, <5>2
      <4>3. \A i : Installed(T, i).id = index[i].id
        BY DEF Installed
      <4>4. ASSUME NEW x
            PROVE  x \in Log!IdsOf(Undone(T) \ {Installed(T, n)}) <=> x \in Installed(T, n).older
        <5>1. x \in Log!IdsOf(Undone(T) \ {Installed(T, n)})
                <=> \E e \in Undone(T) \ {Installed(T, n)} : x = e.id
          BY DEF Log!IdsOf
        <5>2. x \in Installed(T, n).older <=> \E i \in Effective(T) : i < n /\ x = index[i].id
          BY <4>1
        <5> QED
          BY <4>2, <4>3, <5>1, <5>2
      <4> DEFINE A == Installed(T, n).older
                 B == Log!IdsOf(Undone(T) \ {Installed(T, n)})
      <4>5. \A x : x \in A <=> x \in B
        BY <4>4
      <4>6. A = {index[j].id : j \in {k \in Effective(T) : k < n}} /\ B = {e.id : e \in Undone(T) \ {Installed(T, n)}}
        BY <4>1 DEF Log!IdsOf
      <4> HIDE DEF A, B
      <4>7. A = B
        BY <4>5, <4>6
      <4> QED
        BY <4>7 DEF A, B
    <3>11. Log!Undo(T, Installed(T, n))
      BY <1>1, <1>4, <3>8, <3>9, <3>10, LogSteps DEF Log!Undo, IInv
    <3> QED
      BY <1>1, <3>9, <3>11 DEF Log!Next
  <2> QED
    BY <2>2, <2>3
<1> QED
  BY <1>1, <1>3, <1>4

LEMMA InitUndoes == Init => Log!Init
<1> SUFFICES ASSUME Init PROVE Log!Init
  OBVIOUS
<1>1. \A t : Effective(t) = {}
  BY DEF Init, Effective, EntriesOf
<1>2. \A t : Undone(t) = {}
  BY <1>1, UndoneIs
<1> QED
  BY <1>2 DEF Init, Log!Init

LEMMA UndoRefines == IInv /\ UndoInv /\ [Next]_vars => [Log!Next]_Log!vars
<1> SUFFICES ASSUME IInv, UndoInv, [Next]_vars PROVE Log!Next \/ UNCHANGED Log!vars
  BY DEF Log!vars
<1>1. ASSUME UNCHANGED <<index, active>> PROVE UNCHANGED Log!vars
  BY <1>1, UndoneStays, StutterLog
<1>2. ASSUME NEW c \in Commands,
             \/ Begin(c) \/ WriteCache(c) \/ WriteLast(c) \/ FallBack(c) \/ Compare(c)
             \/ TakeLock(c) \/ ReadActive(c) \/ WriteBackup(c)
             \/ NothingToRestore(c) \/ Unlock(c) \/ WriteFails(c) \/ Crash(c)
      PROVE  UNCHANGED <<index, active>>
  BY <1>2 DEF Begin, WriteCache, WriteLast, FallBack, Compare, TakeLock, ReadActive, WriteBackup,
              NothingToRestore, Unlock, WriteFails, Crash, files
<1>3. ASSUME NEW c \in Commands, WriteEntry(c) \/ WriteActive(c) \/ Restore(c) \/ DropEntry(c)
      PROVE  Log!Next \/ UNCHANGED Log!vars
  BY <1>3, WriteEntryRefines, WriteActiveRefines, RestoreRefines, DropEntryRefines
<1>4. ASSUME NEW c \in Commands, NEW f \in Files, Fetch(c, f) PROVE UNCHANGED <<index, active>>
  BY <1>4 DEF Fetch, files
<1>5. CASE RemoveStaleLock \/ Upgrade \/ UNCHANGED vars
  BY <1>1, <1>5 DEF RemoveStaleLock, Upgrade, vars, files
<1> QED
  BY <1>1, <1>2, <1>3, <1>4, <1>5 DEF Next

\* Applying and rolling back is an undo log for every number of commands, targets and releases,
\* whatever dies between two writes: a step of a command installs once, undoes the latest
\* installation of its target, or changes nothing.
THEOREM SyncImplementsUndoLog == Spec => ImplementsUndoLog
  BY InitIInv, Inductive, InitUndoInv, UndoInductive, InitUndoes, UndoRefines, PTL
     DEF Spec, ImplementsUndoLog, Log!Spec

-------------------------------------------------------------------------------
(* The staged batch of live sessions and its partition: every list of stages, *)
(* every set of sessions and every manifest.                                  *)

\* The two derivations of the labels of a session agree.
LEMMA LabelsAgree ==
  ASSUME NEW s
  PROVE  DerivedLabels(Staged(s)) = StagingLabels(s)
<1> DEFINE r == Staged(s)
<1>1. /\ r.tools = s.tools /\ r.checks = s.checks /\ r.diff = s.diff
      /\ r.outcome = s.outcome /\ r.execution = s.quality
  BY DEF Staged
<1>2. UNION {DerivedToolLabels(t) : t \in Elements(s.tools)}
        = UNION {StagingToolLabels(t) : t \in Elements(s.tools)}
  BY DEF DerivedToolLabels, StagingToolLabels
<1> DEFINE command == When(\E c \in Elements(s.checks) : ~c.command, "validator_command_not_allowed")
           failed == When(\E c \in Elements(s.checks) : ~CheckPassed(c), "validator_failed")
<1>3. UNION {StagingCheckLabels(c) : c \in Elements(s.checks)} = command \cup failed
  <2>1. ASSUME NEW l, l \in UNION {StagingCheckLabels(c) : c \in Elements(s.checks)}
        PROVE  l \in command \cup failed
    <3>1. PICK c \in Elements(s.checks) : l \in StagingCheckLabels(c)
      BY <2>1
    <3> QED
      BY <3>1 DEF StagingCheckLabels, When
  <2>2. ASSUME NEW l, l \in command
        PROVE  l \in UNION {StagingCheckLabels(c) : c \in Elements(s.checks)}
    <3>1. PICK c \in Elements(s.checks) : ~c.command
      BY <2>2 DEF When
    <3>2. l = "validator_command_not_allowed"
      BY <2>2 DEF When
    <3>3. l \in StagingCheckLabels(c)
      BY <3>1, <3>2 DEF StagingCheckLabels, When
    <3> QED
      BY <3>3
  <2>3. ASSUME NEW l, l \in failed
        PROVE  l \in UNION {StagingCheckLabels(c) : c \in Elements(s.checks)}
    <3>1. PICK c \in Elements(s.checks) : ~CheckPassed(c)
      BY <2>3 DEF When
    <3>2. l = "validator_failed"
      BY <2>3 DEF When
    <3>3. l \in StagingCheckLabels(c)
      BY <3>1, <3>2 DEF StagingCheckLabels, When
    <3> QED
      BY <3>3
  <2> HIDE DEF command, failed
  <2> QED
    BY <2>1, <2>2, <2>3
<1> HIDE DEF r, command, failed
<1>4. DerivedLabels(r) =
        ExecutionLabels(s.quality)
          \cup (UNION {DerivedToolLabels(t) : t \in Elements(s.tools)})
          \cup When(s.tools = <<>>, "tool_calls_missing")
          \cup command \cup failed
          \cup When({c.name : c \in Elements(s.checks)} # Validators, "validators_incomplete")
          \cup When(s.diff = "none", "final_diff_missing")
          \cup OutcomeLabels(s.outcome)
  BY <1>1 DEF DerivedLabels, command, failed
<1>5. StagingLabels(s) =
        (UNION {StagingToolLabels(t) : t \in Elements(s.tools)})
          \cup When(s.tools = <<>>, "tool_calls_missing")
          \cup (UNION {StagingCheckLabels(c) : c \in Elements(s.checks)})
          \cup When({c.name : c \in Elements(s.checks)} # Validators, "validators_incomplete")
          \cup When(s.diff = "none", "final_diff_missing")
          \cup OutcomeLabels(s.outcome)
          \cup ExecutionLabels(s.quality)
  BY DEF StagingLabels
<1> QED
  <2> HIDE DEF r, command, failed
  <2>1. DerivedLabels(r) = StagingLabels(s)
    <3> DEFINE A == UNION {StagingToolLabels(t) : t \in Elements(s.tools)}
               B == When(s.tools = <<>>, "tool_calls_missing")
               E == When({c.name : c \in Elements(s.checks)} # Validators, "validators_incomplete")
               F == When(s.diff = "none", "final_diff_missing")
               G == OutcomeLabels(s.outcome)
               H == ExecutionLabels(s.quality)
    <3> DEFINE D == UNION {DerivedToolLabels(t) : t \in Elements(s.tools)}
               C == UNION {StagingCheckLabels(c) : c \in Elements(s.checks)}
    <3>1. DerivedLabels(r) = H \cup D \cup B \cup command \cup failed \cup E \cup F \cup G
      BY <1>4, Zenon
    <3>2. StagingLabels(s) = A \cup B \cup C \cup E \cup F \cup G \cup H
      BY <1>5, Zenon
    <3>3. D = A /\ C = command \cup failed
      BY <1>2, <1>3, Zenon
    <3> HIDE DEF A, B, C, D, E, F, G, H
    <3> QED
      BY <3>1, <3>2, <3>3
  <2> QED
    BY <2>1 DEF r

\* What the staging conversion accepts, the offline pass finds valid.
LEMMA StagedIsValid ==
  ASSUME NEW s, StagingAccepts(s)
  PROVE  RecordValid(Staged(s))
<1> DEFINE r == Staged(s)
<1>1. /\ r.said = s.said /\ r.tools = s.tools /\ r.checks = s.checks /\ r.diff = s.diff
      /\ r.skills = s.skills /\ r.unsafe = s.unsafe
      /\ r.labels = StagingLabels(s) /\ r.eligible = (StagingLabels(s) = {})
  BY DEF Staged
<1>2. DerivedLabels(r) = StagingLabels(s)
  BY LabelsAgree
<1> HIDE DEF r
<1>3. RecordValid(r)
  BY <1>1, <1>2, SMT DEF StagingAccepts, RecordValid, Gated, Spoken, NamedOnce, Elements
<1> QED
  BY <1>3 DEF r

\* A session that was staged and has no label is one the strict conversion accepts.
LEMMA CleanIsStrict ==
  ASSUME NEW s, StagingAccepts(s), DerivedLabels(Staged(s)) = {},
         s.diff \in {"none", "valid", "broken"},
         s.outcome \in {"completed", "blocked", "partial", "none"}
  PROVE  StrictAccepts(s)
<1>1. StagingLabels(s) = {}
  BY LabelsAgree
<1>0. /\ UNION {StagingToolLabels(t) : t \in Elements(s.tools)} = {}
      /\ UNION {StagingCheckLabels(c) : c \in Elements(s.checks)} = {}
      /\ When({c.name : c \in Elements(s.checks)} # Validators, "validators_incomplete") = {}
      /\ When(s.diff = "none", "final_diff_missing") = {}
      /\ OutcomeLabels(s.outcome) = {}
  <2> DEFINE A == UNION {StagingToolLabels(t) : t \in Elements(s.tools)}
             B == When(s.tools = <<>>, "tool_calls_missing")
             C == UNION {StagingCheckLabels(c) : c \in Elements(s.checks)}
             E == When({c.name : c \in Elements(s.checks)} # Validators, "validators_incomplete")
             F == When(s.diff = "none", "final_diff_missing")
             G == OutcomeLabels(s.outcome)
             H == ExecutionLabels(s.quality)
  <2>1. A \cup B \cup C \cup E \cup F \cup G \cup H = {}
    BY <1>1, Zenon DEF StagingLabels
  <2>2. A = {} /\ C = {} /\ E = {} /\ F = {} /\ G = {}
    <3> HIDE DEF A, B, C, E, F, G, H
    <3> QED
      BY <2>1
  <2> QED
    BY <2>2
<1>2. \A t \in Elements(s.tools) : StagingToolLabels(t) = {}
  BY <1>0
<1>3. \A c \in Elements(s.checks) : StagingCheckLabels(c) = {}
  BY <1>0
<1>5. TrajectoryAccepted(s)
  <2>1. \A t \in Elements(s.tools) : t.tool /\ t.path /\ t.command /\ t.search
    BY <1>2 DEF StagingToolLabels, When
  <2>2. \A t \in Elements(s.tools) : t.status \in {"completed", "error"}
    BY <1>2 DEF StagingToolLabels, When, StagingAccepts
  <2> QED
    BY <2>1, <2>2 DEF TrajectoryAccepted, ToolAccepted, StagingAccepts
<1>6. ValidatorsAccepted(s)
  <2>1. \A c \in Elements(s.checks) : CheckPassed(c) /\ c.command
    BY <1>3 DEF StagingCheckLabels, When
  <2>2. {c.name : c \in Elements(s.checks)} = Validators
    BY <1>0 DEF When
  <2> QED
    BY <2>1, <2>2 DEF ValidatorsAccepted, StagingAccepts
<1>7. s.diff = "valid" /\ s.outcome = "completed"
  BY <1>0 DEF When, OutcomeLabels, StagingAccepts
<1> QED
  BY <1>5, <1>6, <1>7 DEF StrictAccepts, StagingAccepts

-------------------------------------------------------------------------------
(* The batch.                                                                 *)

Modes == {"strict", "collect"}

\* A sample that load_candidate_samples lets in.
Fresh(x) == x \in Samples /\ x \notin HeldOut.ids /\ TaskOf[x].text \notin HeldOut.texts

\* The lines of the staging file: rows of sessions that the staging conversion accepts.
StagedLines ==
  [kind : {"row"}, sample : Samples, ws : Nat,
   outcome : {o \in Outcomes : StagingAccepts(SessionOf(o))}]
  \cup [kind : {"open", Torn}]

AttemptRecords == [sample : Samples, ws : Nat, success : BOOLEAN, hardReject : BOOLEAN]

BatchTypeOK ==
  /\ todo \in SUBSET Samples
  /\ working \in [DOMAIN working -> Nat] /\ DOMAIN working \subseteq Samples
  /\ done \in SUBSET AttemptRecords /\ IsFiniteSet(done)
  /\ used \in Nat
  /\ attempts \in SUBSET AttemptRecords
  /\ gold \in SUBSET AttemptRecords /\ IsFiniteSet(gold)
  /\ staging \in Seq(StagedLines)

Batches == [mode : Modes, plan : Seq(SUBSET Samples), stage : Nat,
            step : {"stage", "gold", "judge"}]

\* The batch that runs: a plan of admissible samples, and a stage of it.
PlanOK ==
  /\ run \in Batches
  /\ \A k \in DOMAIN run.plan : \A x \in run.plan[k] : Fresh(x)
  /\ run.stage \in DOMAIN run.plan
  /\ DOMAIN run.plan \subseteq DOMAIN Stages

\* Every sample of the stage is waiting, in a workspace or recorded, and once.
StageOK ==
  /\ run.plan[run.stage] = todo \cup DOMAIN working \cup {r.sample : r \in done}
  /\ todo \cap DOMAIN working = {}
  /\ \A r \in done : r.sample \notin todo /\ r.sample \notin DOMAIN working
  /\ \A r, q \in done : r.sample = q.sample => r = q

\* What was judged a success in strict mode was captured.
CapturedOK ==
  run.mode = "strict" =>
    \A r \in Accepted : [sample |-> r.sample, ws |-> r.ws] \in candidates

\* The records are merged in order: attempts, accepted gold, judgement.
MergedOK ==
  /\ run.step # "stage" => todo = {} /\ working = <<>> /\ done \subseteq attempts
  /\ run.step = "gold" => run.mode = "strict"
  /\ run.step = "judge" /\ run.mode = "strict" => Accepted \subseteq gold

RunOK == run # None => PlanOK /\ StageOK /\ CapturedOK /\ MergedOK

GoldOnce == \A g, h \in gold : g.sample = h.sample => g = h

BatchInv == BatchTypeOK /\ RunOK /\ GoldIsProven /\ GoldOnce /\ StageOpensAfterPass

LEMMA BatchInitInv == BatchInit => BatchInv
<1> SUFFICES ASSUME BatchInit PROVE BatchInv
  OBVIOUS
<1>1. BatchTypeOK
  BY FS_EmptySet DEF BatchInit, BatchTypeOK
<1> QED
  BY <1>1 DEF BatchInit, BatchInv, RunOK, GoldIsProven, GoldOnce, StageOpensAfterPass

\* No batch, and gold as it was or no gold at all.
LEMMA NoBatch ==
  ASSUME BatchInv, BatchTypeOK', run' = None, gold' = gold, attempts \subseteq attempts',
         candidates \subseteq candidates'
  PROVE  BatchInv'
  BY DEF BatchInv, RunOK, GoldIsProven, GoldOnce, StageOpensAfterPass

LEMMA EmptyWorking ==
  /\ <<>> \in [DOMAIN <<>> -> Nat] /\ DOMAIN <<>> = {}
  OBVIOUS

LEMMA AppendedLine ==
  ASSUME NEW lines \in Seq(StagedLines), NEW line \in StagedLines
  PROVE  AppendLine(lines, line) \in Seq(StagedLines)
<1>1. [kind |-> Torn] \in StagedLines
  BY DEF StagedLines, Torn
<1>2. CASE lines = <<>>
  BY <1>2 DEF AppendLine
<1>3. CASE lines # <<>>
  <2>1. Front(lines) \in Seq(StagedLines)
    BY <1>3 DEF Front
  <2> QED
    BY <1>1, <2>1 DEF AppendLine
<1> QED
  BY <1>2, <1>3

LEMMA EndBatchKeeps ==
  ASSUME BatchInv, EndBatch, UNCHANGED <<used, ledgers>>, candidates' = candidates,
         staging' \in Seq(StagedLines)
  PROVE  BatchInv'
<1>1. BatchTypeOK'
  BY EmptyWorking, FS_EmptySet DEF EndBatch, BatchInv, BatchTypeOK, ledgers
<1> QED
  BY <1>1, NoBatch DEF EndBatch, ledgers

LEMMA RefuseGoldKeeps == ASSUME BatchInv, RefuseGold PROVE BatchInv'
  BY EndBatchKeeps DEF RefuseGold, BatchInv, BatchTypeOK, captures

LEMMA BatchDiesKeeps == ASSUME BatchInv, BatchDies PROVE BatchInv'
<1>1. [kind |-> "open"] \in StagedLines
  BY DEF StagedLines
<1>2. staging' \in Seq(StagedLines)
  BY <1>1, AppendedLine DEF BatchDies, BatchInv, BatchTypeOK
<1> QED
  BY <1>2, EndBatchKeeps DEF BatchDies

\* The offline pass leaves the batch and its ledgers alone.
LEMMA OfflineKeeps ==
  ASSUME BatchInv, UNCHANGED <<batch, used, ledgers, captures>>
  PROVE  BatchInv'
<1>1. /\ run' = run /\ todo' = todo /\ working' = working /\ done' = done /\ used' = used
      /\ attempts' = attempts /\ gold' = gold /\ candidates' = candidates /\ staging' = staging
  BY DEF batch, ledgers, captures
<1> QED
  BY <1>1 DEF BatchInv, BatchTypeOK, RunOK, PlanOK, StageOK, CapturedOK, MergedOK, Accepted,
       GoldIsProven, GoldOnce, StageOpensAfterPass

\* A plan of admissible samples for the first stages of the ramp.
PlanFits(plan) ==
  /\ plan \in Seq(SUBSET Samples)
  /\ DOMAIN plan \subseteq DOMAIN Stages
  /\ \A k \in DOMAIN plan : \A x \in plan[k] : Fresh(x)

LEMMA StageRecords ==
  ASSUME NEW k \in DOMAIN Stages
  PROVE  Stages[k].width \in Nat \ {0} /\ Stages[k].count \in Nat \ {0}
<1>1. PICK R : R = [width : Nat \ {0}, count : Nat \ {0}]
  OBVIOUS
<1>2. Stages \in Seq(R)
  BY <1>1, LiveBatchAssumption
<1>3. Stages[k] \in R
  BY <1>2
<1> QED
  BY <1>1, <1>3

\* Offsets grow: each stage ends within the n samples.
LEMMA OffsetsBound ==
  ASSUME NEW final \in DOMAIN Stages, NEW n \in Nat, NEW at \in Offsets(final, n)
  PROVE  /\ final \in Nat
         /\ \A k \in 1 .. final : at[k] \in Nat /\ at[k] + Stages[k].count <= n
<1>1. final \in Nat
  BY LiveBatchAssumption
<1>2. ASSUME NEW k \in 1 .. final
      PROVE  at[k] \in Nat /\ at[k] + Stages[k].count <= n
  <2>1. at[k] \in 0 .. n /\ at[k + 1] \in 0 .. n
    BY <1>1 DEF Offsets
  <2>2. at[k + 1] = at[k] + Stages[k].count
    BY <1>1 DEF Offsets
  <2> QED
    BY <2>1, <2>2
<1> QED
  BY <1>1, <1>2

LEMMA PlanIsFit ==
  ASSUME NEW man \in Manifests, CandidatesLoad(man), NEW final \in DOMAIN Stages,
         NEW at \in Offsets(final, Len(man.tasks))
  PROVE  /\ PlanFits(Plan(man.tasks, at, final))
         /\ 1 \in DOMAIN Plan(man.tasks, at, final)
<1> DEFINE tasks == man.tasks
           plan == Plan(tasks, at, final)
<1>1. tasks \in Seq(Samples)
  BY LiveBatchAssumption DEF Samples
<1>2. final \in Nat /\ final >= 1 /\ 1 .. final \subseteq DOMAIN Stages
  BY LiveBatchAssumption
<1>3. ASSUME NEW k \in 1 .. final, NEW x \in plan[k]
      PROVE  Fresh(x)
  <2>1. plan[k] = {tasks[at[k] + i] : i \in 1 .. Stages[k].count}
    BY DEF Plan
  <2>2. PICK i \in 1 .. Stages[k].count : x = tasks[at[k] + i]
    BY <1>3, <2>1
  <2>3. Stages[k].count \in Nat
    BY <1>2, StageRecords
  <2>4. Len(tasks) \in Nat /\ DOMAIN tasks = 1 .. Len(tasks)
    BY <1>1
  <2>5. at[k] \in Nat /\ at[k] + Stages[k].count <= Len(tasks)
    BY <2>4, OffsetsBound
  <2>6. at[k] + i \in DOMAIN tasks
    <3> HIDE DEF tasks
    <3> QED
      BY <2>3, <2>4, <2>5
  <2>7. x \in Samples
    BY <1>1, <2>2, <2>6
  <2> QED
    BY <2>2, <2>6, <2>7 DEF CandidatesLoad, CandidateValid, Fresh
<1>4. plan = [k \in 1 .. final |-> plan[k]] /\ DOMAIN plan = 1 .. final
  BY DEF Plan
<1>5. plan \in Seq(SUBSET Samples)
  <2>1. \A k \in 1 .. final : plan[k] \in SUBSET Samples
    BY <1>3 DEF Fresh
  <2> HIDE DEF plan
  <2> QED
    BY <1>2, <1>4, <2>1
<1> HIDE DEF plan
<1> QED
  <2>1. PlanFits(plan) /\ 1 \in DOMAIN plan
    BY <1>2, <1>3, <1>4, <1>5 DEF PlanFits
  <2> QED
    BY <2>1 DEF plan

\* A stage that has just been opened.
LEMMA OpenedStage ==
  ASSUME BatchInv, NEW mode \in Modes, NEW plan, PlanFits(plan), NEW k \in DOMAIN plan,
         OpenStage(mode, plan, k),
         UNCHANGED <<used, ledgers, captures>>,
         \A j \in 1 .. (k - 1) :
           /\ \A x \in plan[j] : \E a \in attempts : a.sample = x
           /\ mode = "strict" =>
                Cardinality({g \in gold : g.sample \in plan[j]}) * 100
                  >= MinimumRate * Stages[j].count
  PROVE  BatchInv'
<1>1. /\ run'.mode = mode /\ run'.plan = plan /\ run'.stage = k /\ run'.step = "stage"
      /\ todo' = plan[k] /\ working' = <<>> /\ done' = {}
      /\ attempts' = attempts /\ gold' = gold /\ candidates' = candidates /\ used' = used
      /\ staging' = staging
  BY DEF OpenStage, ledgers, captures
<1>2. plan[k] \in SUBSET Samples
  BY DEF PlanFits
<1>3. BatchTypeOK'
  BY <1>1, <1>2, EmptyWorking, FS_EmptySet DEF BatchInv, BatchTypeOK
<1>4. PlanOK'
  <2>1. k \in Nat
    BY DEF PlanFits
  <2>2. run' \in Batches
    BY <2>1 DEF OpenStage, PlanFits, Batches
  <2> QED
    BY <1>1, <2>2 DEF PlanOK, PlanFits
<1>5. (StageOK /\ CapturedOK /\ MergedOK)'
  BY <1>1, EmptyWorking DEF StageOK, CapturedOK, MergedOK, Accepted
<1>6. (GoldIsProven /\ GoldOnce)'
  BY <1>1 DEF BatchInv, GoldIsProven, GoldOnce
<1>7. StageOpensAfterPass'
  BY <1>1 DEF StageOpensAfterPass
<1> QED
  BY <1>3, <1>4, <1>5, <1>6, <1>7 DEF BatchInv, RunOK

LEMMA StartKeeps == ASSUME BatchInv, Start PROVE BatchInv'
<1>1. PICK mode \in Modes, final \in DOMAIN Stages, man \in Manifests :
        /\ CandidatesLoad(man)
        /\ \E at \in Offsets(final, Len(man.tasks)) :
             OpenStage(mode, Plan(man.tasks, at, final), 1)
  BY DEF Start, Modes
<1>2. PICK at \in Offsets(final, Len(man.tasks)) :
        OpenStage(mode, Plan(man.tasks, at, final), 1)
  BY <1>1
<1>3. PICK plan : plan = Plan(man.tasks, at, final)
  OBVIOUS
<1>4. PlanFits(plan) /\ 1 \in DOMAIN plan
  BY <1>1, <1>3, PlanIsFit
<1>5. OpenStage(mode, plan, 1)
  BY <1>2, <1>3
<1>6. UNCHANGED <<used, ledgers, captures>>
  BY DEF Start
<1> QED
  BY <1>4, <1>5, <1>6, OpenedStage

LEMMA JudgeKeeps == ASSUME BatchInv, Judge PROVE BatchInv'
<1>0. UNCHANGED <<used, ledgers, captures>>
  BY DEF Judge
<1>1. CASE ~(StagePassed /\ run.stage < Len(run.plan))
  <2>1. EndBatch
    BY <1>1 DEF Judge
  <2> QED
    BY <1>0, <2>1, EndBatchKeeps DEF captures, BatchInv, BatchTypeOK
<1>2. CASE StagePassed /\ run.stage < Len(run.plan)
  <2>1. /\ run # None /\ run.step = "judge"
        /\ OpenStage(run.mode, run.plan, run.stage + 1)
    BY <1>2 DEF Judge, Running
  <2>2. PlanOK /\ StageOK /\ MergedOK
    BY <2>1 DEF BatchInv, RunOK
  <2>3. PICK k, plan, mode : k = run.stage /\ plan = run.plan /\ mode = run.mode
    OBVIOUS
  <2>4. PlanFits(plan) /\ mode \in Modes /\ k \in DOMAIN plan /\ k \in Nat
    BY <2>2, <2>3 DEF PlanOK, PlanFits, Batches
  <2>5. k + 1 \in DOMAIN plan
    BY <1>2, <2>3, <2>4 DEF PlanFits
  <2>6. \A x \in plan[k] : \E a \in attempts : a.sample = x
    BY <2>1, <2>2, <2>3 DEF StageOK, MergedOK
  <2>7. ASSUME mode = "strict"
        PROVE  Cardinality({g \in gold : g.sample \in plan[k]}) * 100
                 >= MinimumRate * Stages[k].count
    <3>1. Accepted \subseteq {g \in gold : g.sample \in plan[k]}
      BY <2>1, <2>2, <2>3, <2>7 DEF MergedOK, StageOK, Accepted
    <3>2. IsFiniteSet(gold)
      BY DEF BatchInv, BatchTypeOK
    <3>3. IsFiniteSet({g \in gold : g.sample \in plan[k]})
      BY <3>2, FS_Subset
    <3>4. /\ Cardinality(Accepted) <= Cardinality({g \in gold : g.sample \in plan[k]})
          /\ Cardinality(Accepted) \in Nat
          /\ Cardinality({g \in gold : g.sample \in plan[k]}) \in Nat
      BY <3>1, <3>3, FS_Subset, FS_CardinalityType
    <3>5. Stages[k].count \in Nat /\ MinimumRate \in Nat
      BY <2>4, StageRecords, LiveBatchAssumption DEF PlanFits
    <3>6. PICK need \in Int : need = MinimumRate * Stages[k].count
      BY <3>5
    <3>7. Cardinality(Accepted) * 100 >= need
      BY <1>2, <2>3, <2>7, <3>6 DEF StagePassed
    <3> QED
      BY <3>4, <3>6, <3>7
  <2>8. \A j \in 1 .. k :
           /\ \A x \in plan[j] : \E a \in attempts : a.sample = x
           /\ mode = "strict" =>
                Cardinality({g \in gold : g.sample \in plan[j]}) * 100
                  >= MinimumRate * Stages[j].count
    <3>1. \A j \in 1 .. k : j = k \/ j \in 1 .. (k - 1)
      BY <2>4
    <3>2. StageOpensAfterPass
      BY DEF BatchInv
    <3> QED
      BY <2>1, <2>3, <2>6, <2>7, <3>1, <3>2 DEF StageOpensAfterPass
  <2>9. (k + 1) - 1 = k
    BY <2>4
  <2>10. OpenStage(mode, plan, k + 1)
    BY <2>1, <2>3
  <2> QED
    BY <1>0, <2>4, <2>5, <2>8, <2>9, <2>10, OpenedStage
<1> QED
  BY <1>1, <1>2

LEMMA SubmitKeeps ==
  ASSUME BatchInv, NEW x \in Samples, Submit(x)
  PROVE  BatchInv'
<1>0. /\ run # None /\ run.step = "stage" /\ x \in todo
      /\ todo' = todo \ {x} /\ used' = used + 1
      /\ working' = [y \in DOMAIN working \cup {x} |-> IF y = x THEN used + 1 ELSE working[y]]
      /\ run' = run /\ done' = done /\ attempts' = attempts /\ gold' = gold
      /\ candidates' = candidates /\ staging' = staging
  BY DEF Submit, Running, ledgers, captures
<1>1. /\ DOMAIN working' = {x} \cup DOMAIN working
      /\ \A y \in DOMAIN working' : working'[y] = IF y = x THEN used + 1 ELSE working[y]
      /\ working' = [y \in DOMAIN working' |-> working'[y]]
  BY <1>0
<1>2. BatchTypeOK'
  <2>1. BatchTypeOK
    BY DEF BatchInv
  <2>2. \A y \in DOMAIN working' : working'[y] \in Nat
    BY <1>1, <2>1 DEF BatchTypeOK
  <2>3. working' \in [DOMAIN working' -> Nat]
    BY <1>1, <2>2
  <2> QED
    BY <1>0, <1>1, <2>1, <2>3 DEF BatchTypeOK
<1>3. PlanOK /\ StageOK /\ CapturedOK /\ MergedOK
  BY <1>0 DEF BatchInv, RunOK
<1>4. PlanOK'
  BY <1>0, <1>3 DEF PlanOK
<1>5. StageOK'
  BY <1>0, <1>1, <1>3 DEF StageOK
<1>6. (CapturedOK /\ MergedOK)'
  BY <1>0, <1>3 DEF CapturedOK, MergedOK, Accepted
<1>7. (GoldIsProven /\ GoldOnce /\ StageOpensAfterPass)'
  BY <1>0 DEF BatchInv, GoldIsProven, GoldOnce, StageOpensAfterPass
<1> QED
  BY <1>2, <1>4, <1>5, <1>6, <1>7 DEF BatchInv, RunOK

\* A sample leaves its workspace with one record.
LEMMA LeaveKeeps ==
  ASSUME BatchInv, NEW x \in Samples, NEW r \in AttemptRecords, run # None, run.step = "stage",
         x \in DOMAIN working, Leave(x), r.sample = x, done' = done \cup {r},
         run.mode = "strict" /\ r.success =>
           [sample |-> r.sample, ws |-> r.ws] \in candidates',
         candidates \subseteq candidates', staging' \in Seq(StagedLines),
         UNCHANGED <<run, todo, used, ledgers>>
  PROVE  BatchInv'
<1>0. attempts' = attempts /\ gold' = gold
  BY DEF ledgers
<1>1. /\ DOMAIN working' = DOMAIN working \ {x}
      /\ working' = [y \in DOMAIN working \ {x} |-> working[y]]
  BY DEF Leave
<1>2. BatchTypeOK'
  <2>1. BatchTypeOK
    BY DEF BatchInv
  <2>2. IsFiniteSet(done')
    BY <2>1, FS_AddElement DEF BatchTypeOK
  <2>3. working' \in [DOMAIN working' -> Nat]
    BY <1>1, <2>1 DEF BatchTypeOK
  <2> QED
    BY <1>0, <1>1, <2>1, <2>2, <2>3 DEF BatchTypeOK
<1>3. PlanOK /\ StageOK /\ CapturedOK /\ MergedOK
  BY DEF BatchInv, RunOK
<1>4. PlanOK'
  BY <1>3 DEF PlanOK
<1>5. StageOK'
  BY <1>1, <1>3 DEF StageOK
<1>6. CapturedOK'
  BY <1>3 DEF CapturedOK, Accepted
<1>7. MergedOK'
  BY <1>3 DEF MergedOK
<1>8. (GoldIsProven /\ GoldOnce /\ StageOpensAfterPass)'
  BY <1>0 DEF BatchInv, GoldIsProven, GoldOnce, StageOpensAfterPass
<1> QED
  BY <1>2, <1>4, <1>5, <1>6, <1>7, <1>8 DEF BatchInv, RunOK

LEMMA StagedRow ==
  ASSUME NEW x \in Samples, NEW ws \in Nat, NEW o \in Outcomes, StagingAccepts(SessionOf(o))
  PROVE  StagedLine(x, ws, o) \in StagedLines
  BY DEF StagedLine, StagedLines

LEMMA FinishKeeps ==
  ASSUME BatchInv, NEW x \in Samples, Finish(x)
  PROVE  BatchInv'
<1>1. PICK o \in Outcomes, cleaned \in BOOLEAN :
        LET kept == Converted(o, run.mode) /\ cleaned
            ws == working[x]
        IN /\ Running("stage") /\ x \in DOMAIN working
           /\ IF ~kept
              THEN /\ refusals' = refusals \cup {x}
                   /\ UNCHANGED <<candidates, staging>>
              ELSE IF run.mode = "collect"
              THEN /\ staging' = AppendLine(staging, StagedLine(x, ws, o))
                   /\ UNCHANGED <<candidates, refusals>>
              ELSE /\ candidates' = candidates \cup {[sample |-> x, ws |-> ws]}
                   /\ UNCHANGED <<staging, refusals>>
           /\ Leave(x)
           /\ done' = done \cup {Record(x, ws, o, kept, run.mode)}
           /\ UNCHANGED <<run, todo, failures, used, ledgers, offline, started>>
  BY DEF Finish
<1>2. PICK kept \in BOOLEAN : kept = (Converted(o, run.mode) /\ cleaned)
  OBVIOUS
<1>3. PICK ws : ws = working[x]
  OBVIOUS
<1>4. /\ run # None /\ run.step = "stage" /\ x \in DOMAIN working
      /\ Leave(x) /\ done' = done \cup {Record(x, ws, o, kept, run.mode)}
      /\ UNCHANGED <<run, todo, used, ledgers>>
  BY <1>1, <1>2, <1>3 DEF Running
<1>5. /\ ~kept => UNCHANGED <<candidates, staging>>
      /\ kept /\ run.mode = "collect" =>
           candidates' = candidates /\ staging' = AppendLine(staging, StagedLine(x, ws, o))
      /\ kept /\ run.mode # "collect" =>
           staging' = staging /\ candidates' = candidates \cup {[sample |-> x, ws |-> ws]}
  BY <1>1, <1>2, <1>3
<1>6. ws \in Nat /\ staging \in Seq(StagedLines)
  BY <1>3, <1>4 DEF BatchInv, BatchTypeOK
<1>7. run.mode \in Modes
  BY <1>4 DEF BatchInv, RunOK, PlanOK, Batches
<1>8. PICK won \in BOOLEAN : won = Succeeded(x, o, kept)
  BY DEF Succeeded
<1>9. won => kept
  BY <1>8 DEF Succeeded
<1> DEFINE r == [sample |-> x, ws |-> ws, success |-> won,
                 hardReject |-> run.mode = "collect" /\ ~kept]
<1>10. Record(x, ws, o, kept, run.mode) = r
  BY <1>8 DEF Record
<1>11. r \in AttemptRecords /\ r.sample = x /\ r.ws = ws /\ r.success = won
  BY <1>6 DEF AttemptRecords
<1>12. candidates \subseteq candidates' /\ staging' \in Seq(StagedLines)
  <2>1. kept /\ run.mode = "collect" => StagingAccepts(SessionOf(o))
    BY <1>2 DEF Converted
  <2> QED
    BY <1>5, <1>6, <2>1, StagedRow, AppendedLine
<1>13. run.mode = "strict" /\ won => [sample |-> x, ws |-> ws] \in candidates'
  BY <1>5, <1>9
<1> HIDE DEF r
<1> QED
  BY <1>4, <1>10, <1>11, <1>12, <1>13, LeaveKeeps

LEMMA RaiseKeeps ==
  ASSUME BatchInv, NEW x \in Samples, Raise(x)
  PROVE  BatchInv'
<1>1. /\ run # None /\ run.step = "stage" /\ x \in DOMAIN working
      /\ Leave(x) /\ done' = done \cup {FailureRecord(x)}
      /\ UNCHANGED <<run, todo, used, ledgers>>
  BY DEF Raise, Running
<1>2. working[x] \in Nat /\ staging \in Seq(StagedLines)
  BY <1>1 DEF BatchInv, BatchTypeOK
<1>3. candidates \subseteq candidates' /\ staging' \in Seq(StagedLines)
  <2>1. \/ UNCHANGED <<candidates, staging>>
        \/ /\ \E o \in Outcomes :
               /\ StagingAccepts(SessionOf(o))
               /\ staging' = AppendLine(staging, StagedLine(x, working[x], o))
           /\ UNCHANGED candidates
        \/ /\ candidates' = candidates \cup {[sample |-> x, ws |-> working[x]]}
           /\ UNCHANGED staging
    BY DEF Raise, Converted
  <2> QED
    BY <1>2, <2>1, StagedRow, AppendedLine
<1>4. FailureRecord(x) \in AttemptRecords /\ FailureRecord(x).sample = x /\ ~FailureRecord(x).success
  BY DEF FailureRecord, AttemptRecords
<1> QED
  BY <1>1, <1>3, <1>4, LeaveKeeps

LEMMA PersistAttemptsKeeps == ASSUME BatchInv, PersistAttempts PROVE BatchInv'
<1>0. /\ run # None /\ run.step = "stage" /\ todo = {} /\ working = <<>>
      /\ attempts' = attempts \cup done
      /\ todo' = todo /\ working' = working /\ done' = done /\ used' = used /\ gold' = gold
      /\ candidates' = candidates /\ staging' = staging
      /\ run' = [run EXCEPT !.step = IF @ = "stage" /\ run.mode = "strict" THEN "gold" ELSE "judge"]
  BY DEF PersistAttempts, Running, captures
<1>1. PlanOK /\ StageOK /\ CapturedOK /\ MergedOK /\ BatchTypeOK
  BY <1>0 DEF BatchInv, RunOK
<1>2. /\ run' \in Batches /\ run'.mode = run.mode /\ run'.plan = run.plan /\ run'.stage = run.stage
      /\ run'.step \in {"gold", "judge"}
      /\ run'.step = "gold" <=> run.mode = "strict"
  BY <1>0, <1>1 DEF PlanOK, Batches
<1>3. BatchTypeOK'
  BY <1>0, <1>1 DEF BatchTypeOK
<1>4. PlanOK'
  BY <1>1, <1>2 DEF PlanOK
<1>5. (StageOK /\ CapturedOK)'
  BY <1>0, <1>1, <1>2 DEF StageOK, CapturedOK, Accepted
<1>6. MergedOK'
  BY <1>0, <1>2 DEF MergedOK
<1>7. (GoldIsProven /\ GoldOnce)'
  BY <1>0 DEF BatchInv, GoldIsProven, GoldOnce
<1>8. StageOpensAfterPass'
  BY <1>0, <1>2 DEF BatchInv, StageOpensAfterPass
<1> QED
  BY <1>3, <1>4, <1>5, <1>6, <1>7, <1>8 DEF BatchInv, RunOK

\* A merge without a conflict adds records that are captured and attempted, one per sample.
LEMMA PersistGoldKeeps ==
  ASSUME BatchInv, PersistGold
  PROVE  BatchInv' /\ gold \subseteq gold'
<1>0. /\ run # None /\ run.step = "gold" /\ ~Conflict /\ gold' = gold \cup Accepted
      /\ attempts' = attempts
      /\ todo' = todo /\ working' = working /\ done' = done /\ used' = used
      /\ candidates' = candidates /\ staging' = staging
      /\ run' = [run EXCEPT !.step = "judge"]
  BY DEF PersistGold, Running, captures
<1>1. PlanOK /\ StageOK /\ CapturedOK /\ MergedOK /\ BatchTypeOK
  BY <1>0 DEF BatchInv, RunOK
<1>2. /\ run' \in Batches /\ run'.mode = run.mode /\ run'.plan = run.plan /\ run'.stage = run.stage
      /\ run'.step = "judge"
  BY <1>0, <1>1 DEF PlanOK, Batches
<1>3. IsFiniteSet(Accepted) /\ Accepted \subseteq done
  BY <1>1, FS_Subset DEF Accepted, BatchTypeOK
<1>4. BatchTypeOK'
  <2>1. IsFiniteSet(gold')
    BY <1>0, <1>1, <1>3, FS_Union DEF BatchTypeOK
  <2> QED
    BY <1>0, <1>1, <1>3, <2>1 DEF BatchTypeOK
<1>5. PlanOK'
  BY <1>1, <1>2 DEF PlanOK
<1>6. (StageOK /\ CapturedOK)'
  BY <1>0, <1>1, <1>2 DEF StageOK, CapturedOK, Accepted
<1>7. MergedOK'
  BY <1>0, <1>1, <1>2 DEF MergedOK, Accepted
<1>8. GoldIsProven'
  <2>1. ASSUME NEW g \in Accepted
        PROVE  /\ g \in attempts /\ g.success
               /\ [sample |-> g.sample, ws |-> g.ws] \in candidates
               /\ g.sample \notin HeldOut.ids /\ TaskOf[g.sample].text \notin HeldOut.texts
    <3>1. g \in done /\ g.success
      BY DEF Accepted
    <3>2. g.sample \in run.plan[run.stage]
      BY <1>1, <3>1 DEF StageOK
    <3>3. Fresh(g.sample)
      BY <1>1, <3>2 DEF PlanOK
    <3> QED
      BY <1>0, <1>1, <3>1, <3>3 DEF MergedOK, CapturedOK, Fresh
  <2>2. GoldIsProven
    BY DEF BatchInv
  <2> QED
    BY <1>0, <2>1, <2>2 DEF GoldIsProven
<1>9. GoldOnce'
  BY <1>0, <1>1, <1>3 DEF BatchInv, GoldOnce, Conflict, StageOK
<1>10. StageOpensAfterPass'
  <2>1. ASSUME NEW k \in 1 .. (run.stage - 1), run.mode = "strict"
        PROVE  Cardinality({g \in gold' : g.sample \in run.plan[k]}) * 100
                 >= MinimumRate * Stages[k].count
    <3>1. Cardinality({g \in gold : g.sample \in run.plan[k]}) * 100
            >= MinimumRate * Stages[k].count
      BY <1>0, <2>1 DEF BatchInv, StageOpensAfterPass
    <3>2. IsFiniteSet({g \in gold' : g.sample \in run.plan[k]})
      BY <1>4, FS_Subset DEF BatchTypeOK
    <3>3. {g \in gold : g.sample \in run.plan[k]} \subseteq {g \in gold' : g.sample \in run.plan[k]}
      BY <1>0
    <3>4. PICK m \in Nat : m = Cardinality({g \in gold : g.sample \in run.plan[k]})
      BY <3>2, <3>3, FS_Subset, FS_CardinalityType
    <3>5. PICK n \in Nat : n = Cardinality({g \in gold' : g.sample \in run.plan[k]})
      BY <3>2, FS_CardinalityType
    <3>6. m <= n
      BY <3>2, <3>3, <3>4, <3>5, FS_Subset
    <3>7. k \in DOMAIN Stages
      BY <1>1 DEF PlanOK, Batches
    <3>8. PICK need \in Int : need = MinimumRate * Stages[k].count
      <4>1. Stages[k].count \in Nat /\ MinimumRate \in Nat
        BY <3>7, StageRecords, LiveBatchAssumption
      <4> QED
        BY <4>1
    <3> QED
      BY <3>1, <3>4, <3>5, <3>6, <3>8
  <2>2. \A k \in 1 .. (run.stage - 1) : \A x \in run.plan[k] : \E a \in attempts : a.sample = x
    BY <1>0 DEF BatchInv, StageOpensAfterPass
  <2> QED
    BY <1>0, <1>2, <2>1, <2>2 DEF StageOpensAfterPass
<1> QED
  BY <1>0, <1>4, <1>5, <1>6, <1>7, <1>8, <1>9, <1>10 DEF BatchInv, RunOK

LEMMA BatchInductive == BatchInv /\ [BatchNext]_batchVars => BatchInv'
<1> SUFFICES ASSUME BatchInv, [BatchNext]_batchVars PROVE BatchInv'
  OBVIOUS
<1>1. CASE UNCHANGED batchVars
  BY <1>1, OfflineKeeps DEF batchVars, batch, ledgers, captures
<1>2. CASE ReadStaging \/ WriteGold \/ WriteNegative \/ WriteReject \/ CrashPartition
  BY <1>2, OfflineKeeps DEF ReadStaging, WriteGold, WriteNegative, WriteReject, CrashPartition
<1> QED
  BY <1>1, <1>2, StartKeeps, PersistAttemptsKeeps, PersistGoldKeeps, RefuseGoldKeeps, JudgeKeeps,
     BatchDiesKeeps, SubmitKeeps, FinishKeeps, RaiseKeeps DEF BatchNext

LEMMA BatchInvariant == BatchSpec => []BatchInv
  BY BatchInitInv, BatchInductive, PTL DEF BatchSpec

\* Accepted gold has its attempt in the ledger, the session of its workspace captured, and a
\* task that is none of the held-out ones.
THEOREM GoldIsAlwaysProven == BatchSpec => []GoldIsProven
<1>1. BatchInv => GoldIsProven
  BY DEF BatchInv
<1> QED
  BY <1>1, BatchInvariant, PTL

\* A later stage runs over persisted evidence of every earlier one.
THEOREM StagesOpenInOrder == BatchSpec => []StageOpensAfterPass
<1>1. BatchInv => StageOpensAfterPass
  BY DEF BatchInv
<1> QED
  BY <1>1, BatchInvariant, PTL

LEMMA GoldOnlyGrows ==
  BatchInv /\ [BatchNext]_batchVars =>
    [/\ gold \subseteq gold'
     /\ \A g, h \in gold' : g.sample = h.sample => g = h]_gold
<1> SUFFICES ASSUME BatchInv, [BatchNext]_batchVars, gold' # gold
             PROVE  /\ gold \subseteq gold'
                    /\ \A g, h \in gold' : g.sample = h.sample => g = h
  OBVIOUS
<1>1. PersistGold
  BY DEF BatchNext, batchVars, ledgers, Start, PersistAttempts, RefuseGold, Judge, BatchDies, Submit,
     Finish, Raise, ReadStaging, WriteGold, WriteNegative, WriteReject, CrashPartition
<1> QED
  BY <1>1, PersistGoldKeeps DEF BatchInv, GoldOnce

\* A sample that is accepted gold keeps its one record for ever.
THEOREM GoldStays == BatchSpec => GoldNeverRewritten
  BY BatchInvariant, GoldOnlyGrows, PTL DEF BatchSpec, GoldNeverRewritten

-------------------------------------------------------------------------------
(* The offline partition.                                                     *)

Passes == [step : {"gold", "negative", "reject"}, lines : Seq(StagedLines)]

PassInv ==
  /\ partition # None => partition \in Passes
  /\ filtered = [gold |-> filtered.gold, negative |-> filtered.negative,
                 reject |-> filtered.reject]
  /\ \A g \in filtered.gold : g.outcome \in StrictOutcomes
  /\ \A g, h \in filtered.gold : g.sample = h.sample => g = h

LEMMA RowsAreAccepted ==
  ASSUME NEW lines \in Seq(StagedLines), NEW i \in DOMAIN lines, lines[i].kind = "row"
  PROVE  lines[i].outcome \in Outcomes /\ StagingAccepts(SessionOf(lines[i].outcome))
<1>1. lines[i] \in StagedLines
  OBVIOUS
<1>2. lines[i] \in [kind : {"row"}, sample : Samples, ws : Nat,
                    outcome : {o \in Outcomes : StagingAccepts(SessionOf(o))}]
  BY <1>1 DEF StagedLines, Torn
<1> QED
  BY <1>2

LEMMA CleanOutcomesAreStrict ==
  ASSUME NEW o \in CleanOutcomes, StagingAccepts(SessionOf(o))
  PROVE  o \in StrictOutcomes
<1>1. o \in Outcomes /\ DerivedLabels(Staged(SessionOf(o))) = {}
  BY DEF CleanOutcomes, ValidOutcomes
<1>2. /\ SessionOf(o).diff \in {"none", "valid", "broken"}
      /\ SessionOf(o).outcome \in {"completed", "blocked", "partial", "none"}
  BY <1>1, LiveBatchAssumption DEF SessionOf
<1> QED
  BY <1>1, <1>2, CleanIsStrict DEF StrictOutcomes

\* A row that is a duplicate has an earlier gold row of its sample that is none.
LEMMA FirstGoldRow ==
  ASSUME NEW lines \in Seq(StagedLines), NEW i \in DOMAIN lines, Duplicate(lines, i)
  PROVE  \E j \in PartitionGold(lines) : j < i /\ lines[j].sample = lines[i].sample
<1>1. DOMAIN lines = 1 .. Len(lines) /\ Len(lines) \in Nat
  OBVIOUS
<1> DEFINE S == {j \in 1 .. (i - 1) : GoldRow(lines, j) /\ lines[j].sample = lines[i].sample}
<1>0. i \in 1 .. Len(lines) /\ i \in Nat /\ Len(lines) \in Nat
  BY <1>1
<1>2. S # {} /\ S \subseteq Nat
  BY <1>0 DEF Duplicate
<1>3. PICK k \in S : \A j \in S : ~(<<j, k>> \in OpToRel(<, Nat))
  BY <1>2, WFMin, NatLessThanWellFounded
<1>4. \A j \in S : k <= j
  <2> SUFFICES ASSUME NEW j \in S PROVE k <= j
    OBVIOUS
  <2>1. j \in Nat /\ k \in Nat
    BY <1>2
  <2>2. <<j, k>> \in OpToRel(<, Nat) <=> j < k
    BY <2>1 DEF OpToRel
  <2>3. ~(j < k)
    BY <1>3, <2>2
  <2> QED
    BY <2>1, <2>3
<1>5. k \in DOMAIN lines /\ k < i /\ k \in Nat
  <2>1. k \in 1 .. (i - 1)
    BY <1>3
  <2> QED
    BY <1>0, <1>1, <2>1
<1>6. ~ Duplicate(lines, k)
  <2> SUFFICES ASSUME Duplicate(lines, k) PROVE FALSE
    OBVIOUS
  <2>1. PICK j \in 1 .. (k - 1) : GoldRow(lines, j) /\ lines[j].sample = lines[k].sample
    BY DEF Duplicate
  <2>2. j \in S
    <3>1. lines[k].sample = lines[i].sample
      BY <1>3
    <3>2. j \in 1 .. (i - 1)
      BY <1>0, <1>5, <2>1
    <3> QED
      BY <2>1, <3>1, <3>2
  <2>3. k <= j
    BY <1>4, <2>2
  <2> HIDE DEF S
  <2> QED
    BY <1>5, <2>1, <2>3
<1> QED
  BY <1>3, <1>5, <1>6 DEF PartitionGold

\* Every line has one output; a rejected row is the second gold row of its sample.
LEMMA LinesArePartitioned ==
  ASSUME NEW lines \in Seq(StagedLines), NEW i \in DOMAIN lines
  PROVE  /\ \/ i \in PartitionGold(lines) /\ i \notin PartitionNegative(lines)
            \/ i \in PartitionNegative(lines)
            \/ i \in PartitionReject(lines)
         /\ (i \in PartitionReject(lines) /\ lines[i].kind = "row")
              => \E j \in PartitionGold(lines) : j < i /\ lines[j].sample = lines[i].sample
<1>1. \/ i \in PartitionGold(lines) /\ i \notin PartitionNegative(lines)
      \/ i \in PartitionNegative(lines)
      \/ i \in PartitionReject(lines)
  BY DEF PartitionGold, PartitionNegative, PartitionReject
<1>2. ASSUME i \in PartitionReject(lines), lines[i].kind = "row"
      PROVE  Duplicate(lines, i)
  <2>1. lines[i].outcome \in Outcomes /\ StagingAccepts(SessionOf(lines[i].outcome))
    BY <1>2, RowsAreAccepted
  <2>2. lines[i].outcome \in ValidOutcomes
    BY <2>1, StagedIsValid DEF ValidOutcomes
  <2> QED
    BY <1>2, <2>2 DEF PartitionReject, RowValid
<1> QED
  BY <1>1, <1>2, FirstGoldRow

\* The gold rows are sessions that the strict conversion accepts, one per sample.
LEMMA PassGold ==
  ASSUME NEW lines \in Seq(StagedLines)
  PROVE  /\ \A i \in PartitionGold(lines) : lines[i].outcome \in StrictOutcomes
         /\ \A i, j \in PartitionGold(lines) : lines[i].sample = lines[j].sample => i = j
<1>1. ASSUME NEW i \in PartitionGold(lines)
      PROVE  lines[i].outcome \in StrictOutcomes
  BY <1>1, RowsAreAccepted, CleanOutcomesAreStrict DEF PartitionGold, GoldRow
<1>2. ASSUME NEW i \in PartitionGold(lines), NEW j \in PartitionGold(lines),
             lines[i].sample = lines[j].sample
      PROVE  i = j
  <2>1. i \in 1 .. Len(lines) /\ j \in 1 .. Len(lines) /\ Len(lines) \in Nat
    BY <1>2 DEF PartitionGold
  <2>2. i \notin 1 .. (j - 1) /\ j \notin 1 .. (i - 1)
    BY <1>2 DEF PartitionGold, Duplicate
  <2> QED
    BY <2>1, <2>2
<1> QED
  BY <1>1, <1>2

LEMMA PassInitInv == BatchInit => PassInv
  BY DEF BatchInit, PassInv

LEMMA WriteGoldKeeps ==
  ASSUME PassInv, WriteGold
  PROVE  PassInv'
<1>1. PICK lines \in Seq(StagedLines) : lines = partition.lines
  BY DEF PassInv, WriteGold, Passes
<1>2. filtered'.gold = {lines[i] : i \in PartitionGold(lines)}
  BY <1>1 DEF WriteGold, PassInv
<1>3. filtered' = [gold |-> filtered'.gold, negative |-> filtered'.negative,
                   reject |-> filtered'.reject]
  BY DEF WriteGold, PassInv
<1>4. partition' \in Passes
  BY DEF WriteGold, PassInv, Passes
<1> QED
  BY <1>2, <1>3, <1>4, PassGold DEF PassInv

LEMMA PassInductive ==
  ASSUME BatchInv, PassInv, [BatchNext]_batchVars
  PROVE  PassInv'
<1>1. CASE ReadStaging
  <2>1. partition' \in Passes /\ filtered' = filtered
    BY <1>1 DEF ReadStaging, Passes, BatchInv, BatchTypeOK
  <2> QED
    BY <2>1 DEF PassInv, StrictOutcomes, SessionOf
<1>2. CASE WriteGold
  BY <1>2, WriteGoldKeeps
<1>3. CASE WriteNegative
  <2>1. partition' \in Passes /\ filtered'.gold = filtered.gold
    BY <1>3 DEF WriteNegative, Passes, PassInv
  <2>2. filtered' = [gold |-> filtered'.gold, negative |-> filtered'.negative,
                     reject |-> filtered'.reject]
    BY <1>3 DEF WriteNegative, PassInv
  <2> QED
    BY <2>1, <2>2 DEF PassInv
<1>4. CASE WriteReject
  <2>1. partition' = None /\ filtered'.gold = filtered.gold
    BY <1>4 DEF WriteReject, PassInv
  <2>2. filtered' = [gold |-> filtered'.gold, negative |-> filtered'.negative,
                     reject |-> filtered'.reject]
    BY <1>4 DEF WriteReject, PassInv
  <2> QED
    BY <2>1, <2>2 DEF PassInv
<1>5. CASE CrashPartition
  BY <1>5 DEF CrashPartition, PassInv
<1>6. CASE UNCHANGED offline
  BY <1>6 DEF offline, PassInv
<1> QED
  BY <1>1, <1>2, <1>3, <1>4, <1>5, <1>6 DEF BatchNext, batchVars, offline, Start, PersistAttempts,
     PersistGold, RefuseGold, Judge, BatchDies, Submit, Finish, Raise

LEMMA PassIsExact ==
  ASSUME PassInv
  PROVE  PartitionIsExact
<1>1. ASSUME partition # None, NEW i \in DOMAIN partition.lines
      PROVE  LET lines == partition.lines
             IN  /\ \/ i \in PartitionGold(lines) /\ i \notin PartitionNegative(lines)
                    \/ i \in PartitionNegative(lines)
                    \/ i \in PartitionReject(lines)
                 /\ (i \in PartitionReject(lines) /\ lines[i].kind = "row")
                      => \E j \in PartitionGold(lines) :
                           j < i /\ lines[j].sample = lines[i].sample
  <2>1. PICK lines \in Seq(StagedLines) : lines = partition.lines
    BY <1>1 DEF PassInv, Passes
  <2> QED
    BY <1>1, <2>1, LinesArePartitioned
<1> QED
  BY <1>1 DEF PartitionIsExact, PassInv

\* The offline pass keeps every line in one output, and its gold is what the strict conversion
\* would have accepted, once per sample.
THEOREM PartitionStaysExact == BatchSpec => []PartitionIsExact
<1>1. BatchInv /\ PassInv /\ [BatchNext]_batchVars => PassInv'
  BY PassInductive
<1>2. PassInv => PartitionIsExact
  BY PassIsExact
<1> QED
  BY <1>1, <1>2, BatchInvariant, PassInitInv, PTL DEF BatchSpec
================================================================================
