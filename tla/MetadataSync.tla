----------------------------- MODULE MetadataSync -----------------------------
(* Installing the pinned provider metadata                                    *)
(* (integrations/ccswitch_metadata/sync.py, cli.py): a command verifies the   *)
(* upstream files the bundled snapshot was audited against, resolves the      *)
(* snapshot to use, and installs it in a target or rolls a target back, under *)
(* a lock file and with a journal that all targets of a state directory       *)
(* share.  A command may die or fail between any two of its writes, and the   *)
(* program may be upgraded to a release with another bundled snapshot.        *)
(*                                                                            *)
(* A snapshot is the number of the release it was bundled with; a snapshot    *)
(* validates in a release that pins the same upstream commit.  The bytes of a *)
(* file and their hash are one.                                               *)
EXTENDS Naturals, Sequences, SequencesExt, FiniteSets

CONSTANTS Commands,  \* command invocations, each a process of its own
          Targets,   \* active files that share the state directory
          Pin,       \* release |-> the upstream commit it pins, a sequence
          Files,     \* the pinned verification anchors
          Absent

ASSUME MetadataSyncAssumption ==
  /\ Pin \in Seq({Pin[r] : r \in DOMAIN Pin}) /\ Pin # <<>>
  /\ Files # {} /\ IsFiniteSet(Files)
  /\ Absent \notin DOMAIN Pin /\ Absent \notin Commands

Releases == DOMAIN Pin

VARIABLES release,     \* the installed program
          cache,       \* verification_cache.json: the pin its records are of, or Absent
          last,        \* last_verified_snapshot.json, or Absent
          active,      \* per target: its snapshot, or Absent
          backups,     \* backups/: the command that made the file |-> snapshot
          index,       \* backup_index.json: [id, target, before], the latest last
          lock,        \* the command that made .sync.lock, or Absent
          cmd,         \* per command: where it stands and what it knows
          downloaded,  \* history: <<file, pin>> whose pinned bytes were received
          verified     \* history: snapshots resolved as verified

files == <<cache, last, active, backups, index>>
vars == <<release, files, lock, cmd, downloaded, verified>>

Unstarted == [at |-> "new", kind |-> "none", target |-> Absent, rel |-> 0, known |-> Absent,
              got |-> {}, snapshot |-> Absent, before |-> Absent, entry |-> 0]

Init ==
  /\ release = 1
  /\ cache = Absent /\ last = Absent
  /\ active = [t \in Targets |-> Absent]
  /\ backups = [c \in Commands |-> Absent]
  /\ index = <<>>
  /\ lock = Absent
  /\ cmd = [c \in Commands |-> Unstarted]
  /\ downloaded = {} /\ verified = {}

PinOf(c) == Pin[cmd[c].rel]

(* validate_snapshot: the source of a snapshot must be the pinned one.        *)
Validates(c, s) == s # Absent /\ Pin[s] = PinOf(c)

(* _load_cache: a record is of use to the release that pins the same commit.  *)
CachedFor(r) == IF cache = Pin[r] THEN cache ELSE Absent

Goto(c, at) == cmd' = [cmd EXCEPT ![c].at = at]
End(c) == cmd' = [cmd EXCEPT ![c] = [Unstarted EXCEPT !.at = "ended"]]

(* --- resolve_candidate ------------------------------------------------------- *)

(* "check" and "diff" are an "apply" that ends at Compare.                    *)
Begin(c) ==
  /\ cmd[c].at = "new"
  /\ \E kind \in {"apply", "rollback"}, t \in Targets, offline \in BOOLEAN :
       cmd' = [cmd EXCEPT ![c] =
         [@ EXCEPT !.kind = kind, !.target = t, !.rel = release,
                   !.known = CachedFor(release),
                   !.at = IF kind = "rollback" THEN "lock"
                          ELSE IF offline THEN "fallback" ELSE "verify"]]
  /\ UNCHANGED <<release, files, lock, downloaded, verified>>

(* A defect: a 304 is taken for the pinned bytes without a cache record. *)
FetchTrusting(c, f) ==
  /\ cmd[c].at = "verify" /\ f \in Files \ cmd[c].got
  /\ \/ cmd' = [cmd EXCEPT ![c].got = @ \cup {f}]
        /\ downloaded' \in {downloaded, downloaded \cup {<<f, PinOf(c)>>}}
     \/ End(c) /\ UNCHANGED downloaded
     \/ Goto(c, "fallback") /\ UNCHANGED downloaded
  /\ UNCHANGED <<release, files, lock, verified>>

(* One anchor: the pinned bytes arrive; "not modified" answers the cached     *)
(* record of this pin; other bytes, a redirect or a 304 without a record end  *)
(* the command; the network fails.                                            *)
Fetch(c, f) ==
  /\ cmd[c].at = "verify" /\ f \in Files \ cmd[c].got
  /\ \/ /\ cmd' = [cmd EXCEPT ![c].got = @ \cup {f}]
        /\ downloaded' = downloaded \cup {<<f, PinOf(c)>>}
     \/ /\ cmd[c].known # Absent
        /\ cmd' = [cmd EXCEPT ![c].got = @ \cup {f}]
        /\ UNCHANGED downloaded
     \/ End(c) /\ UNCHANGED downloaded
     \/ Goto(c, "fallback") /\ UNCHANGED downloaded
  /\ UNCHANGED <<release, files, lock, verified>>

WriteCache(c) ==
  /\ cmd[c].at = "verify" /\ cmd[c].got = Files
  /\ cache' = PinOf(c)
  /\ Goto(c, "verified")
  /\ UNCHANGED <<release, last, active, backups, index, lock, downloaded, verified>>

Resolved(c, s) == cmd' = [cmd EXCEPT ![c].snapshot = s, ![c].at = "resolved"]

WriteLast(c) ==
  /\ cmd[c].at = "verified"
  /\ last' = cmd[c].rel
  /\ Resolved(c, cmd[c].rel)
  /\ verified' = verified \cup {cmd[c].rel}
  /\ UNCHANGED <<release, cache, active, backups, index, lock, downloaded>>

(* Offline, or without a network: the last verified snapshot if it still      *)
(* validates, else the bundled one.                                           *)
FallBack(c) ==
  /\ cmd[c].at = "fallback"
  /\ Resolved(c, IF Validates(c, last) THEN last ELSE cmd[c].rel)
  /\ UNCHANGED <<release, files, lock, downloaded, verified>>

(* The difference to the active snapshot is reported, and "check" and "diff"  *)
(* are over; an active snapshot that does not validate ends "apply" as well.  *)
Compare(c) ==
  /\ cmd[c].at = "resolved"
  /\ \/ End(c)
     \/ /\ active[cmd[c].target] # Absent => Validates(c, active[cmd[c].target])
        /\ Goto(c, "lock")
  /\ UNCHANGED <<release, files, lock, downloaded, verified>>

(* --- MetadataStore.apply and rollback ------------------------------------------- *)

TakeLock(c) ==
  /\ cmd[c].at = "lock"
  /\ IF lock = Absent THEN lock' = c /\ Goto(c, cmd[c].kind) ELSE End(c) /\ UNCHANGED lock
  /\ UNCHANGED <<release, files, downloaded, verified>>

(* Nothing to install, or an active snapshot that no longer validates.        *)
ReadActive(c) ==
  /\ cmd[c].at = "apply"
  /\ LET now == active[cmd[c].target]
     IN  cmd' = [cmd EXCEPT ![c].before = now,
                            ![c].at = IF now = cmd[c].snapshot THEN "unlock"
                                      ELSE IF now = Absent THEN "journal"
                                      ELSE IF Validates(c, now) THEN "backup" ELSE "unlock"]
  /\ UNCHANGED <<release, files, lock, downloaded, verified>>

WriteBackup(c) ==
  /\ cmd[c].at = "backup"
  /\ backups' = [backups EXCEPT ![c] = cmd[c].before]
  /\ Goto(c, "journal")
  /\ UNCHANGED <<release, cache, last, active, index, lock, downloaded, verified>>

WriteEntry(c) ==
  /\ cmd[c].at = "journal"
  /\ index' = Append(index, [id |-> c, target |-> cmd[c].target, before |-> cmd[c].before])
  /\ Goto(c, "install")
  /\ UNCHANGED <<release, cache, last, active, backups, lock, downloaded, verified>>

WriteActive(c) ==
  /\ cmd[c].at = "install"
  /\ active' = [active EXCEPT ![cmd[c].target] = cmd[c].snapshot]
  /\ Goto(c, "unlock")
  /\ UNCHANGED <<release, cache, last, backups, index, lock, downloaded, verified>>

EntriesOf(t) == {i \in DOMAIN index : index[i].target = t}
Latest(t) == CHOOSE i \in EntriesOf(t) : \A j \in EntriesOf(t) : j <= i

(* A defect: the newest entry of the journal is taken, whatever its target. *)
RestoreNewest(c) ==
  /\ cmd[c].at = "rollback" /\ index # <<>>
  /\ LET e == index[Len(index)]
     IN  IF e.before = Absent \/ (Validates(c, backups[e.id]) /\ backups[e.id] = e.before)
         THEN /\ active' = [active EXCEPT ![cmd[c].target] = e.before]
              /\ cmd' = [cmd EXCEPT ![c].entry = Len(index), ![c].at = "drop"]
         ELSE Goto(c, "unlock") /\ UNCHANGED active
  /\ UNCHANGED <<release, cache, last, backups, index, lock, downloaded, verified>>

(* The latest entry of the target is restored: its backup must be there and   *)
(* be what the journal says, or the target was absent and is removed.         *)
Restore(c) ==
  /\ cmd[c].at = "rollback" /\ EntriesOf(cmd[c].target) # {}
  /\ LET e == index[Latest(cmd[c].target)]
     IN  IF e.before = Absent \/ (Validates(c, backups[e.id]) /\ backups[e.id] = e.before)
         THEN /\ active' = [active EXCEPT ![cmd[c].target] = e.before]
              /\ cmd' = [cmd EXCEPT ![c].entry = Latest(cmd[c].target), ![c].at = "drop"]
         ELSE Goto(c, "unlock") /\ UNCHANGED active
  /\ UNCHANGED <<release, cache, last, backups, index, lock, downloaded, verified>>

NothingToRestore(c) ==
  /\ cmd[c].at = "rollback" /\ EntriesOf(cmd[c].target) = {}
  /\ Goto(c, "unlock")
  /\ UNCHANGED <<release, files, lock, downloaded, verified>>

DropEntry(c) ==
  /\ cmd[c].at = "drop"
  /\ index' = RemoveAt(index, cmd[c].entry)
  /\ Goto(c, "unlock")
  /\ UNCHANGED <<release, cache, last, active, backups, lock, downloaded, verified>>

(* The finally block of the lock.                                             *)
Unlock(c) ==
  /\ cmd[c].at = "unlock"
  /\ lock' = Absent
  /\ End(c)
  /\ UNCHANGED <<release, files, downloaded, verified>>

(* --- faults -------------------------------------------------------------------------- *)

Writing == {"backup", "journal", "install", "rollback", "drop"}

(* A replace that is refused three times raises, and the lock is released.    *)
WriteFails(c) ==
  /\ \/ cmd[c].at \in Writing /\ Goto(c, "unlock")
     \/ cmd[c].at = "verified" /\ End(c)
  /\ UNCHANGED <<release, files, lock, downloaded, verified>>

Inside == Writing \cup {"apply", "unlock"}

(* The command is killed: its files and its lock stay.                        *)
Crash(c) ==
  /\ cmd[c].at \notin {"new", "ended"}
  /\ End(c)
  /\ UNCHANGED <<release, files, lock, downloaded, verified>>

(* The operator inspects and removes a lock nobody holds any more.            *)
RemoveStaleLock ==
  /\ lock # Absent /\ cmd[lock].at = "ended"
  /\ lock' = Absent
  /\ UNCHANGED <<release, files, cmd, downloaded, verified>>

Upgrade ==
  /\ release < Len(Pin)
  /\ release' = release + 1
  /\ UNCHANGED <<files, lock, cmd, downloaded, verified>>

Next ==
  \/ \E c \in Commands :
       \/ Begin(c) \/ WriteCache(c) \/ WriteLast(c) \/ FallBack(c) \/ Compare(c)
       \/ TakeLock(c) \/ ReadActive(c) \/ WriteBackup(c) \/ WriteEntry(c) \/ WriteActive(c)
       \/ Restore(c) \/ NothingToRestore(c) \/ DropEntry(c) \/ Unlock(c)
       \/ WriteFails(c) \/ Crash(c)
  \/ \E c \in Commands, f \in Files : Fetch(c, f)
  \/ RemoveStaleLock
  \/ Upgrade

Spec == Init /\ [][Next]_vars

(* --- properties ------------------------------------------------------------------------ *)

Snapshots == Releases \cup {Absent}

TypeOK ==
  /\ release \in Releases
  /\ cache \in {Pin[r] : r \in Releases} \cup {Absent}
  /\ last \in Snapshots
  /\ active \in [Targets -> Snapshots]
  /\ backups \in [Commands -> Snapshots]
  /\ index \in Seq([id : Commands, target : Targets, before : Snapshots])
  /\ lock \in Commands \cup {Absent}

(* Only one command is between taking the lock and releasing it, and it is    *)
(* the one whose lock file is there.                                          *)
OneInside == \A c \in Commands : cmd[c].at \in Inside => lock = c

(* Whatever died or failed on the way, each journal entry names a backup that *)
(* holds what the target held before: it can be rolled back to.               *)
EntriesRestorable == \A i \in DOMAIN index : index[i].before # Absent =>
                       backups[index[i].id] = index[i].before

(* A snapshot that was resolved as verified had every upstream file it was    *)
(* audited against arrive with the pinned bytes: now or in an earlier run of  *)
(* the same pin whose cache a "not modified" may stand for.                   *)
VerifiedMeansDownloaded == \A s \in verified : \A f \in Files : <<f, Pin[s]>> \in downloaded

(* The lock, the journal and the verification together.                       *)
Safety == TypeOK /\ OneInside /\ EntriesRestorable /\ VerifiedMeansDownloaded

(* The entries of a target that undo something: what came after an entry, in  *)
(* the next entry or in the target, differs from what the entry restores.  An *)
(* entry equal to what came after it was left by a command that died between  *)
(* the journal and the target.                                                *)
Effective(t) ==
  LET Later(i) == {j \in EntriesOf(t) : j > i}
  IN  {i \in EntriesOf(t) :
         \/ Later(i) = {} /\ index[i].before # active[t]
         \/ \E j \in Later(i) : /\ \A k \in Later(i) : j <= k
                               /\ index[i].before # index[j].before}

(* The journal as an undo log.                                                *)
Undone(t) == {[id |-> index[i].id, before |-> index[i].before,
               older |-> {index[j].id : j \in {k \in Effective(t) : k < i}}] : i \in Effective(t)}

Log == INSTANCE UndoLog WITH Contents <- Releases, Ids <- Commands, content <- active,
                             undo <- [t \in Targets |-> Undone(t)]

(* Applying and rolling back, with two targets in one journal, deaths between *)
(* any two writes, stale locks and upgrades, is an undo log.                  *)
ImplementsUndoLog == Log!Spec
==============================================================================
