------------------------------ MODULE JsonlStore ------------------------------
(***************************************************************************)
(* data/storage.py: the append-only JSONL store every collection artifact   *)
(* goes through (seeds, five task files, attempts, events).                 *)
(*                                                                          *)
(* A file is a sequence of chunks, one per os.write.  A chunk remembers the *)
(* record it carries, whether all of its JSON object reached the disk and   *)
(* whether its newline did.  Bytes are not modelled: splitlines() and       *)
(* json.loads() only tell apart a line that is one whole object from any    *)
(* other line, and a terminated line from the unterminated last one.        *)
(*                                                                          *)
(* append ignores what os.write returns: a write that comes up short (a     *)
(* full disk, a quota, a file size limit) is synced and acknowledged like   *)
(* any other.                                                               *)
(*                                                                          *)
(* Several stores may be open on one file: the runner keeps events.jsonl    *)
(* open while the offline retry commands open their own instance.           *)
(***************************************************************************)
EXTENDS Naturals, Sequences

CONSTANTS
  Records,      \* record identifiers
  Stores,       \* JsonlStore instances, each in a process of its own
  None,         \* no record is being appended
  PowerLoss,    \* TRUE: the machine may stop and lose what was not fsynced
  MaxChunks     \* bound on the number of os.write calls

ASSUME StoreAssumption ==
  /\ None \notin Records
  /\ PowerLoss \in BOOLEAN
  /\ MaxChunks \in Nat

VARIABLES
  file,         \* sequence of chunks
  durable,      \* how many leading chunks an fsync has covered
  phase,        \* [Stores -> "closed" | "open" | "failed"]
  ids,          \* the _ids set of each open store
  writing,      \* the record written but not yet fsynced, under _lock
  acked,        \* history: records whose append returned True
  short         \* history: records one of whose writes came up short

vars == <<file, durable, phase, ids, writing, acked, short>>

Chunk == [id : Records, whole : BOOLEAN, newline : BOOLEAN]

TypeOK ==
  /\ file \in Seq(Chunk)
  /\ durable \in 0 .. Len(file)
  /\ phase \in [Stores -> {"closed", "open", "failed"}]
  /\ ids \in [Stores -> SUBSET Records]
  /\ writing \in [Stores -> Records \cup {None}]
  /\ acked \subseteq Records
  /\ short \subseteq Records

-------------------------------------------------------------------------------
(* _load: chunk i is a line of its own when the chunk before it ended one    *)
(* and, unless it is the last chunk, it ends its own line.                   *)

StartsLine(i) == i = 1 \/ file[i - 1].newline

EndsLine(i) == i = Len(file) \/ file[i].newline

Parses(i) == StartsLine(i) /\ file[i].whole /\ EndsLine(i)

Loadable == {file[i].id : i \in {j \in DOMAIN file : Parses(j)}}

(* The records of the unterminated last line, which _load skips unless it is *)
(* one whole object.                                                         *)
Unterminated ==
  {file[i].id : i \in {j \in DOMAIN file : \A k \in j .. Len(file) : ~file[k].newline}}

(* A terminated line that is not one whole object: _load raises.             *)
MalformedCompleteLine ==
  \E i \in DOMAIN file : file[i].newline /\ ~Parses(i)

Load(s) ==
  /\ phase[s] = "closed"
  /\ ~MalformedCompleteLine
  /\ phase' = [phase EXCEPT ![s] = "open"]
  /\ ids' = [ids EXCEPT ![s] = Loadable]
  /\ UNCHANGED <<file, durable, writing, acked, short>>

LoadRaises(s) ==
  /\ phase[s] = "closed"
  /\ MalformedCompleteLine
  /\ phase' = [phase EXCEPT ![s] = "failed"]
  /\ UNCHANGED <<file, durable, ids, writing, acked, short>>

-------------------------------------------------------------------------------
(* append: the lock is taken, a known id returns False (no step), otherwise  *)
(* the line is written with O_APPEND, fsynced and remembered.                *)

(* What is left of a chunk of which only a prefix was written or survived.   *)
Torn(c) == {[c EXCEPT !.newline = FALSE],
            [c EXCEPT !.newline = FALSE, !.whole = FALSE]}

MayAppend(s, r) ==
  /\ phase[s] = "open"
  /\ writing[s] = None
  /\ r \notin ids[s]
  /\ Len(file) < MaxChunks

Line(r) == [id |-> r, whole |-> TRUE, newline |-> TRUE]

(* A defect: a record without its newline. *)
AppendWriteUnterminated(s, r) ==
  /\ MayAppend(s, r)
  /\ file' = Append(file, [Line(r) EXCEPT !.newline = FALSE])
  /\ writing' = [writing EXCEPT ![s] = r]
  /\ UNCHANGED <<durable, phase, ids, acked, short>>

(* A defect: acknowledged before the fsync. *)
AppendWriteAcknowledged(s, r) ==
  /\ MayAppend(s, r)
  /\ \/ file' = Append(file, Line(r)) /\ UNCHANGED short
     \/ /\ \E c \in Torn(Line(r)) : file' = Append(file, c)
        /\ short' = short \cup {r}
  /\ writing' = [writing EXCEPT ![s] = r]
  /\ acked' = acked \cup {r}
  /\ UNCHANGED <<durable, phase, ids>>

(* os.write, which may write any part of the line: what it returns is not    *)
(* read.                                                                     *)
AppendWrite(s, r) ==
  /\ MayAppend(s, r)
  /\ \/ file' = Append(file, Line(r)) /\ UNCHANGED short
     \/ /\ \E c \in Torn(Line(r)) : file' = Append(file, c)
        /\ short' = short \cup {r}
  /\ writing' = [writing EXCEPT ![s] = r]
  /\ UNCHANGED <<durable, phase, ids, acked>>

AppendSync(s) ==
  /\ writing[s] # None
  /\ durable' = Len(file)
  /\ ids' = [ids EXCEPT ![s] = @ \cup {writing[s]}]
  /\ acked' = acked \cup {writing[s]}
  /\ writing' = [writing EXCEPT ![s] = None]
  /\ UNCHANGED <<file, phase, short>>

(* fsync raises: the lock is released, the caller sees the error and the     *)
(* store does not remember a record that is already in the file.             *)
AppendSyncRaises(s) ==
  /\ writing[s] # None
  /\ writing' = [writing EXCEPT ![s] = None]
  /\ UNCHANGED <<file, durable, phase, ids, acked, short>>

-------------------------------------------------------------------------------
(* The environment.                                                          *)

ProcessExit(s) ==
  /\ phase[s] # "closed"
  /\ phase' = [phase EXCEPT ![s] = "closed"]
  /\ ids' = [ids EXCEPT ![s] = {}]
  /\ writing' = [writing EXCEPT ![s] = None]
  /\ UNCHANGED <<file, durable, acked, short>>

(* The machine stops: a prefix of the bytes written since the last fsync     *)
(* survives, so that the last surviving chunk may be torn anywhere.          *)
MachineStops ==
  /\ PowerLoss
  /\ \E n \in durable .. Len(file) :
       \/ file' = SubSeq(file, 1, n)
       \/ /\ n > durable
          /\ \E c \in Torn(file[n]) : file' = Append(SubSeq(file, 1, n - 1), c)
  /\ durable' = Len(file')
  /\ phase' = [s \in Stores |-> "closed"]
  /\ ids' = [s \in Stores |-> {}]
  /\ writing' = [s \in Stores |-> None]
  /\ UNCHANGED <<acked, short>>

Init ==
  /\ file = <<>>
  /\ durable = 0
  /\ phase = [s \in Stores |-> "closed"]
  /\ ids = [s \in Stores |-> {}]
  /\ writing = [s \in Stores |-> None]
  /\ acked = {}
  /\ short = {}

Next ==
  \/ \E s \in Stores :
       \/ Load(s)
       \/ LoadRaises(s)
       \/ \E r \in Records : AppendWrite(s, r)
       \/ AppendSync(s)
       \/ AppendSyncRaises(s)
       \/ ProcessExit(s)
  \/ MachineStops

Spec == Init /\ [][Next]_vars

-------------------------------------------------------------------------------
(* Properties.                                                               *)

(* What a file that loads may lack of the acknowledged records: whatever a   *)
(* crash left behind, resuming fails loudly or finds every record that       *)
(* append reported as stored (storage.py:14-20), except one whose write came *)
(* up short (storage.py:72) and still stands in the unterminated last line.  *)
LossIsShortTail ==
  ~MalformedCompleteLine => acked \subseteq Loadable \cup (short \cap Unterminated)

(* The store is the durable log its callers rely on, whatever dies: the      *)
(* records of a file that loads appear, are acknowledged and stay            *)
(* (storage.py:61-79) unless their write came up short, and a file that does *)
(* not load counts as damaged.                                               *)
Log == INSTANCE DurableLog
         WITH readable <- IF MalformedCompleteLine THEN {} ELSE Loadable,
              tail <- IF MalformedCompleteLine THEN {} ELSE Unterminated,
              damaged <- MalformedCompleteLine

ImplementsDurableLog == Log!Spec

(* The store in one formula: what a file that loads may lack, and the types. *)
Safety == TypeOK /\ LossIsShortTail
===============================================================================
