----------------------------- MODULE DatasetProofs -----------------------------
(* Theorems about the files of a data directory, for every value of the       *)
(* constants of their modules: the JSONL store that every row goes through    *)
(* (JsonlStore), the filling of seeds.jsonl (SeedGeneration), the frozen      *)
(* snapshot (Snapshot), the merge of shards and the partition of what it      *)
(* makes (ShardMerge).                                                        *)
EXTENDS JsonlStore, SeedGeneration, Snapshot, ShardMerge, FiniteSetTheorems, FunctionTheorems,
        WellFoundedInduction, TLAPS

-------------------------------------------------------------------------------
(* The JSONL store of data/storage.py: every set of records and of stores,    *)
(* with and without power losses, files of any length.                        *)

\* A chunk that carries record r: a terminated line, whole, or what a short write left of it.
Stands(i, r) ==
  /\ file[i].id = r
  /\ IF file[i].newline THEN file[i].whole ELSE r \in short

\* What was acknowledged stands among the chunks that a power loss leaves alone.
AckedDurable == \A r \in acked : \E i \in 1 .. durable : Stands(i, r)

\* What is being written stands somewhere in the file until its fsync ends.
WrittenStands ==
  \A s \in Stores : writing[s] # None => \E i \in 1 .. Len(file) : Stands(i, writing[s])

IInv == TypeOK /\ AckedDurable /\ WrittenStands

LEMMA InitIInv == Init => IInv
  BY StoreAssumption DEF Init, IInv, TypeOK, AckedDurable, WrittenStands

\* Steps that leave file, durable and acked alone and forget at most what is being written.
LEMMA ReadKeeps ==
  ASSUME IInv, UNCHANGED <<file, durable, acked, short>>,
         phase' \in [Stores -> {"closed", "open", "failed"}],
         ids' \in [Stores -> SUBSET Records],
         writing' \in [Stores -> Records \cup {None}],
         \A s \in Stores : writing'[s] \in {writing[s], None}
  PROVE  IInv'
  BY DEF IInv, TypeOK, AckedDurable, WrittenStands, Stands

LEMMA LoadableIsRecords ==
  ASSUME TypeOK
  PROVE  Loadable \subseteq Records /\ Unterminated \subseteq Records
<1> SUFFICES ASSUME NEW i \in DOMAIN file PROVE file[i].id \in Records
  BY DEF Loadable, Unterminated
<1>1. file[i] \in Chunk
  BY DEF TypeOK
<1> QED
  BY <1>1 DEF Chunk

LEMMA ReadSteps ==
  ASSUME IInv, NEW s \in Stores,
         Load(s) \/ LoadRaises(s) \/ AppendSyncRaises(s) \/ ProcessExit(s)
  PROVE  IInv'
<1>0. TypeOK
  BY DEF IInv
<1>1. CASE Load(s)
  BY <1>0, <1>1, ReadKeeps, LoadableIsRecords DEF Load, TypeOK
<1>2. CASE LoadRaises(s)
  BY <1>0, <1>2, ReadKeeps DEF LoadRaises, TypeOK
<1>3. CASE AppendSyncRaises(s)
  BY <1>0, <1>3, ReadKeeps DEF AppendSyncRaises, TypeOK
<1>4. CASE ProcessExit(s)
  BY <1>0, <1>4, ReadKeeps DEF ProcessExit, TypeOK
<1> QED
  BY <1>1, <1>2, <1>3, <1>4

\* What a write makes of the file, whatever part of the line reaches it.
LEMMA WriteMakes ==
  ASSUME TypeOK, NEW s \in Stores, NEW r \in Records, AppendWrite(s, r)
  PROVE  \E l \in Nat :
           /\ l = Len(file) /\ Len(file') = l + 1
           /\ DOMAIN file = 1 .. l /\ DOMAIN file' = 1 .. l + 1
           /\ file' \in Seq(Chunk)
           /\ \A i \in 1 .. l : file'[i] = file[i] /\ file[i].newline \in BOOLEAN
           /\ file'[l + 1].id = r
           /\ \/ file'[l + 1].newline /\ file'[l + 1].whole /\ short' = short
              \/ ~file'[l + 1].newline /\ short' = short \cup {r}
<1>0. PICK l \in Nat : l = Len(file)
  BY DEF TypeOK
<1>1. file \in Seq(Chunk) /\ \A i \in 1 .. l : file[i].newline \in BOOLEAN
  <2>1. file \in Seq(Chunk)
    BY DEF TypeOK
  <2>2. \A i \in 1 .. l : file[i] \in Chunk
    BY <1>0, <2>1
  <2> QED
    BY <2>1, <2>2 DEF Chunk
<1>2. \E c \in Chunk : /\ c.id = r /\ file' = Append(file, c)
                     /\ \/ c.newline /\ c.whole /\ short' = short
                        \/ ~c.newline /\ short' = short \cup {r}
  <2>1. CASE file' = Append(file, Line(r)) /\ UNCHANGED short
    <3>1. Line(r) \in Chunk /\ Line(r).id = r /\ Line(r).newline /\ Line(r).whole
      BY DEF Line, Chunk
    <3> QED
      BY <2>1, <3>1
  <2>2. CASE /\ \E c \in Torn(Line(r)) : file' = Append(file, c)
             /\ short' = short \cup {r}
    <3>1. PICK c \in Torn(Line(r)) : file' = Append(file, c)
      BY <2>2
    <3>2. c \in Chunk /\ c.id = r /\ ~c.newline
      BY <3>1 DEF Torn, Line, Chunk
    <3> QED
      BY <2>2, <3>1, <3>2
  <2> QED
    BY <2>1, <2>2 DEF AppendWrite
<1>3. PICK c \in Chunk : /\ c.id = r /\ file' = Append(file, c)
                      /\ \/ c.newline /\ c.whole /\ short' = short
                         \/ ~c.newline /\ short' = short \cup {r}
  BY <1>2
<1>4. /\ file' \in Seq(Chunk) /\ Len(file') = l + 1 /\ file'[l + 1] = c
      /\ \A i \in 1 .. l : file'[i] = file[i]
      /\ DOMAIN file = 1 .. l /\ DOMAIN file' = 1 .. l + 1
  BY <1>0, <1>1, <1>3
<1> QED
  BY <1>0, <1>1, <1>3, <1>4

LEMMA AppendWriteKeeps ==
  ASSUME IInv, NEW s \in Stores, NEW r \in Records, AppendWrite(s, r)
  PROVE  IInv'
<1>0. TypeOK
  BY DEF IInv
<1>1. PICK l \in Nat :
           /\ l = Len(file) /\ Len(file') = l + 1
           /\ DOMAIN file = 1 .. l /\ DOMAIN file' = 1 .. l + 1
           /\ file' \in Seq(Chunk)
           /\ \A i \in 1 .. l : file'[i] = file[i] /\ file[i].newline \in BOOLEAN
           /\ file'[l + 1].id = r
           /\ \/ file'[l + 1].newline /\ file'[l + 1].whole /\ short' = short
              \/ ~file'[l + 1].newline /\ short' = short \cup {r}
  BY <1>0, WriteMakes
<1>2. writing' = [writing EXCEPT ![s] = r] /\ UNCHANGED <<durable, phase, ids, acked>>
  BY DEF AppendWrite
<1>3. durable \in 0 .. l /\ short \subseteq short' /\ short' \subseteq Records
  BY <1>0, <1>1 DEF TypeOK
<1>4. TypeOK'
  BY <1>0, <1>1, <1>2, <1>3 DEF TypeOK
<1>5. ASSUME NEW i \in 1 .. l, NEW q, Stands(i, q) PROVE Stands(i, q)'
  BY <1>1, <1>3, <1>5 DEF Stands
<1>6. Stands(l + 1, r)'
  BY <1>1 DEF Stands
<1>7. AckedDurable'
  <2> SUFFICES ASSUME NEW q \in acked PROVE \E i \in 1 .. durable : Stands(i, q)'
    BY <1>2 DEF AckedDurable, Stands
  <2>1. PICK i \in 1 .. durable : Stands(i, q)
    BY DEF IInv, AckedDurable
  <2> QED
    BY <1>3, <1>5, <2>1
<1>8. WrittenStands'
  <2> SUFFICES ASSUME NEW t \in Stores, writing'[t] # None
               PROVE  \E i \in 1 .. l + 1 : Stands(i, writing[t])'
    BY <1>1 DEF WrittenStands, Stands
  <2>1. CASE t = s
    <3>1. writing'[t] = r
      BY <1>0, <1>2, <2>1 DEF TypeOK
    <3> QED
      BY <1>1, <1>6, <3>1 DEF Stands
  <2>2. CASE t # s
    <3>1. writing'[t] = writing[t]
      BY <1>0, <1>2, <2>2 DEF TypeOK
    <3>2. PICK i \in 1 .. l : Stands(i, writing[t])
      BY <1>1, <3>1 DEF IInv, WrittenStands
    <3> QED
      BY <1>1, <1>3, <3>1, <3>2 DEF Stands
  <2> QED
    BY <2>1, <2>2
<1> QED
  BY <1>4, <1>7, <1>8 DEF IInv

LEMMA AppendSyncKeeps ==
  ASSUME IInv, NEW s \in Stores, AppendSync(s)
  PROVE  IInv'
<1>0. TypeOK
  BY DEF IInv
<1>1. Len(file) \in Nat /\ durable \in 0 .. Len(file)
  BY <1>0 DEF TypeOK
<1>2. writing[s] \in Records
  BY <1>0 DEF AppendSync, TypeOK
<1>3. TypeOK'
  BY <1>0, <1>1, <1>2 DEF AppendSync, TypeOK
<1>4. AckedDurable'
  BY <1>1 DEF IInv, AckedDurable, WrittenStands, Stands, AppendSync
<1>5. WrittenStands'
  BY <1>0 DEF IInv, WrittenStands, Stands, AppendSync, TypeOK
<1> QED
  BY <1>3, <1>4, <1>5 DEF IInv

\* What a power loss leaves: a prefix that holds the durable chunks, its last chunk perhaps
\* torn if it was not one of them.
LEMMA StopLeaves ==
  ASSUME TypeOK, MachineStops
  PROVE  \E n \in durable .. Len(file) :
           /\ n \in Nat /\ durable \in Nat /\ Len(file) \in Nat
           /\ file' \in Seq(Chunk) /\ Len(file') = n /\ DOMAIN file' = 1 .. n
           /\ DOMAIN file = 1 .. Len(file)
           /\ \A i \in 1 .. n : \/ file'[i] = file[i]
                                \/ i = n /\ n > durable /\ file'[i] \in Torn(file[n])
           /\ \A i \in 1 .. n : /\ file'[i].id = file[i].id
                                /\ file'[i].newline => file'[i] = file[i]
                                /\ file'[i].whole => file[i].whole
<1>0. Len(file) \in Nat /\ durable \in 0 .. Len(file) /\ file \in Seq(Chunk)
  BY DEF TypeOK
<1>1. PICK n \in durable .. Len(file) :
        \/ file' = SubSeq(file, 1, n)
        \/ /\ n > durable
           /\ \E c \in Torn(file[n]) : file' = Append(SubSeq(file, 1, n - 1), c)
  BY DEF MachineStops
<1>2. /\ file' \in Seq(Chunk) /\ Len(file') = n
      /\ \A i \in 1 .. n : \/ file'[i] = file[i]
                           \/ i = n /\ n > durable /\ file'[i] \in Torn(file[n])
  <2>a. CASE file' = SubSeq(file, 1, n)
    BY <1>0, <2>a
  <2>b. CASE n > durable /\ \E c \in Torn(file[n]) : file' = Append(SubSeq(file, 1, n - 1), c)
    <3>1. PICK c \in Torn(file[n]) : file' = Append(SubSeq(file, 1, n - 1), c)
      BY <2>b
    <3>2. n \in 1 .. Len(file) /\ file[n] \in Chunk
      BY <1>0, <2>b
    <3>3. c \in Chunk
      BY <3>2 DEF Torn, Chunk
    <3>4. /\ SubSeq(file, 1, n - 1) \in Seq(Chunk) /\ Len(SubSeq(file, 1, n - 1)) = n - 1
          /\ \A i \in 1 .. n - 1 : SubSeq(file, 1, n - 1)[i] = file[i]
      BY <1>0, <3>2
    <3>5. file' \in Seq(Chunk) /\ Len(file') = n /\ file'[n] = c
          /\ \A i \in 1 .. n - 1 : file'[i] = file[i]
      BY <3>1, <3>2, <3>3, <3>4
    <3> QED
      BY <2>b, <3>1, <3>2, <3>5
  <2> QED
    BY <1>1, <2>a, <2>b
<1>3. /\ n \in Nat /\ durable \in Nat /\ DOMAIN file' = 1 .. n
      /\ DOMAIN file = 1 .. Len(file) /\ \A i \in 1 .. n : file[i] \in Chunk
  BY <1>0, <1>1, <1>2
<1>4. ASSUME NEW i \in 1 .. n
      PROVE  /\ file'[i].id = file[i].id
             /\ file'[i].newline => file'[i] = file[i]
             /\ file'[i].whole => file[i].whole
  <2>1. CASE file'[i] = file[i]
    BY <2>1
  <2>2. CASE i = n /\ file'[i] \in Torn(file[n])
    <3>1. file[n] \in Chunk
      BY <1>3, <2>2
    <3> QED
      BY <2>2, <3>1 DEF Torn, Chunk
  <2> QED
    BY <1>2, <2>1, <2>2
<1> QED
  BY <1>0, <1>2, <1>3, <1>4

LEMMA StopKeeps ==
  ASSUME IInv, MachineStops
  PROVE  IInv'
<1>0. TypeOK
  BY DEF IInv
<1>1. PICK n \in durable .. Len(file) :
           /\ n \in Nat /\ durable \in Nat /\ Len(file) \in Nat
           /\ file' \in Seq(Chunk) /\ Len(file') = n
           /\ \A i \in 1 .. n : \/ file'[i] = file[i]
                                \/ i = n /\ n > durable /\ file'[i] \in Torn(file[n])
  BY <1>0, StopLeaves
<1>2. \A i \in 1 .. durable : i \in 1 .. n /\ file'[i] = file[i]
  BY <1>1
<1>3. durable' = n /\ acked' = acked /\ short' = short /\ \A s \in Stores : writing'[s] = None
  BY <1>1 DEF MachineStops
<1>4. TypeOK'
  BY <1>0, <1>1, <1>3 DEF MachineStops, TypeOK
<1>5. AckedDurable'
  BY <1>0, <1>1, <1>2, <1>3 DEF IInv, AckedDurable, Stands
<1>6. WrittenStands'
  BY <1>3 DEF WrittenStands
<1> QED
  BY <1>4, <1>5, <1>6 DEF IInv

LEMMA Inductive == IInv /\ [Next]_vars => IInv'
<1> SUFFICES ASSUME IInv, [Next]_vars PROVE IInv'
  OBVIOUS
<1>1. CASE UNCHANGED vars
  BY <1>1 DEF vars, IInv, TypeOK, AckedDurable, WrittenStands, Stands
<1> QED
  BY <1>1, ReadSteps, AppendWriteKeeps, AppendSyncKeeps, StopKeeps DEF Next

\* In a file that loads no terminated line follows an unterminated one.
LEMMA NothingAfterTail ==
  ASSUME TypeOK, ~MalformedCompleteLine, NEW i \in 1 .. Len(file), ~file[i].newline
  PROVE  \A k \in i .. Len(file) : ~file[k].newline
<1> DEFINE Behind == {k \in i .. Len(file) : file[k].newline}
           R == OpToRel(<, Nat)
<1> SUFFICES ASSUME Behind # {} PROVE FALSE
  OBVIOUS
<1>0. Len(file) \in Nat /\ Behind \subseteq Nat /\ DOMAIN file = 1 .. Len(file)
  BY DEF TypeOK
<1>1. IsWellFoundedOn(R, Nat)
  BY NatLessThanWellFounded
<1>2. PICK k \in Behind : \A j \in Nat : <<j, k>> \in R => j \notin Behind
  <2> HIDE DEF Behind, R
  <2> QED
    BY <1>0, <1>1, WFMin
<1>3. k \in Nat /\ i < k /\ k <= Len(file) /\ file[k].newline
  BY <1>0
<1>4. file[k - 1].newline
  BY <1>0, <1>3 DEF MalformedCompleteLine, Parses, StartsLine
<1>5. k - 1 \in Behind /\ <<k - 1, k>> \in R
  BY <1>3, <1>4 DEF OpToRel
<1> QED
  BY <1>0, <1>2, <1>5

\* Every record of a file that loads is loaded or stands in its last line.
LEMMA LoadedOrTail ==
  ASSUME TypeOK, ~MalformedCompleteLine, NEW i \in 1 .. Len(file)
  PROVE  /\ file[i].newline => file[i].id \in Loadable
         /\ ~file[i].newline => file[i].id \in Unterminated
<1>0. DOMAIN file = 1 .. Len(file)
  BY DEF TypeOK
<1>1. file[i].newline => Parses(i)
  BY <1>0 DEF MalformedCompleteLine
<1>2. ~file[i].newline => \A k \in i .. Len(file) : ~file[k].newline
  BY NothingAfterTail
<1> QED
  BY <1>0, <1>1, <1>2 DEF Loadable, Unterminated

LEMMA StandingIsFound ==
  ASSUME IInv, ~MalformedCompleteLine, NEW r, NEW i \in 1 .. Len(file), Stands(i, r)
  PROVE  r \in Loadable \cup (short \cap Unterminated)
  BY LoadedOrTail DEF IInv, Stands

LEMMA IInvIsSafe == IInv => Safety /\ Loadable \subseteq Records /\ Unterminated \subseteq Records
<1> SUFFICES ASSUME IInv
             PROVE  Safety /\ Loadable \subseteq Records /\ Unterminated \subseteq Records
  OBVIOUS
<1>1. ASSUME ~MalformedCompleteLine, NEW r \in acked
      PROVE  r \in Loadable \cup (short \cap Unterminated)
  <2>1. PICK i \in 1 .. durable : Stands(i, r)
    BY DEF IInv, AckedDurable
  <2>2. i \in 1 .. Len(file)
    BY DEF IInv, TypeOK
  <2> QED
    BY <1>1, <2>1, <2>2, StandingIsFound
<1> QED
  BY <1>1, LoadableIsRecords DEF IInv, Safety, LossIsShortTail

\* storage.py: whatever fails or dies, a file that loads holds every record whose append returned,
\* except one whose write came up short and still stands in the unterminated last line; and
\* everything has its type.
THEOREM StoreIsSafe == Spec => []Safety
  BY InitIInv, Inductive, IInvIsSafe, PTL DEF Spec

------------------------------------------------------------------------------
(* The store implements DurableLog *)

Readable == IF MalformedCompleteLine THEN {} ELSE Loadable

LastLine == IF MalformedCompleteLine THEN {} ELSE Unterminated

LogState == <<Readable, LastLine, short, acked, MalformedCompleteLine>>

\* A reader learns nothing but what the file holds.
LEMMA SameFile ==
  ASSUME file' = file
  PROVE  /\ MalformedCompleteLine' = MalformedCompleteLine
         /\ Loadable' = Loadable /\ Unterminated' = Unterminated
  BY DEF MalformedCompleteLine, Loadable, Unterminated, Parses, StartsLine, EndsLine

LEMMA MalformedIsBoolean == MalformedCompleteLine \in BOOLEAN /\ MalformedCompleteLine' \in BOOLEAN
  BY DEF MalformedCompleteLine

LEMMA AppendWriteRefines ==
  ASSUME IInv, NEW s \in Stores, NEW r \in Records, AppendWrite(s, r)
  PROVE  Log!Publish(r) \/ Log!Cut(r) \/ Log!Damage
<1>0. PICK l \in Nat :
           /\ l = Len(file) /\ Len(file') = l + 1
           /\ DOMAIN file = 1 .. l /\ DOMAIN file' = 1 .. l + 1
           /\ \A i \in 1 .. l : file'[i] = file[i] /\ file[i].newline \in BOOLEAN
           /\ file'[l + 1].id = r
           /\ \/ file'[l + 1].newline /\ file'[l + 1].whole /\ short' = short
              \/ ~file'[l + 1].newline /\ short' = short \cup {r}
  BY WriteMakes DEF IInv
<1>1. acked' = acked /\ short' \in {short} \cup {short \cup {q} : q \in Records}
  BY <1>0 DEF AppendWrite
<1>2. l + 1 \in 1 .. l + 1 /\ \A i \in 1 .. l : i \in 1 .. l + 1
  BY <1>0
<1>3. \A i \in 1 .. l : StartsLine(i)' <=> StartsLine(i)
  BY <1>0 DEF StartsLine
<1>4. \A i \in 1 .. l : EndsLine(i)' <=> file[i].newline
  BY <1>0 DEF EndsLine
<1>5. \A i \in 1 .. l : Parses(i)' <=> (Parses(i) /\ file[i].newline)
  BY <1>0, <1>3, <1>4 DEF Parses, EndsLine
<1>6. CASE MalformedCompleteLine
  <2>1. PICK i \in 1 .. l : file[i].newline /\ ~Parses(i)
    BY <1>0, <1>6 DEF MalformedCompleteLine
  <2>2. MalformedCompleteLine'
    BY <1>0, <1>2, <1>5, <2>1 DEF MalformedCompleteLine
  <2> QED
    BY <1>1, <2>2, MalformedIsBoolean DEF Log!Damage
<1>7. CASE ~MalformedCompleteLine /\ file'[l + 1].newline /\ l > 0 /\ ~file[l].newline
  <2>1. ~StartsLine(l + 1)'
    BY <1>0, <1>7 DEF StartsLine
  <2>2. MalformedCompleteLine'
    BY <1>0, <1>2, <1>7, <2>1 DEF MalformedCompleteLine, Parses
  <2> QED
    BY <1>1, <2>2, MalformedIsBoolean DEF Log!Damage
<1>8. CASE ~MalformedCompleteLine /\ file'[l + 1].newline /\ (l = 0 \/ file[l].newline)
  <2>1. \A i \in 1 .. l : Parses(i)' <=> Parses(i)
    <3> SUFFICES ASSUME NEW i \in 1 .. l, Parses(i) PROVE file[i].newline
      BY <1>5
    <3> QED
      BY <1>0, <1>8 DEF Parses, EndsLine
  <2>2. Parses(l + 1)'
    BY <1>0, <1>8 DEF Parses, StartsLine, EndsLine
  <2>3. ~MalformedCompleteLine'
    <3> SUFFICES ASSUME NEW i \in 1 .. l + 1, file'[i].newline PROVE Parses(i)'
      BY <1>0 DEF MalformedCompleteLine
    <3>1. CASE i \in 1 .. l
      BY <1>0, <1>8, <2>1, <3>1 DEF MalformedCompleteLine
    <3>2. CASE i = l + 1
      BY <2>2, <3>2
    <3> QED
      BY <3>1, <3>2
  <2>4. Loadable' = Loadable \cup {r}
    BY <1>0, <1>2, <2>1, <2>2 DEF Loadable
  <2>5. Unterminated = {}
    BY <1>0, <1>8 DEF Unterminated
  <2>6. Unterminated' = {}
    BY <1>0, <1>8 DEF Unterminated
  <2>7. short' = short
    BY <1>0, <1>8
  <2> QED
    BY <1>1, <1>8, <2>3, <2>4, <2>5, <2>6, <2>7, MalformedIsBoolean DEF Log!Publish
<1>9. CASE ~MalformedCompleteLine /\ ~file'[l + 1].newline
  <2>1. ~MalformedCompleteLine'
    <3> SUFFICES ASSUME NEW i \in 1 .. l + 1, file'[i].newline PROVE Parses(i)'
      BY <1>0 DEF MalformedCompleteLine
    <3>1. i \in 1 .. l /\ file[i].newline
      BY <1>0, <1>9
    <3> QED
      BY <1>0, <1>5, <1>9, <3>1 DEF MalformedCompleteLine
  <2>2. Loadable' \subseteq Loadable \cup {r}
    <3> SUFFICES ASSUME NEW i \in 1 .. l + 1, Parses(i)'
                 PROVE  file'[i].id \in Loadable \cup {r}
      BY <1>0 DEF Loadable
    <3>1. CASE i \in 1 .. l
      BY <1>0, <1>5, <3>1 DEF Loadable
    <3>2. CASE i = l + 1
      BY <1>0, <3>2
    <3> QED
      BY <3>1, <3>2
  <2>3. Loadable \ Unterminated \subseteq Loadable'
    <3> SUFFICES ASSUME NEW i \in 1 .. l, Parses(i), file[i].id \notin Unterminated
                 PROVE  file[i].id \in Loadable'
      BY <1>0 DEF Loadable
    <3>1. file[i].newline
      BY <1>0, <1>9, LoadedOrTail DEF IInv
    <3>2. Parses(i)' /\ i \in DOMAIN file' /\ file'[i].id = file[i].id
      BY <1>0, <1>2, <1>5, <3>1
    <3> QED
      BY <3>2 DEF Loadable
  <2>4. Unterminated' = Unterminated \cup {r}
    <3>1. ASSUME NEW j \in 1 .. l + 1
          PROVE  (\A k \in j .. Len(file') : ~file'[k].newline)
                   <=> (j = l + 1 \/ \A k \in j .. Len(file) : ~file[k].newline)
      BY <1>0, <1>9
    <3>2. Unterminated' = {file'[j].id : j \in {j \in 1 .. l + 1 :
                             j = l + 1 \/ \A k \in j .. Len(file) : ~file[k].newline}}
      BY <1>0, <3>1 DEF Unterminated
    <3>3. Unterminated = {file[j].id : j \in {j \in 1 .. l :
                            \A k \in j .. Len(file) : ~file[k].newline}}
      BY <1>0 DEF Unterminated
    <3> QED
      BY <1>0, <1>2, <3>2, <3>3
  <2>5. short' = short \cup {r}
    BY <1>0, <1>9
  <2> QED
    BY <1>1, <1>9, <2>1, <2>2, <2>3, <2>4, <2>5, MalformedIsBoolean DEF Log!Cut
<1> QED
  BY <1>0, <1>6, <1>7, <1>8, <1>9

LEMMA AppendSyncRefines ==
  ASSUME IInv, NEW s \in Stores, AppendSync(s)
  PROVE  Log!Acknowledge(writing[s]) /\ writing[s] \in Records
<1>1. /\ file' = file /\ acked' = acked \cup {writing[s]} /\ short' = short
      /\ writing[s] \in Records
  BY DEF AppendSync, IInv, TypeOK
<1>2. PICK i \in 1 .. Len(file) : Stands(i, writing[s])
  BY DEF AppendSync, IInv, WrittenStands
<1>3. MalformedCompleteLine \/ writing[s] \in Loadable \cup (short \cap Unterminated)
  BY <1>2, StandingIsFound
<1> QED
  BY <1>1, <1>3, SameFile DEF Log!Acknowledge, Log!Kept

\* A loss of power cannot break a file that loads, nor bring back what it did not hold, nor
\* take an acknowledged record out of a reader's sight.
LEMMA StopOfSound ==
  ASSUME IInv, MachineStops, ~MalformedCompleteLine
  PROVE  /\ ~MalformedCompleteLine'
         /\ Loadable' \cup Unterminated' \subseteq Loadable \cup Unterminated
         /\ acked \cap Loadable \subseteq Loadable'
<1>0. TypeOK
  BY DEF IInv
<1>1. PICK n \in durable .. Len(file) :
           /\ n \in Nat /\ durable \in Nat /\ Len(file) \in Nat
           /\ file' \in Seq(Chunk) /\ Len(file') = n /\ DOMAIN file' = 1 .. n
           /\ DOMAIN file = 1 .. Len(file)
           /\ \A i \in 1 .. n : \/ file'[i] = file[i]
                                \/ i = n /\ n > durable /\ file'[i] \in Torn(file[n])
           /\ \A i \in 1 .. n : /\ file'[i].id = file[i].id
                                /\ file'[i].newline => file'[i] = file[i]
                                /\ file'[i].whole => file[i].whole
  BY <1>0, StopLeaves
<1>2. \A i \in 1 .. n : i < n => file'[i] = file[i]
  BY <1>1
<1>3. \A i \in 1 .. durable : i \in 1 .. n /\ file'[i] = file[i]
  BY <1>1
<1>4. \A i \in 1 .. n : StartsLine(i)' <=> StartsLine(i)
  BY <1>1, <1>2 DEF StartsLine
<1>5. \A i \in 1 .. Len(file) : file[i].newline => Parses(i)
  BY <1>1 DEF MalformedCompleteLine
<1>6. ~MalformedCompleteLine'
  <2> SUFFICES ASSUME NEW i \in 1 .. n, file'[i].newline PROVE Parses(i)'
    BY <1>1 DEF MalformedCompleteLine
  <2>1. file'[i] = file[i] /\ Parses(i)
    BY <1>1, <1>5
  <2> QED
    BY <1>4, <2>1 DEF Parses, EndsLine
<1>7. Loadable' \cup Unterminated' \subseteq Loadable \cup Unterminated
  <2>1. ASSUME NEW i \in 1 .. n PROVE file'[i].id \in Loadable \cup Unterminated
    <3>1. i \in 1 .. Len(file) /\ file'[i].id = file[i].id
      BY <1>1
    <3> QED
      BY <1>0, <3>1, LoadedOrTail
  <2>2. Loadable' \cup Unterminated' \subseteq {file'[i].id : i \in 1 .. n}
    BY <1>1 DEF Loadable, Unterminated
  <2> QED
    BY <2>1, <2>2
<1>8. ASSUME NEW r \in acked, r \in Loadable PROVE r \in Loadable'
  <2>1. PICK i \in 1 .. durable : Stands(i, r)
    BY DEF IInv, AckedDurable
  <2>2. PICK j \in 1 .. Len(file) : Parses(j) /\ file[j].id = r
    BY <1>1, <1>8 DEF Loadable
  <2>3. i \in 1 .. Len(file) /\ i \in 1 .. n /\ file'[i] = file[i] /\ file[i].id = r
    BY <1>1, <1>3, <2>1 DEF Stands
  <2>4. CASE file[i].newline
    <3>1. Parses(i)'
      BY <1>1, <1>6, <2>3, <2>4 DEF MalformedCompleteLine
    <3> QED
      BY <1>1, <2>3, <3>1 DEF Loadable
  <2>5. CASE ~file[i].newline
    <3>1. \A k \in i .. Len(file) : ~file[k].newline
      BY <1>0, <2>3, <2>5, NothingAfterTail
    <3>2. CASE j < i
      <4>1. file'[j] = file[j] /\ j \in 1 .. n /\ j # Len(file)
        <5>1. j \in 1 .. durable
          BY <1>1, <2>1, <2>2, <3>2
        <5>2. j < i /\ i =< Len(file) /\ i \in Nat /\ Len(file) \in Nat
          BY <1>1, <2>3, <3>2
        <5>3. j # Len(file)
          BY <5>2
        <5> QED
          BY <1>3, <5>1, <5>3
      <4>2. file[j].newline
        BY <2>2, <4>1 DEF Parses, EndsLine
      <4>3. Parses(j)'
        BY <1>1, <1>6, <4>1, <4>2 DEF MalformedCompleteLine
      <4> QED
        BY <1>1, <2>2, <4>1, <4>3 DEF Loadable
    <3>3. CASE j >= i
      <4>1. ~file[j].newline /\ j = Len(file)
        BY <2>2, <2>3, <3>1, <3>3 DEF Parses, EndsLine
      <4>2. j = i
        <5> SUFFICES ASSUME j > i PROVE FALSE
          BY <2>3, <3>3
        <5>1. j # 1 /\ ~file[j - 1].newline
          BY <2>3, <3>1
        <5> QED
          BY <2>2, <5>1 DEF Parses, StartsLine
      <4>3. i = n /\ Len(file') = i
        BY <1>1, <2>1, <4>1, <4>2
      <4>4. Parses(i)'
        BY <1>1, <1>4, <2>2, <2>3, <4>2, <4>3 DEF Parses, EndsLine
      <4> QED
        BY <1>1, <2>3, <4>4 DEF Loadable
    <3> QED
      BY <2>3, <3>2, <3>3
  <2> QED
    BY <2>4, <2>5
<1> QED
  BY <1>6, <1>7, <1>8

LEMMA StopRefines ==
  ASSUME IInv, MachineStops
  PROVE  Log!LoseUnacknowledged \/ UNCHANGED LogState
<1>1. IInv' /\ acked' = acked /\ short' = short
  BY StopKeeps DEF MachineStops
<1>2. CASE MalformedCompleteLine'
  <2>1. MalformedCompleteLine
    BY <1>2, StopOfSound
  <2> QED
    BY <1>1, <1>2, <2>1, MalformedIsBoolean DEF Readable, LastLine, LogState
<1>3. CASE ~MalformedCompleteLine'
  <2>1. Safety' /\ (Loadable \subseteq Records)' /\ (Unterminated \subseteq Records)'
    BY <1>1, IInvIsSafe, PTL
  <2>2. /\ acked \subseteq Loadable' \cup (short' \cap Unterminated')
        /\ Loadable' \subseteq Records /\ Unterminated' \subseteq Records
    BY <1>1, <1>3, <2>1 DEF Safety, LossIsShortTail
  <2>3. \/ MalformedCompleteLine
        \/ /\ Loadable' \cup Unterminated' \subseteq Loadable \cup Unterminated
           /\ acked \cap Loadable \subseteq Loadable'
    BY StopOfSound
  <2> QED
    BY <1>1, <1>3, <2>2, <2>3, MalformedIsBoolean DEF Log!LoseUnacknowledged, Log!Kept
<1> QED
  BY <1>2, <1>3

LEMMA InitRefines == Init => Log!Init
  BY DEF Init, Log!Init, MalformedCompleteLine, Loadable, Unterminated

LEMMA StepRefines == IInv /\ [Next]_vars => [Log!Next]_Log!vars
<1> SUFFICES ASSUME IInv, [Next]_vars PROVE [Log!Next]_Log!vars
  OBVIOUS
<1>1. UNCHANGED LogState => UNCHANGED Log!vars
  BY DEF Log!vars, Readable, LastLine, LogState
<1>2. ASSUME NEW s \in Stores, Load(s) \/ LoadRaises(s) \/ AppendSyncRaises(s) \/ ProcessExit(s)
      PROVE  UNCHANGED LogState
  <2>1. file' = file /\ acked' = acked /\ short' = short
    BY <1>2 DEF Load, LoadRaises, AppendSyncRaises, ProcessExit
  <2> QED
    BY <2>1, SameFile DEF Readable, LastLine, LogState
<1>3. ASSUME UNCHANGED vars PROVE UNCHANGED LogState
  BY <1>3, SameFile DEF vars, Readable, LastLine, LogState
<1>4. ASSUME NEW s \in Stores, NEW r \in Records, AppendWrite(s, r)
      PROVE  Log!Next
  BY <1>4, AppendWriteRefines DEF Log!Next
<1>5. ASSUME NEW s \in Stores, AppendSync(s) PROVE Log!Next
  BY <1>5, AppendSyncRefines DEF Log!Next
<1>6. ASSUME MachineStops PROVE Log!Next \/ UNCHANGED LogState
  BY <1>6, StopRefines DEF Log!Next
<1> QED
  BY <1>1, <1>2, <1>3, <1>4, <1>5, <1>6 DEF Next

\* storage.py: the store, with short writes, torn lines, failing fsyncs and any number of processes
\* on one file, is the log that its callers rely on, short writes included.
THEOREM StoreImplementsLog == Spec => ImplementsDurableLog
  BY InitIInv, Inductive, InitRefines, StepRefines, PTL DEF Spec, ImplementsDurableLog, Log!Spec

-------------------------------------------------------------------------------
(* generate_seeds of data/pipeline.py: every set of workers and requests,     *)
(* every offset, legacy prefix and sequence of targets.                       *)

\* How many seeds a run aims at: its target, or what there was already.
Goal == IF asked > Cardinality(seeds) THEN asked ELSE Cardinality(seeds)

\* The first index beyond those a run has taken.
Top == Offset + Goal + Cardinality(rejected) - replacements

Held == {index[w] : w \in {v \in Workers : at[v] = "calling"}}
InFlight == pending \cup again \cup Held
Stored == {s \in seeds : s.index # NoIndex}

\* Every row but the legacy ones has an index; rows differ in request and in index.
SeedsUnique ==
  /\ \A s, t \in seeds : s.request = t.request => s = t
  /\ \A s, t \in Stored : s.index = t.index => s = t

Counts ==
  /\ IsFiniteSet(seeds) /\ IsFiniteSet(rejected)
  /\ Cardinality(seeds) = LegacyCount + Cardinality(Stored)
  /\ Cardinality(Persisted) = Cardinality(Stored)
  /\ Cardinality(Fingerprints) = Cardinality(seeds)
  /\ Cardinality(rejected) <= MaxRejections

\* What was ever taken and kept leaves no more room below it than is still asked for.
TakenBelow == Taken \subseteq Offset .. Offset + Goal + Cardinality(rejected) - 1

Owned ==
  /\ Persisted \cap rejected = {}
  /\ (Persisted \cup rejected) \cap Prefix = {}

\* The part of the invariant that only the files and the target decide.
Kept == SeedsUnique /\ Counts /\ TakenBelow /\ Owned /\ NeverMoreThanAsked

Idle == outcome # "running" => \A w \in Workers : at[w] = "off"

Distinct ==
  \A v, w \in Workers : at[v] = "calling" /\ at[w] = "calling" /\ index[v] = index[w] => v = w

\* The indices of a run are an interval, and each is stored, burned, reserved, in flight or,
\* once the run is lost, lost.
Flying ==
  /\ used = Offset .. Top - 1
  /\ Offset <= Top /\ next <= Top
  /\ Taken \cup InFlight \subseteq used
  /\ InFlight \cap Taken = {}
  /\ pending \cap again = {} /\ pending \cap Held = {} /\ again \cap Held = {}
  /\ Distinct
  /\ ~ terminal /\ ~ fatal =>
       /\ used = Taken \cup InFlight
       /\ (\E w \in Workers : at[w] = "off") => pending = {}

SeedInv ==
  /\ SeedTypeOK /\ Kept /\ Idle /\ NoHoleOnReturn
  /\ outcome = "running" => Flying

-------------------------------------------------------------------------------
\* The greatest and the least number of a finite set.

LEMMA FiniteIsBounded ==
  ASSUME NEW S \in SUBSET Nat, IsFiniteSet(S)
  PROVE  \E n \in Nat : \A x \in S : x <= n
<1> DEFINE Bounded(T) == \E n \in Nat : \A x \in T : x <= n
           Bad == {T \in FiniteSubsetsOf(S) : ~ Bounded(T)}
<1> SUFFICES ASSUME ~ Bounded(S) PROVE FALSE
  OBVIOUS
<1>1. S \in Bad
  BY FS_FiniteSubsetsOfFinite
<1>2. IsWellFoundedOn(StrictSubsetOrdering(S), FiniteSubsetsOf(S))
  BY FS_StrictSubsetOrderingWellFounded
<1>3. PICK T \in Bad : \A U \in Bad : <<U, T>> \notin StrictSubsetOrdering(S)
  <2>1. Bad \subseteq FiniteSubsetsOf(S) /\ Bad # {}
    BY <1>1
  <2> HIDE DEF Bad
  <2> QED
    BY <1>2, <2>1, WFMin
<1>4. T \in SUBSET S /\ FiniteSubsetsOf(S) = SUBSET S
  BY FS_FiniteSubsetsOfFinite
<1>5. PICK x \in T : TRUE
  <2>1. T # {}
    BY DEF Bad, Bounded
  <2> QED
    BY <2>1
<1>6. <<T \ {x}, T>> \in StrictSubsetOrdering(S)
  BY <1>4 DEF StrictSubsetOrdering
<1>7. T \ {x} \notin Bad
  BY <1>3, <1>6
<1>8. PICK n \in Nat : \A y \in T \ {x} : y <= n
  BY <1>4, <1>7
<1>9. x \in Nat /\ n + x \in Nat /\ \A y \in T : y <= n + x
  BY <1>4, <1>8
<1> QED
  BY <1>9 DEF Bad, Bounded

LEMMA BoundedHasMax ==
  ASSUME NEW n \in Nat, NEW S \in SUBSET (0 .. n), S # {}
  PROVE  Max(S) \in S /\ \A y \in S : y <= Max(S)
<1> DEFINE R == OpToRel(<, Nat)
           T == {n - x : x \in S}
<1>1. IsWellFoundedOn(R, Nat)
  BY NatLessThanWellFounded
<1>2. \A x \in S : x \in Nat /\ x <= n /\ n - x \in Nat
  OBVIOUS
<1>3. T \subseteq Nat /\ T # {}
  BY <1>2
<1>4. \A x, y \in Nat : y < x => <<y, x>> \in R
  BY DEF OpToRel
<1> HIDE DEF R
<1>5. \E a \in T : \A b \in T : <<b, a>> \notin R
  <2> HIDE DEF T
  <2> QED
    BY <1>1, <1>3, WFMin
<1>6. PICK x \in S : \A y \in S : <<n - y, n - x>> \notin R
  BY <1>5
<1>7. \A y \in S : x >= y
  <2> SUFFICES ASSUME NEW y \in S, ~(x >= y) PROVE FALSE
    OBVIOUS
  <2>1. n - y < n - x
    BY <1>2
  <2> QED
    BY <1>2, <1>4, <1>6, <2>1
<1>8. \A y \in S : Max(S) >= y /\ Max(S) \in S
  BY <1>7 DEF Max
<1> QED
  BY <1>7, <1>8

LEMMA FiniteHasMax ==
  ASSUME NEW S \in SUBSET Nat, IsFiniteSet(S), S # {}
  PROVE  Max(S) \in S /\ \A y \in S : y <= Max(S)
<1> PICK n \in Nat : \A x \in S : x <= n
  BY FiniteIsBounded
<1>1. S \in SUBSET (0 .. n)
  OBVIOUS
<1> QED
  BY <1>1, BoundedHasMax

LEMMA HasMin ==
  ASSUME NEW S \in SUBSET Nat, S # {}
  PROVE  Min(S) \in S
<1> DEFINE R == OpToRel(<, Nat)
<1>1. IsWellFoundedOn(R, Nat)
  BY NatLessThanWellFounded
<1>2. \A x, y \in Nat : y < x => <<y, x>> \in R
  BY DEF OpToRel
<1> HIDE DEF R
<1>3. PICK x \in S : \A y \in S : <<y, x>> \notin R
  BY <1>1, WFMin
<1>4. \A y \in S : x =< y
  <2> SUFFICES ASSUME NEW y \in S, ~(x =< y) PROVE FALSE
    OBVIOUS
  <2>1. x \in Nat /\ y \in Nat /\ y < x
    OBVIOUS
  <2> QED
    BY <1>2, <1>3, <2>1
<1> QED
  BY <1>4 DEF Min

LEMMA GreaterOf ==
  ASSUME NEW m \in Nat, NEW n \in Nat
  PROVE  /\ Max({m, n}) \in Nat /\ m <= Max({m, n}) /\ n <= Max({m, n})
         /\ Max({m, n}) \in {m, n}
<1>1. {m, n} \in SUBSET (0 .. m + n) /\ {m, n} # {} /\ m + n \in Nat
  OBVIOUS
<1> QED
  BY <1>1, BoundedHasMax

LEMMA Constants ==
  /\ Offset \in Nat /\ MaxRejections \in Nat /\ LegacyCount \in Nat
  /\ IsFiniteSet(LegacyRows)
  /\ Max(Targets) \in Nat /\ MaxIndex = Offset + LegacyCount + Max(Targets) + MaxRejections
  /\ MaxIndex \in Nat
  /\ \A count \in Targets : count \in Nat /\ count <= Max(Targets)
  /\ Min(Targets) \in Targets
  /\ Rounds \in Nat /\ Rounds >= 1
  /\ Prefix \subseteq Nat /\ IsFiniteSet(Prefix) /\ Cardinality(Prefix) = LegacyCount
<1>1. IsFiniteSet(LegacyRows) /\ LegacyCount \in Nat
  BY SeedAssumption, FS_Subset, FS_CardinalityType DEF LegacyCount
<1>2. Max(Targets) \in Targets /\ \A count \in Targets : count <= Max(Targets)
  BY SeedAssumption, FiniteHasMax
<1>3. Min(Targets) \in Targets
  BY SeedAssumption, HasMin
<1>4. PICK last \in Int : last = Offset + LegacyCount - 1
  BY <1>1, SeedAssumption
<1>5. /\ IsFiniteSet(Offset .. last)
      /\ Cardinality(Offset .. last) = IF Offset > last THEN 0 ELSE last - Offset + 1
  BY SeedAssumption, FS_Interval
<1>6. Prefix = Offset .. last
  BY <1>4 DEF Prefix
<1>7. Prefix \subseteq Nat /\ IsFiniteSet(Prefix) /\ Cardinality(Prefix) = LegacyCount
  <2>1. Offset .. last \subseteq Nat
    BY SeedAssumption
  <2>2. (IF Offset > last THEN 0 ELSE last - Offset + 1) = LegacyCount
    BY <1>1, <1>4, SeedAssumption
  <2> QED
    BY <1>5, <1>6, <2>1, <2>2
<1>8. Max(Targets) \in Nat
  BY <1>2, SeedAssumption
<1>9. MaxIndex \in Nat
  BY <1>1, <1>8, SeedAssumption DEF MaxIndex
<1> QED
  BY <1>1, <1>2, <1>3, <1>7, <1>8, <1>9, SeedAssumption DEF MaxIndex

-------------------------------------------------------------------------------
\* take_indices, when there are indices enough: the set of that size nothing free is below of.

LEMMA TakeIs ==
  ASSUME NEW n \in Nat, NEW from \in Nat, NEW taken,
         NEW T \in SUBSET ((from .. MaxIndex) \ taken), Cardinality(T) = n,
         \A i \in T, j \in (from .. MaxIndex) \ (taken \cup T) : i < j
  PROVE  Take(n, from, taken) = T
<1> DEFINE free == (from .. MaxIndex) \ taken
           Lowest(S) == \A i \in S, j \in (from .. MaxIndex) \ (taken \cup S) : i < j
           S == Take(n, from, taken)
<1>1. T \in kSubset(n, free) /\ Lowest(T)
  BY DEF kSubset
<1>2. S \in kSubset(n, free) /\ Lowest(S)
  <2>1. S = CHOOSE U \in kSubset(n, free) : Lowest(U)
    BY DEF Take
  <2> HIDE DEF S, free, Lowest
  <2> QED
    BY <1>1, <2>1
<1> HIDE DEF S
<1>3. S \in SUBSET free /\ Cardinality(S) = n
  BY <1>2 DEF kSubset
<1>4. MaxIndex \in Nat
  BY Constants
<1>5. IsFiniteSet(from .. MaxIndex)
  BY <1>4, FS_Interval
<1>6. IsFiniteSet(S) /\ IsFiniteSet(T)
  BY <1>3, <1>5, FS_Subset
<1>7. S \subseteq T \/ T \subseteq S
  <2> SUFFICES ASSUME NEW i \in T, i \notin S, NEW j \in S, j \notin T PROVE FALSE
    OBVIOUS
  <2>1. i < j /\ j < i /\ i \in Nat /\ j \in Nat
    BY <1>2, <1>3, <1>4
  <2> QED
    BY <2>1
<1>8. S = T
  <2>1. CASE S \subseteq T
    <3>1. S \in SUBSET T /\ Cardinality(S) = Cardinality(T)
      BY <2>1, <1>3
    <3> QED
      BY <3>1, <1>6, FS_Subset
  <2>2. CASE T \subseteq S
    <3>1. T \in SUBSET S /\ Cardinality(S) = Cardinality(T)
      BY <2>2, <1>3
    <3> QED
      BY <3>1, <1>6, FS_Subset
  <2> QED
    BY <1>7, <2>1, <2>2
<1> QED
  BY <1>8 DEF S

LEMMA AfterIs ==
  ASSUME NEW from \in Nat, NEW S \in SUBSET Nat, NEW n \in Nat, \A i \in S : i < n,
         from <= n, \A i \in S : from <= i
  PROVE  After(S, from) \in from .. n
<1>1. CASE S = {}
  BY <1>1 DEF After
<1>2. CASE S # {}
  <2>1. S \in SUBSET (0 .. n)
    OBVIOUS
  <2>2. Max(S) \in S
    BY <1>2, <2>1, BoundedHasMax
  <2>3. Max(S) \in Nat /\ Max(S) < n /\ from <= Max(S)
    BY <2>2
  <2>4. After(S, from) = Max(S) + 1
    BY <1>2 DEF After
  <2> QED
    BY <2>3, <2>4
<1> QED
  BY <1>1, <1>2

-------------------------------------------------------------------------------
\* What the numbers of rows say about the indices.

LEMMA IntervalSize ==
  ASSUME NEW a \in Nat, NEW b \in Int
  PROVE  /\ IsFiniteSet(a .. b)
         /\ Cardinality(a .. b) = IF a > b THEN 0 ELSE b - a + 1
<1>1. a \in Int
  OBVIOUS
<1> QED
  BY <1>1, FS_Interval

LEMMA Sizes ==
  ASSUME SeedTypeOK, Kept
  PROVE  /\ asked \in Nat /\ asked <= Max(Targets)
         /\ Cardinality(seeds) \in Nat /\ Cardinality(rejected) \in Nat
         /\ LegacyCount <= Cardinality(seeds)
         /\ Goal \in Nat /\ asked <= Goal /\ Cardinality(seeds) <= Goal
         /\ Goal \in {asked, Cardinality(seeds)} /\ Goal <= Max(Targets) + LegacyCount
         /\ Persisted \subseteq Indices /\ Indices \subseteq Nat
         /\ IsFiniteSet(Persisted) /\ Cardinality(Persisted) \in Nat
         /\ Cardinality(seeds) = LegacyCount + Cardinality(Persisted)
         /\ IsFiniteSet(Taken) /\ Taken \subseteq Nat
         /\ Cardinality(Taken) = Cardinality(seeds) + Cardinality(rejected)
<1>1. asked \in Nat /\ asked <= Max(Targets)
  BY Constants DEF SeedTypeOK
<1>2. Cardinality(seeds) \in Nat /\ Cardinality(rejected) \in Nat
  BY FS_CardinalityType DEF Kept, Counts
<1>3. Persisted \subseteq Indices
  BY DEF SeedTypeOK, Persisted
<1>4. IsFiniteSet(Indices) /\ Indices \subseteq Nat
  <2>1. MaxIndex \in Int /\ Offset \in Nat
    BY Constants
  <2> QED
    BY <2>1, IntervalSize DEF Indices
<1>5. IsFiniteSet(Persisted) /\ Cardinality(Persisted) \in Nat
  BY <1>3, <1>4, FS_Subset, FS_CardinalityType
<1>6. Cardinality(seeds) = LegacyCount + Cardinality(Persisted)
  BY DEF Kept, Counts
<1>7. /\ Goal \in Nat /\ asked <= Goal /\ Cardinality(seeds) <= Goal
      /\ Goal \in {asked, Cardinality(seeds)}
  BY <1>1, <1>2 DEF Goal
<1>8. Goal <= Max(Targets) + LegacyCount
  <2>1. /\ Max({asked, LegacyCount}) \in {asked, LegacyCount}
    BY <1>1, Constants, GreaterOf
  <2>2. Cardinality(seeds) <= Max({asked, LegacyCount})
    BY DEF Kept, NeverMoreThanAsked
  <2> HIDE DEF Goal
  <2>3. PICK m \in {asked, LegacyCount} : Cardinality(seeds) <= m
    BY <2>1, <2>2
  <2> QED
    BY <1>1, <1>2, <1>7, <2>3, Constants
<1>9. /\ IsFiniteSet(Persisted \cup rejected)
      /\ Cardinality(Persisted \cup rejected) = Cardinality(Persisted) + Cardinality(rejected)
  <2>1. IsFiniteSet(rejected) /\ Persisted \cap rejected = {}
    BY DEF Kept, Counts, Owned
  <2>2. Cardinality(Persisted \cap rejected) = 0
    BY <2>1, FS_EmptySet
  <2>3. /\ IsFiniteSet(Persisted \cup rejected)
        /\ Cardinality(Persisted \cup rejected)
             = Cardinality(Persisted) + Cardinality(rejected) - Cardinality(Persisted \cap rejected)
    BY <1>5, <2>1, FS_Union
  <2> QED
    BY <1>2, <1>5, <2>2, <2>3
<1>10. /\ IsFiniteSet(Taken)
       /\ Cardinality(Taken) = Cardinality(Persisted) + Cardinality(rejected) + LegacyCount
  <2>1. (Persisted \cup rejected) \cap Prefix = {} /\ Taken = (Persisted \cup rejected) \cup Prefix
    BY DEF Kept, Owned, Taken
  <2>2. Cardinality((Persisted \cup rejected) \cap Prefix) = 0
    BY <2>1, FS_EmptySet
  <2>3. /\ IsFiniteSet((Persisted \cup rejected) \cup Prefix)
        /\ Cardinality((Persisted \cup rejected) \cup Prefix)
             = Cardinality(Persisted \cup rejected) + Cardinality(Prefix)
                 - Cardinality((Persisted \cup rejected) \cap Prefix)
    BY <1>9, Constants, FS_Union
  <2> QED
    BY <1>2, <1>5, <1>9, <2>1, <2>2, <2>3, Constants
<1>11. Taken \subseteq Nat
  BY <1>3, <1>4, Constants DEF Taken, SeedTypeOK
<1> HIDE DEF Goal
<1> QED
  BY <1>1, <1>2, <1>3, <1>4, <1>5, <1>6, <1>7, <1>8, <1>10, <1>11, Constants

LEMMA TopFacts ==
  ASSUME SeedTypeOK, Kept, Flying
  PROVE  /\ Top \in Nat /\ Top <= MaxIndex + 1
         /\ IsFiniteSet(used) /\ Cardinality(used) = Top - Offset
<1>0. replacements \in Nat /\ Cardinality(rejected) \in Nat /\ Goal \in Nat /\ Offset \in Nat
  BY Sizes, Constants DEF SeedTypeOK
<1>1. Top \in Int /\ Offset <= Top /\ used = Offset .. Top - 1
  <2>1. Top \in Int
    BY <1>0 DEF Top
  <2> QED
    BY <2>1 DEF Flying
<1>2. Top \in Nat
  BY <1>1, Constants
<1>3. Top <= MaxIndex + 1
  BY Sizes, Constants DEF Top, Kept, Counts, SeedTypeOK
<1>4. PICK last \in Int : last = Top - 1
  BY <1>1
<1>5. /\ IsFiniteSet(Offset .. last)
      /\ Cardinality(Offset .. last) = IF Offset > last THEN 0 ELSE last - Offset + 1
  BY Constants, IntervalSize
<1>6. (IF Offset > last THEN 0 ELSE last - Offset + 1) = Top - Offset
  BY <1>1, <1>4, Constants
<1> QED
  BY <1>1, <1>2, <1>3, <1>4, <1>5, <1>6

\* While an index is in flight the run still needs the row it may become.
LEMMA FlightHasRoom ==
  ASSUME SeedTypeOK, Kept, Flying, NEW i \in InFlight
  PROVE  Cardinality(seeds) + replacements < asked /\ Goal = asked
<1>1. /\ IsFiniteSet(used) /\ Cardinality(used) = Top - Offset
      /\ IsFiniteSet(Taken) /\ Cardinality(Taken) = Cardinality(seeds) + Cardinality(rejected)
  BY Sizes, TopFacts
<1>2. i \in used /\ i \notin Taken /\ Taken \subseteq used
  BY DEF Flying
<1>3. /\ Taken \cup {i} \in SUBSET used /\ Cardinality(Taken \cup {i}) = Cardinality(Taken) + 1
  BY <1>1, <1>2, FS_AddElement
<1>4. Cardinality(Taken \cup {i}) <= Cardinality(used)
  BY <1>1, <1>3, FS_Subset
<1>5. Cardinality(seeds) + Cardinality(rejected) + 1 <= Top - Offset
  BY <1>1, <1>3, <1>4
<1>6. replacements \in Nat
  BY DEF SeedTypeOK
<1>7. Cardinality(seeds) + 1 + replacements <= Goal
  BY <1>5, <1>6, Sizes, Constants DEF Top
<1> QED
  BY <1>6, <1>7, Sizes

-------------------------------------------------------------------------------
\* The steps of a worker.

LEMMA WorkerRuns ==
  ASSUME SeedInv, NEW w \in Workers, at[w] # "off"
  PROVE  /\ outcome = "running" /\ Flying /\ SeedTypeOK /\ Kept
         /\ at[w] = "calling" => index[w] \in Held /\ index[w] \in InFlight /\ index[w] \in Indices
<1>1. outcome = "running" /\ Flying /\ SeedTypeOK /\ Kept
  BY DEF SeedInv, Idle
<1>2. ASSUME at[w] = "calling" PROVE index[w] \in Held /\ index[w] \in InFlight
  BY <1>2 DEF Held, InFlight
<1>3. used \subseteq Indices
  <2>1. Top \in Nat /\ Top <= MaxIndex + 1
    BY <1>1, TopFacts
  <2> QED
    BY <1>1, <2>1, Constants DEF Flying, Indices
<1>4. InFlight \subseteq used
  BY <1>1 DEF Flying
<1> QED
  BY <1>1, <1>2, <1>3, <1>4

LEMMA HeldStays ==
  ASSUME SeedTypeOK, NEW w \in Workers, NEW spot, NEW j, at[w] # "calling", spot # "calling",
         at' = [at EXCEPT ![w] = spot], index' = [index EXCEPT ![w] = j]
  PROVE  Held' = Held /\ (Distinct => Distinct')
<1>1. \A v \in Workers : at'[v] = "calling" <=> at[v] = "calling"
  BY DEF SeedTypeOK
<1>2. \A v \in Workers : at[v] = "calling" => index'[v] = index[v]
  BY DEF SeedTypeOK
<1> QED
  BY <1>1, <1>2 DEF Held, Distinct

LEMMA HeldGrows ==
  ASSUME SeedTypeOK, Distinct, NEW w \in Workers, NEW i, i \notin Held, at[w] # "calling",
         at' = [at EXCEPT ![w] = "calling"], index' = [index EXCEPT ![w] = i]
  PROVE  Held' = Held \cup {i} /\ Distinct'
<1>1. \A v \in Workers : at'[v] = "calling" <=> at[v] = "calling" \/ v = w
  BY DEF SeedTypeOK
<1>2. \A v \in Workers : index'[v] = IF v = w THEN i ELSE index[v]
  BY DEF SeedTypeOK
<1>3. \A v \in Workers : at[v] = "calling" => index[v] \in Held
  BY DEF Held
<1>4. Held' = Held \cup {i}
  BY <1>1, <1>2 DEF Held
<1>5. Distinct'
  BY <1>1, <1>2, <1>3 DEF Distinct
<1> QED
  BY <1>4, <1>5

LEMMA HeldShrinks ==
  ASSUME SeedTypeOK, Distinct, NEW w \in Workers, NEW spot, NEW j, at[w] = "calling",
         spot # "calling", at' = [at EXCEPT ![w] = spot], index' = [index EXCEPT ![w] = j]
  PROVE  Held' = Held \ {index[w]} /\ Distinct'
<1>1. \A v \in Workers : at'[v] = "calling" <=> at[v] = "calling" /\ v # w
  BY DEF SeedTypeOK
<1>2. \A v \in Workers : v # w => index'[v] = index[v]
  BY DEF SeedTypeOK
<1>3. Held' = Held \ {index[w]}
  BY <1>1, <1>2 DEF Held, Distinct
<1>4. Distinct'
  BY <1>1, <1>2 DEF Distinct
<1> QED
  BY <1>3, <1>4

\* Steps that neither store a row nor take an index.
LEMMA QuietKeeps ==
  ASSUME SeedInv, UNCHANGED <<stored, roundVars, replacements>>, outcome = "running",
         SeedTypeOK', Distinct',
         pending' \cup again' \cup Held' \subseteq InFlight,
         pending' \cap again' = {}, pending' \cap Held' = {}, again' \cap Held' = {},
         ~ terminal' /\ ~ fatal' =>
           /\ ~ terminal /\ ~ fatal
           /\ InFlight \subseteq pending' \cup again' \cup Held'
           /\ (\E v \in Workers : at'[v] = "off") => pending' = {}
  PROVE  SeedInv'
<1>1. Flying
  BY DEF SeedInv
<1>2. UNCHANGED <<seeds, rejected, used, next, asked, outcome, replacements>>
  BY DEF stored, roundVars
<1>3. /\ Top' = Top /\ Taken' = Taken /\ used' = used /\ next' = next
      /\ InFlight' = pending' \cup again' \cup Held'
  BY <1>2 DEF Top, Goal, Taken, Persisted, InFlight
<1>4. Flying'
  BY <1>1, <1>3 DEF Flying
<1>5. Kept'
  BY <1>2 DEF SeedInv, Kept, SeedsUnique, Counts, TakenBelow, Owned, NeverMoreThanAsked, Stored,
     Persisted, Fingerprints, Taken, Goal
<1>6. Idle' /\ NoHoleOnReturn'
  BY <1>2 DEF Idle, NoHoleOnReturn
<1> QED
  BY <1>4, <1>5, <1>6 DEF SeedInv

LEMMA CallKeeps ==
  ASSUME SeedInv, NEW w \in Workers, Call(w)
  PROVE  SeedInv'
<1>1. outcome = "running" /\ Flying /\ SeedTypeOK
  BY WorkerRuns DEF Call
<1>2. PICK i \in pending : /\ pending' = pending \ {i} /\ index' = [index EXCEPT ![w] = i]
  BY DEF Call
<1>3. /\ at' = [at EXCEPT ![w] = "calling"] /\ at[w] = "free" /\ ~ terminal
      /\ UNCHANGED <<stored, roundVars, again, replacements, terminal, fatal>>
  BY DEF Call
<1>4. i \notin Held
  BY <1>1, <1>2 DEF Flying
<1>5. Held' = Held \cup {i} /\ Distinct'
  BY <1>1, <1>2, <1>3, <1>4, HeldGrows DEF Flying
<1>6. SeedTypeOK'
  BY <1>1, <1>2, <1>3 DEF SeedTypeOK, stored, roundVars, Places, Taken, Persisted
<1>7. \A v \in Workers : at'[v] = "off" => at[v] = "off"
  BY <1>1, <1>3 DEF SeedTypeOK
<1> QED
  BY <1>1, <1>2, <1>3, <1>5, <1>6, <1>7, QuietKeeps DEF Flying, InFlight

LEMMA LeaveKeeps ==
  ASSUME SeedInv, NEW w \in Workers, Leave(w)
  PROVE  SeedInv'
<1>1. outcome = "running" /\ Flying /\ SeedTypeOK
  BY WorkerRuns DEF Leave
<1>2. /\ at' = [at EXCEPT ![w] = "off"] /\ at[w] = "free" /\ (terminal \/ pending = {})
      /\ UNCHANGED <<stored, roundVars, pending, again, replacements, index, terminal, fatal>>
  BY DEF Leave
<1>3. index' = [index EXCEPT ![w] = index[w]]
  BY <1>1, <1>2 DEF SeedTypeOK
<1>4. Held' = Held /\ Distinct'
  BY <1>1, <1>2, <1>3, HeldStays DEF Flying
<1>5. SeedTypeOK'
  BY <1>1, <1>2 DEF SeedTypeOK, stored, roundVars, Places
<1> QED
  BY <1>1, <1>2, <1>4, <1>5, QuietKeeps DEF Flying, InFlight

LEMMA SavedKeeps ==
  ASSUME SeedInv, NEW w \in Workers, Saved(w)
  PROVE  SeedInv'
<1>1. outcome = "running" /\ Flying /\ SeedTypeOK
  BY WorkerRuns DEF Saved
<1>2. /\ at' = [at EXCEPT ![w] = "free"] /\ at[w] = "saving"
      /\ index' = [index EXCEPT ![w] = NoIndex]
      /\ UNCHANGED <<stored, roundVars, pending, again, replacements, terminal, fatal>>
  BY DEF Saved, Move
<1>4. Held' = Held /\ Distinct'
  BY <1>1, <1>2, HeldStays DEF Flying
<1>5. SeedTypeOK'
  BY <1>1, <1>2 DEF SeedTypeOK, stored, roundVars, Places
<1>6. \A v \in Workers : at'[v] = "off" => at[v] = "off"
  BY <1>1, <1>2 DEF SeedTypeOK
<1> QED
  BY <1>1, <1>2, <1>4, <1>5, <1>6, QuietKeeps DEF Flying, InFlight

LEMMA AnswerDuplicateKeeps ==
  ASSUME SeedInv, NEW w \in Workers, AnswerDuplicate(w)
  PROVE  SeedInv'
<1>1. /\ outcome = "running" /\ Flying /\ SeedTypeOK
      /\ index[w] \in Held /\ index[w] \in Indices
  BY WorkerRuns DEF AnswerDuplicate
<1>2. /\ at' = [at EXCEPT ![w] = "free"] /\ at[w] = "calling"
      /\ index' = [index EXCEPT ![w] = NoIndex] /\ again' = again \cup {index[w]}
      /\ UNCHANGED <<stored, roundVars, pending, replacements, terminal, fatal>>
  BY DEF AnswerDuplicate, Move
<1>4. Held' = Held \ {index[w]} /\ Distinct'
  BY <1>1, <1>2, HeldShrinks DEF Flying
<1>5. SeedTypeOK'
  BY <1>1, <1>2 DEF SeedTypeOK, stored, roundVars, Places
<1>6. \A v \in Workers : at'[v] = "off" => at[v] = "off"
  BY <1>1, <1>2 DEF SeedTypeOK
<1> QED
  BY <1>1, <1>2, <1>4, <1>5, <1>6, QuietKeeps DEF Flying, InFlight

LEMMA AnswerErrorKeeps ==
  ASSUME SeedInv, NEW w \in Workers, AnswerError(w)
  PROVE  SeedInv'
<1>1. /\ outcome = "running" /\ Flying /\ SeedTypeOK
  BY WorkerRuns DEF AnswerError
<1>2. /\ at' = [at EXCEPT ![w] = "free"] /\ at[w] = "calling" /\ terminal' = TRUE
      /\ index' = [index EXCEPT ![w] = NoIndex]
      /\ UNCHANGED <<stored, roundVars, pending, again, replacements, fatal>>
  BY DEF AnswerError, Move
<1>4. Held' = Held \ {index[w]} /\ Distinct'
  BY <1>1, <1>2, HeldShrinks DEF Flying
<1>5. SeedTypeOK'
  BY <1>1, <1>2 DEF SeedTypeOK, stored, roundVars, Places
<1> QED
  BY <1>1, <1>2, <1>4, <1>5, QuietKeeps DEF Flying, InFlight

LEMMA DiesKeeps ==
  ASSUME SeedInv, NEW w \in Workers, Dies(w)
  PROVE  SeedInv'
<1>1. /\ outcome = "running" /\ Flying /\ SeedTypeOK
  BY WorkerRuns DEF Dies
<1>2. /\ at' = [at EXCEPT ![w] = "off"] /\ at[w] \in {"calling", "saving"} /\ fatal' = TRUE
      /\ index' = [index EXCEPT ![w] = NoIndex] /\ (terminal' = TRUE \/ terminal' = terminal)
      /\ UNCHANGED <<stored, roundVars, pending, again, replacements>>
  BY DEF Dies, Move
<1>4. Held' \subseteq Held /\ Distinct'
  <2>1. CASE at[w] = "calling"
    BY <1>1, <1>2, <2>1, HeldShrinks DEF Flying
  <2>2. CASE at[w] = "saving"
    BY <1>1, <1>2, <2>2, HeldStays DEF Flying
  <2> QED
    BY <1>2, <2>1, <2>2
<1>5. SeedTypeOK'
  BY <1>1, <1>2 DEF SeedTypeOK, stored, roundVars, Places
<1> QED
  BY <1>1, <1>2, <1>4, <1>5, QuietKeeps DEF Flying, InFlight

\* An answer that settles an index: a row or a rejection takes it over from the worker.
LEMMA LandKeeps ==
  ASSUME SeedInv, NEW w \in Workers, at[w] = "calling", UNCHANGED roundVars,
         UNCHANGED <<pending, again, terminal, fatal>>,
         at' = [at EXCEPT ![w] = "saving"], index' = [index EXCEPT ![w] = index[w]],
         Taken' = Taken \cup {index[w]}, Top' = Top, SeedTypeOK', Kept'
  PROVE  SeedInv'
<1> DEFINE i == index[w]
<1>1. outcome = "running" /\ Flying /\ SeedTypeOK /\ i \in Held /\ i \in InFlight
  BY WorkerRuns
<1>2. Held' = Held \ {i} /\ Distinct'
  BY <1>1, HeldShrinks DEF Flying
<1>3. i \notin pending /\ i \notin again /\ i \in used
  BY <1>1 DEF Flying
<1>4. InFlight' = InFlight \ {i}
  BY <1>2, <1>3 DEF InFlight
<1>5. \A v \in Workers : at'[v] = "off" => at[v] = "off"
  BY <1>1 DEF SeedTypeOK
<1>6. UNCHANGED <<used, next, outcome>>
  BY DEF roundVars
<1>7. Flying'
  <2>1. Taken' \cup InFlight' = Taken \cup InFlight
    BY <1>1, <1>4
  <2>2. InFlight' \cap Taken' = {}
    BY <1>1, <1>4 DEF Flying
  <2>3. pending' \cap again' = {} /\ pending' \cap Held' = {} /\ again' \cap Held' = {}
    BY <1>1, <1>2 DEF Flying
  <2> QED
    BY <1>1, <1>2, <1>5, <1>6, <2>1, <2>2, <2>3 DEF Flying
<1>8. Idle' /\ NoHoleOnReturn'
  BY <1>1, <1>6 DEF Idle, NoHoleOnReturn
<1> QED
  BY <1>7, <1>8 DEF SeedInv

LEMMA AnswerNewKeeps ==
  ASSUME SeedInv, NEW w \in Workers, AnswerNew(w)
  PROVE  SeedInv'
<1> DEFINE i == index[w]
<1>1. /\ outcome = "running" /\ Flying /\ SeedTypeOK /\ Kept /\ at[w] = "calling"
      /\ i \in Held /\ i \in InFlight /\ i \in Indices
  BY WorkerRuns DEF AnswerNew
<1>2. PICK r \in Requests \ Fingerprints : seeds' = seeds \cup {[request |-> r, index |-> i]}
  BY DEF AnswerNew
<1> DEFINE new == [request |-> r, index |-> i]
<1>3. /\ at' = [at EXCEPT ![w] = "saving"] /\ index' = [index EXCEPT ![w] = index[w]]
      /\ UNCHANGED roundVars /\ UNCHANGED <<rejected, pending, again, replacements, terminal, fatal>>
  BY DEF AnswerNew, Move
<1>4. i # NoIndex /\ i \in Nat
  BY <1>1, Sizes, SeedAssumption
<1>5. i \notin Taken /\ i \in used
  BY <1>1 DEF Flying
<1>6. new \notin seeds /\ new \notin Stored /\ i \notin Persisted
  BY <1>2, <1>5 DEF Fingerprints, Stored, Taken
<1>7. /\ Stored' = Stored \cup {new} /\ Persisted' = Persisted \cup {i}
      /\ Fingerprints' = Fingerprints \cup {r} /\ Taken' = Taken \cup {i}
  <2>1. Stored' = Stored \cup {new}
    BY <1>2, <1>4 DEF Stored
  <2>2. new \in seeds' /\ new.index = i /\ new.request = r
    BY <1>2
  <2>3. \A s \in seeds' : s \in seeds \/ s = new
    BY <1>2
  <2>4. \A s \in seeds : s \in seeds'
    BY <1>2
  <2> HIDE DEF new
  <2>5. Persisted' = Persisted \cup {i}
    BY <1>4, <2>2, <2>3, <2>4 DEF Persisted
  <2>6. Fingerprints' = Fingerprints \cup {r}
    BY <2>2, <2>3, <2>4 DEF Fingerprints
  <2> QED
    BY <1>3, <2>1, <2>5, <2>6 DEF Taken
<1>8. /\ IsFiniteSet(seeds) /\ IsFiniteSet(Stored) /\ IsFiniteSet(Persisted)
      /\ IsFiniteSet(Fingerprints)
  <2>1. IsFiniteSet(seeds) /\ IsFiniteSet(Persisted)
    BY <1>1, Sizes DEF Kept, Counts
  <2>2. Stored \in SUBSET seeds /\ Fingerprints \in SUBSET Requests
    BY <1>1 DEF Stored, Fingerprints, SeedTypeOK
  <2> QED
    BY <2>1, <2>2, FS_Subset, SeedAssumption
<1>9. /\ IsFiniteSet(seeds') /\ Cardinality(seeds') = Cardinality(seeds) + 1
      /\ Cardinality(Stored') = Cardinality(Stored) + 1
      /\ Cardinality(Persisted') = Cardinality(Persisted) + 1
      /\ Cardinality(Fingerprints') = Cardinality(Fingerprints) + 1
  <2>1. IsFiniteSet(seeds \cup {new}) /\ Cardinality(seeds \cup {new}) = Cardinality(seeds) + 1
    BY <1>6, <1>8, FS_AddElement
  <2>2. Cardinality(Stored \cup {new}) = Cardinality(Stored) + 1
    BY <1>6, <1>8, FS_AddElement
  <2>3. Cardinality(Persisted \cup {i}) = Cardinality(Persisted) + 1
    BY <1>6, <1>8, FS_AddElement
  <2>4. Cardinality(Fingerprints \cup {r}) = Cardinality(Fingerprints) + 1
    BY <1>2, <1>8, FS_AddElement
  <2> QED
    BY <1>2, <1>7, <2>1, <2>2, <2>3, <2>4
<1>10. /\ Cardinality(seeds) + 1 <= asked /\ Goal = asked
       /\ Cardinality(seeds) \in Nat /\ asked \in Nat
  BY <1>1, FlightHasRoom, Sizes DEF SeedTypeOK
<1>11. asked' = asked /\ Goal' = Goal /\ Top' = Top
  <2>1. asked' = asked /\ rejected' = rejected /\ replacements' = replacements
    BY <1>3 DEF roundVars
  <2>2. Goal' = Goal
    BY <1>9, <1>10, <2>1 DEF Goal
  <2> QED
    BY <2>1, <2>2 DEF Top
<1>12. SeedsUnique'
  <2>1. \A s \in seeds : s.request # r
    BY <1>2 DEF Fingerprints
  <2>2. \A s \in Stored : s.index # i
    BY <1>6 DEF Stored, Persisted
  <2>3. new.request = r /\ new.index = i
    OBVIOUS
  <2>4. \A s, t \in seeds' : s.request = t.request => s = t
    BY <1>1, <1>2, <2>1, <2>3 DEF Kept, SeedsUnique
  <2>5. \A s, t \in Stored' : s.index = t.index => s = t
    BY <1>1, <1>7, <2>2, <2>3 DEF Kept, SeedsUnique
  <2> QED
    BY <2>4, <2>5 DEF SeedsUnique
<1>13. Counts'
  <2>1. Cardinality(Stored) \in Nat
    BY <1>8, FS_CardinalityType
  <2> QED
    BY <1>1, <1>3, <1>9, <1>10, <2>1, Constants DEF Kept, Counts
<1>14. TakenBelow'
  <2>0. Goal \in Nat /\ Cardinality(rejected) \in Nat /\ replacements \in Nat /\ Offset \in Nat
    BY <1>1, Sizes, Constants DEF SeedTypeOK
  <2>1. used \subseteq Offset .. Offset + Goal + Cardinality(rejected) - 1
    BY <1>1, <2>0 DEF Flying, Top
  <2> QED
    BY <1>1, <1>3, <1>5, <1>7, <1>11, <2>1 DEF Kept, TakenBelow
<1>15. Owned'
  <2>1. i \notin rejected /\ i \notin Prefix
    BY <1>5 DEF Taken
  <2> QED
    BY <1>1, <1>3, <1>7, <2>1 DEF Kept, Owned
<1>16. NeverMoreThanAsked'
  <2>1. asked <= Max({asked, LegacyCount}) /\ Max({asked, LegacyCount}) \in Nat
    BY <1>10, GreaterOf, Constants
  <2> QED
    BY <1>9, <1>10, <1>11, <2>1 DEF NeverMoreThanAsked
<1>17. SeedTypeOK'
  <2>1. new \in [request : Requests, index : Indices \cup {NoIndex}]
    BY <1>1, <1>2
  <2> QED
    BY <1>1, <1>2, <1>3, <2>1 DEF SeedTypeOK, roundVars, Places
<1> QED
  BY <1>1, <1>3, <1>7, <1>11, <1>12, <1>13, <1>14, <1>15, <1>16, <1>17, LandKeeps DEF Kept

LEMMA AnswerRejectedKeeps ==
  ASSUME SeedInv, NEW w \in Workers, AnswerRejected(w)
  PROVE  SeedInv'
<1> DEFINE i == index[w]
<1>1. /\ outcome = "running" /\ Flying /\ SeedTypeOK /\ Kept /\ at[w] = "calling"
      /\ i \in Held /\ i \in InFlight /\ i \in Indices
  BY WorkerRuns DEF AnswerRejected
<1>2. /\ Cardinality(rejected) < MaxRejections
      /\ rejected' = rejected \cup {i} /\ replacements' = replacements + 1
      /\ at' = [at EXCEPT ![w] = "saving"] /\ index' = [index EXCEPT ![w] = index[w]]
      /\ UNCHANGED roundVars /\ UNCHANGED <<seeds, pending, again, terminal, fatal>>
  BY DEF AnswerRejected, Move
<1>3. i \notin Taken /\ i \in used
  BY <1>1 DEF Flying
<1>4. i \notin rejected /\ i \notin Persisted /\ i \notin Prefix
  BY <1>3 DEF Taken
<1>5. IsFiniteSet(rejected') /\ Cardinality(rejected') = Cardinality(rejected) + 1
  <2>1. IsFiniteSet(rejected)
    BY <1>1 DEF Kept, Counts
  <2> QED
    BY <1>2, <1>4, <2>1, FS_AddElement
<1>6. /\ Stored' = Stored /\ Persisted' = Persisted /\ Fingerprints' = Fingerprints
      /\ Taken' = Taken \cup {i} /\ asked' = asked /\ seeds' = seeds
  BY <1>2 DEF Stored, Persisted, Fingerprints, Taken, roundVars
<1>7. Goal' = Goal /\ Top' = Top
  <2>1. Goal' = Goal
    BY <1>6 DEF Goal
  <2>2. Goal \in Nat /\ Cardinality(rejected) \in Nat /\ replacements \in Nat /\ Offset \in Nat
    BY <1>1, Sizes, Constants DEF SeedTypeOK
  <2> QED
    BY <1>2, <1>5, <2>1, <2>2 DEF Top
<1>8. SeedsUnique' /\ NeverMoreThanAsked'
  BY <1>1, <1>6 DEF Kept, SeedsUnique, NeverMoreThanAsked
<1>9. Counts'
  <2>1. Cardinality(rejected) + 1 <= MaxRejections
    BY <1>1, <1>2, Sizes, Constants
  <2> QED
    BY <1>1, <1>5, <1>6, <2>1 DEF Kept, Counts
<1>10. TakenBelow'
  <2>1. /\ Offset \in Nat /\ Goal \in Nat /\ Cardinality(rejected) \in Nat /\ replacements \in Nat
    BY <1>1, Sizes, Constants DEF SeedTypeOK
  <2>2. used \subseteq Offset .. Offset + Goal + (Cardinality(rejected) + 1) - 1
    BY <1>1, <2>1 DEF Flying, Top
  <2>3. Taken' \subseteq used
    BY <1>1, <1>3, <1>6 DEF Flying
  <2> QED
    BY <1>5, <1>7, <2>2, <2>3 DEF TakenBelow
<1>11. Owned'
  BY <1>1, <1>2, <1>4, <1>6 DEF Kept, Owned
<1>12. SeedTypeOK'
  BY <1>1, <1>2 DEF SeedTypeOK, roundVars, Places
<1> QED
  BY <1>1, <1>2, <1>6, <1>7, <1>8, <1>9, <1>10, <1>11, <1>12, LandKeeps DEF Kept

-------------------------------------------------------------------------------
\* The end of a run.

LEMMA KeptStays ==
  ASSUME Kept, UNCHANGED stored, asked' = asked
  PROVE  /\ Kept' /\ Goal' = Goal /\ Taken' = Taken /\ Persisted' = Persisted
         /\ Cardinality(rejected)' = Cardinality(rejected)
         /\ Cardinality(Persisted)' = Cardinality(Persisted)
BY DEF Kept, SeedsUnique, Counts, TakenBelow, Owned, NeverMoreThanAsked, Stored, Persisted,
   Fingerprints, Taken, Goal, stored

LEMMA RaiseKeeps ==
  ASSUME SeedInv, Raise
  PROVE  SeedInv'
<1>1. Kept'
  BY KeptStays DEF Raise, SeedInv
<1>2. SeedTypeOK'
  BY DEF Raise, SeedInv, SeedTypeOK, stored
<1> QED
  BY <1>1, <1>2 DEF Raise, RoundOver, SeedInv, Idle, NoHoleOnReturn

LEMMA CrashKeeps ==
  ASSUME SeedInv, Crash
  PROVE  SeedInv'
<1>1. Kept'
  BY KeptStays DEF Crash, SeedInv
<1>2. SeedTypeOK'
  BY DEF Crash, SeedInv, SeedTypeOK, stored, Places
<1> QED
  BY <1>1, <1>2 DEF Crash, SeedInv, Idle, NoHoleOnReturn

\* When the workers of a clean round have left, what is taken fills its interval up to what
\* the next round has to ask for.
LEMMA RoundEnds ==
  ASSUME SeedInv, RoundOver, ~ terminal, ~ fatal
  PROVE  /\ outcome = "running" /\ Flying /\ SeedTypeOK /\ Kept
         /\ pending = {} /\ Held = {} /\ InFlight = again /\ used = Taken \cup again
<1>1. outcome = "running" /\ Flying /\ SeedTypeOK /\ Kept
  BY DEF RoundOver, SeedInv
<1>2. \E w \in Workers : at[w] = "off"
  BY SeedAssumption DEF RoundOver
<1>3. pending = {} /\ used = Taken \cup InFlight
  BY <1>1, <1>2 DEF Flying
<1>4. Held = {}
  BY DEF Held, RoundOver
<1> QED
  BY <1>1, <1>3, <1>4 DEF InFlight

LEMMA FullRunHasNoHole ==
  ASSUME SeedInv, RoundOver, ~ terminal, ~ fatal, Cardinality(seeds) >= asked
  PROVE  Persisted \cup rejected =
           (Offset + LegacyCount) ..
             (Offset + LegacyCount + Cardinality(Persisted) + Cardinality(rejected) - 1)
<1>1. /\ outcome = "running" /\ Flying /\ SeedTypeOK /\ Kept
      /\ InFlight = again /\ used = Taken \cup again
  BY RoundEnds
<1>2. /\ asked \in Nat /\ Cardinality(seeds) \in Nat /\ Cardinality(rejected) \in Nat
      /\ Goal \in Nat /\ Cardinality(Taken) = Cardinality(seeds) + Cardinality(rejected)
      /\ Cardinality(seeds) = LegacyCount + Cardinality(Persisted)
      /\ Cardinality(Persisted) \in Nat /\ replacements \in Nat
      /\ Offset \in Nat /\ LegacyCount \in Nat
  BY <1>1, Sizes, Constants DEF SeedTypeOK
<1>3. again = {}
  <2> SUFFICES ASSUME NEW i \in InFlight PROVE FALSE
    BY <1>1
  <2>1. Cardinality(seeds) + replacements < asked
    BY <1>1, FlightHasRoom
  <2> QED
    BY <1>2, <2>1
<1>4. Cardinality(used) = Top - Offset /\ Top \in Nat
  BY <1>1, TopFacts
<1>5. Top = Offset + Cardinality(seeds) + Cardinality(rejected)
  <2>1. used = Taken
    BY <1>1, <1>3
  <2> QED
    BY <1>2, <1>4, <2>1
<1>6. Taken = Offset .. Offset + LegacyCount + Cardinality(Persisted) + Cardinality(rejected) - 1
  <2>1. Top - 1 = Offset + LegacyCount + Cardinality(Persisted) + Cardinality(rejected) - 1
    BY <1>2, <1>5
  <2> QED
    BY <1>1, <1>3, <2>1 DEF Flying
<1>7. Persisted \cup rejected = Taken \ Prefix
  BY <1>1 DEF Kept, Owned, Taken
<1>8. Prefix = Offset .. Offset + LegacyCount - 1
  BY DEF Prefix
<1> QED
  <2> DEFINE n == Cardinality(Persisted) + Cardinality(rejected)
  <2>1. n \in Nat
    BY <1>2
  <2>2. /\ Offset + LegacyCount + Cardinality(Persisted) + Cardinality(rejected) - 1
             = Offset + LegacyCount + n - 1
    BY <1>2
  <2> HIDE DEF n
  <2>3. (Offset .. Offset + LegacyCount + n - 1) \ (Offset .. Offset + LegacyCount - 1)
          = (Offset + LegacyCount) .. (Offset + LegacyCount + n - 1)
    BY <1>2, <2>1
  <2> QED
    BY <1>6, <1>7, <1>8, <2>2, <2>3

LEMMA ReturnKeeps ==
  ASSUME SeedInv, Return
  PROVE  SeedInv'
<1>1. /\ RoundOver /\ ~ terminal /\ ~ fatal
      /\ outcome' = IF Cardinality(seeds) < asked THEN "raised" ELSE "returned"
      /\ UNCHANGED <<stored, asked, used, next, pending, again, replacements, round, at, index,
                     terminal, fatal>>
  BY DEF Return
<1>2. Kept' /\ Persisted' = Persisted /\ rejected' = rejected
  BY <1>1, KeptStays DEF SeedInv, stored
<1>3. SeedTypeOK'
  BY <1>1 DEF SeedInv, SeedTypeOK, stored
<1>4. NoHoleOnReturn'
  <2> SUFFICES ASSUME outcome' = "returned" PROVE NoHoleOnReturn'
    BY DEF NoHoleOnReturn
  <2>1. Cardinality(seeds) \in Nat /\ asked \in Nat
    BY Sizes DEF SeedInv
  <2>2. Cardinality(seeds) >= asked
    BY <1>1, <2>1
  <2> QED
    BY <1>1, <1>2, <2>2, FullRunHasNoHole DEF NoHoleOnReturn
<1> QED
  BY <1>1, <1>2, <1>3, <1>4 DEF SeedInv, Idle, RoundOver

-------------------------------------------------------------------------------
\* The opening of a round.

LEMMA RoundOpens ==
  ASSUME SeedTypeOK, Kept', UNCHANGED stored, NEW S, OpenRound(S), outcome' = "running",
         asked' \in Targets, round' \in 0 .. Rounds - 1,
         NEW goal \in Nat, goal = Goal', NEW rows \in Nat, rows = Cardinality(rejected)',
         NEW T \in Nat, Offset <= T, T <= MaxIndex + 1, T = Offset + goal + rows,
         used' = Offset .. T - 1, next' \in Offset .. T,
         Taken' \cup S = used', S \cap Taken' = {}
  PROVE  SeedInv'
<1>1. /\ pending' = S /\ again' = {} /\ replacements' = 0 /\ terminal' = FALSE /\ fatal' = FALSE
      /\ at' = [w \in Workers |-> "free"] /\ index' = [w \in Workers |-> NoIndex]
  BY DEF OpenRound
<1>2. Held' = {} /\ InFlight' = S
  <2>1. Held' = {}
    BY <1>1 DEF Held
  <2> QED
    BY <1>1, <2>1 DEF InFlight
<1>3. Top' = T
  <2>1. Top' = Offset + goal + rows - replacements'
    BY DEF Top
  <2> QED
    BY <1>1, <2>1, Constants
<1>4. used' \subseteq Indices
  <2>1. Offset \in Nat /\ MaxIndex \in Nat
    BY Constants
  <2>2. Offset .. T - 1 \subseteq Offset .. MaxIndex
    BY <2>1
  <2> QED
    BY <2>2 DEF Indices
<1>5. SeedTypeOK'
  <2>1. next' \in Offset .. MaxIndex + 1
    <3>1. Offset \in Nat /\ MaxIndex \in Nat
      BY Constants
    <3>2. next' \in Nat /\ Offset <= next' /\ next' <= T
      BY <3>1
    <3> QED
      BY <3>1, <3>2
  <2>2. S \subseteq Indices
    BY <1>4
  <2> QED
    BY <1>1, <1>4, <2>1, <2>2 DEF SeedTypeOK, stored, Places
<1>6. Flying'
  <2>1. Distinct'
    BY <1>1 DEF Distinct
  <2>2. next' <= T
    BY Constants
  <2> QED
    BY <1>1, <1>2, <1>3, <2>1, <2>2 DEF Flying
<1>7. Idle' /\ NoHoleOnReturn'
  BY DEF Idle, NoHoleOnReturn
<1> QED
  BY <1>5, <1>6, <1>7 DEF SeedInv

LEMMA NextRoundKeeps ==
  ASSUME SeedInv, NextRound
  PROVE  SeedInv'
<1>1. /\ RoundOver /\ ~ terminal /\ ~ fatal /\ round + 1 < Rounds /\ round' = round + 1
      /\ UNCHANGED <<stored, asked, outcome>>
  BY DEF NextRound
<1>2. /\ outcome = "running" /\ Flying /\ SeedTypeOK /\ Kept
      /\ InFlight = again /\ used = Taken \cup again
  BY <1>1, RoundEnds
<1> DEFINE T == Offset + Goal + Cardinality(rejected)
           S == Top .. T - 1
<1>3. /\ Goal \in Nat /\ Cardinality(rejected) \in Nat /\ replacements \in Nat /\ Offset \in Nat
      /\ Goal <= Max(Targets) + LegacyCount /\ Cardinality(rejected) <= MaxRejections
      /\ Max(Targets) \in Nat /\ LegacyCount \in Nat /\ MaxRejections \in Nat
      /\ MaxIndex = Offset + LegacyCount + Max(Targets) + MaxRejections
      /\ next \in Nat /\ Offset <= next /\ MaxIndex \in Nat
  BY <1>2, Sizes, Constants DEF SeedTypeOK, Kept, Counts
<1>4. /\ T \in Nat /\ Top \in Nat /\ T = Top + replacements /\ T <= MaxIndex
      /\ Offset <= Top /\ next <= Top /\ Top <= T
  <2>1. Top \in Nat /\ Offset <= Top /\ next <= Top
    BY <1>2, TopFacts DEF Flying
  <2>2. T = Top + replacements
    BY <1>3 DEF Top
  <2> QED
    BY <1>3, <2>1, <2>2
<1>5. used = Offset .. Top - 1
  BY <1>2 DEF Flying
<1> HIDE DEF T
<1>6. Cardinality(S) = replacements
  <2>1. T - 1 \in Int
    BY <1>4
  <2>2. Cardinality(Top .. T - 1) = IF Top > T - 1 THEN 0 ELSE (T - 1) - Top + 1
    BY <1>4, <2>1, IntervalSize
  <2>3. (IF Top > T - 1 THEN 0 ELSE (T - 1) - Top + 1) = replacements
    BY <1>3, <1>4
  <2> QED
    BY <2>2, <2>3
<1>7. Take(replacements, next, used) = S
  <2>1. S \in SUBSET ((next .. MaxIndex) \ used)
    BY <1>3, <1>4, <1>5
  <2>2. \A i \in S, j \in (next .. MaxIndex) \ (used \cup S) : i < j
    BY <1>3, <1>4, <1>5
  <2> HIDE DEF S
  <2> QED
    BY <1>3, <1>6, <2>1, <2>2, TakeIs
<1>8. used' = used \cup S /\ next' = After(S, next) /\ OpenRound(again \cup S)
  BY <1>7 DEF NextRound
<1>9. used' = Offset .. T - 1
  BY SMTT(30), <1>3, <1>4, <1>5, <1>8
<1>10. next' \in Offset .. T
  <2>1. S \in SUBSET Nat /\ \A i \in S : i < T /\ next <= i
    BY <1>3, <1>4
  <2> HIDE DEF S
  <2>2. After(S, next) \in next .. T
    BY <1>3, <1>4, <2>1, AfterIs
  <2> QED
    BY <1>3, <1>4, <1>8, <2>2
<1>11. S \cap used = {}
  BY <1>3, <1>4, <1>5
<1>12. /\ Kept' /\ Taken' = Taken /\ Goal = Goal' /\ Cardinality(rejected) = Cardinality(rejected)'
       /\ T = Offset + Goal + Cardinality(rejected)
  BY <1>1, <1>2, KeptStays DEF T
<1>13. Taken' \cup (again \cup S) = used' /\ (again \cup S) \cap Taken' = {}
  BY <1>2, <1>8, <1>11, <1>12 DEF Flying
<1>14. round' \in 0 .. Rounds - 1 /\ asked' \in Targets /\ outcome' = "running"
  BY <1>1, <1>2, Constants DEF SeedTypeOK
<1>15. Offset <= T /\ T <= MaxIndex + 1
  BY <1>3, <1>4
<1> HIDE DEF S
<1> QED
  BY <1>1, <1>2, <1>3, <1>4, <1>8, <1>9, <1>10, <1>12, <1>13, <1>14, <1>15, RoundOpens

LEMMA BeginKeeps ==
  ASSUME SeedInv, Begin
  PROVE  SeedInv'
<1>1. /\ SeedTypeOK /\ Kept /\ round' = 0 /\ outcome' = "running" /\ UNCHANGED stored
  BY DEF Begin, SeedInv
<1> DEFINE have == Cardinality(seeds)
           lacks(count) == IF count > have THEN count - have ELSE 0
<1>2. PICK count \in Targets :
        /\ count >= asked /\ asked' = count
        /\ used' = Taken \cup Take(lacks(count), Offset, Taken)
        /\ next' = After(Take(lacks(count), Offset, Taken), Offset)
        /\ OpenRound(Take(lacks(count), Offset, Taken))
  BY DEF Begin
<1> DEFINE goal == IF count > have THEN count ELSE have
           rows == Cardinality(rejected)
           T    == Offset + goal + rows
           B    == Offset .. T - 1
           S    == B \ Taken
<1>3. /\ have \in Nat /\ rows \in Nat /\ count \in Nat /\ asked \in Nat /\ Offset \in Nat
      /\ rows <= MaxRejections /\ MaxRejections \in Nat /\ LegacyCount \in Nat
      /\ count <= Max(Targets) /\ Max(Targets) \in Nat /\ MaxIndex \in Nat
      /\ MaxIndex = Offset + LegacyCount + Max(Targets) + MaxRejections
      /\ Goal \in Nat /\ have <= Goal /\ Goal <= Max(Targets) + LegacyCount
      /\ Goal \in {asked, have}
  BY <1>1, Sizes, Constants DEF Kept, Counts
<1>4. seeds' = seeds /\ rejected' = rejected
  BY <1>1 DEF stored
<1>5. Goal' = goal /\ goal \in Nat /\ Goal <= goal /\ goal = have + lacks(count)
  <2>1. Goal' = goal
    BY <1>2, <1>4 DEF Goal
  <2> QED
    BY <1>2, <1>3, <2>1
<1>6. T \in Nat /\ Offset <= T /\ T <= MaxIndex
  BY <1>3, <1>5
<1>7. lacks(count) \in Nat
  BY <1>3
<1>8. Taken \subseteq B
  <2>1. Taken \subseteq Offset .. Offset + Goal + rows - 1
    BY <1>1 DEF Kept, TakenBelow
  <2>2. Offset + Goal + rows - 1 <= T - 1 /\ Offset + Goal + rows - 1 \in Int /\ T - 1 \in Int
    BY <1>3, <1>5, <1>6
  <2> HIDE DEF T, goal, rows
  <2> QED
    BY <1>3, <2>1, <2>2
<1>9. Cardinality(S) = lacks(count)
  <2>1. IsFiniteSet(Taken) /\ Cardinality(Taken) = have + rows
    BY <1>1, Sizes
  <2>2. T - 1 \in Int
    BY <1>6
  <2>3. IsFiniteSet(B) /\ Cardinality(B) = IF Offset > T - 1 THEN 0 ELSE (T - 1) - Offset + 1
    <3> HIDE DEF T
    <3> QED
      BY <1>3, <2>2, IntervalSize
  <2>4. (IF Offset > T - 1 THEN 0 ELSE (T - 1) - Offset + 1) = goal + rows
    BY <1>3, <1>5, <1>6
  <2>5. Cardinality(B) = goal + rows
    BY <2>3, <2>4
  <2>6. Cardinality(B \cap Taken) = have + rows
    <3>1. B \cap Taken = Taken
      BY <1>8
    <3> QED
      BY <2>1, <3>1
  <2> HIDE DEF B, goal
  <2>7. Cardinality(B \ Taken) = Cardinality(B) - Cardinality(B \cap Taken)
    BY <2>3, FS_Difference
  <2> QED
    BY <1>3, <1>5, <1>7, <2>5, <2>6, <2>7
<1>10. Take(lacks(count), Offset, Taken) = S
  <2>1. S \in SUBSET ((Offset .. MaxIndex) \ Taken)
    BY <1>3, <1>6
  <2>2. \A i \in S, j \in (Offset .. MaxIndex) \ (Taken \cup S) : i < j
    <3> SUFFICES ASSUME NEW i \in S, NEW j \in (Offset .. MaxIndex) \ (Taken \cup S)
                 PROVE  i < j
      OBVIOUS
    <3>1. i \in B /\ j \notin B /\ j \in Nat /\ Offset <= j
      BY <1>3
    <3> HIDE DEF T
    <3> QED
      BY <1>3, <1>6, <3>1
  <2> HIDE DEF S, lacks
  <2> QED
    BY <1>3, <1>7, <1>9, <2>1, <2>2, TakeIs
<1>11. used' = B /\ next' = After(S, Offset) /\ OpenRound(S)
  BY <1>2, <1>8, <1>10
<1>12. next' \in Offset .. T
  <2>1. S \in SUBSET Nat /\ \A i \in S : i < T /\ Offset <= i
    BY <1>3, <1>6
  <2> HIDE DEF S, T
  <2> QED
    BY <1>3, <1>6, <1>11, <2>1, AfterIs
<1>13. /\ Taken' = Taken /\ Persisted' = Persisted /\ Stored' = Stored
       /\ Fingerprints' = Fingerprints
  BY <1>4 DEF Taken, Persisted, Stored, Fingerprints
<1>14. Kept'
  <2>1. TakenBelow'
    <3>1. TakenBelow' = (Taken' \subseteq Offset .. Offset + Goal' + Cardinality(rejected') - 1)
      BY DEF TakenBelow
    <3>2. TakenBelow' = (Taken' \subseteq Offset .. Offset + goal + rows - 1)
      BY <1>4, <1>5, <3>1
    <3>3. Taken \subseteq Offset .. Offset + goal + rows - 1
      <4>1. T - 1 = Offset + goal + rows - 1
        BY <1>3, <1>5
      <4> HIDE DEF T
      <4> QED
        BY <1>8, <4>1
    <3>4. Taken' = Taken
      BY <1>13
    <3> HIDE DEF goal, rows
    <3> QED
      BY <3>2, <3>3, <3>4
  <2>2. NeverMoreThanAsked'
    <3>1. Cardinality(seeds) <= Max({asked, LegacyCount})
      BY <1>1 DEF Kept, NeverMoreThanAsked
    <3>2. Max({asked, LegacyCount}) \in {asked, LegacyCount}
      BY <1>3, GreaterOf
    <3>3. /\ count <= Max({count, LegacyCount}) /\ LegacyCount <= Max({count, LegacyCount})
          /\ Max({count, LegacyCount}) \in Nat
      BY <1>3, GreaterOf
    <3>4. Cardinality(seeds) <= Max({count, LegacyCount})
      <4> HIDE DEF goal, T, lacks
      <4>1. PICK m \in {asked, LegacyCount} : have <= m
        BY <3>1, <3>2
      <4> QED
        BY <1>2, <1>3, <3>3, <4>1
    <3> QED
      BY <1>2, <1>4, <3>4 DEF NeverMoreThanAsked
  <2> QED
    BY <1>1, <1>4, <1>13, <2>1, <2>2 DEF Kept, SeedsUnique, Counts, Owned
<1>15. T = Offset + goal + rows /\ goal = Goal' /\ rows = Cardinality(rejected)'
  BY <1>4, <1>5
<1>16. Taken' \cup S = used' /\ S \cap Taken' = {}
  BY <1>8, <1>11, <1>13
<1>17. round' \in 0 .. Rounds - 1 /\ asked' \in Targets /\ T <= MaxIndex + 1
  BY <1>1, <1>2, <1>3, <1>6, Constants
<1>18. used' = Offset .. T - 1 /\ goal \in Nat /\ rows \in Nat /\ T \in Nat /\ Offset <= T
  BY <1>3, <1>5, <1>6, <1>11
<1> HIDE DEF S, T, goal, rows
<1> QED
  BY <1>1, <1>18, <1>11, <1>12, <1>14, <1>15, <1>16, <1>17, RoundOpens

-------------------------------------------------------------------------------
\* The files of the stages before: rows without an index.
LEMMA SeedInitInv == SeedInit => SeedInv
<1> SUFFICES ASSUME SeedInit PROVE SeedInv
  OBVIOUS
<1> DEFINE row(r) == [request |-> r, index |-> NoIndex]
<1>1. /\ seeds = {row(r) : r \in LegacyRows} /\ rejected = {} /\ asked = Min(Targets)
      /\ outcome = "raised" /\ at = [w \in Workers |-> "off"]
  BY DEF SeedInit
<1>2. IsFiniteSet(seeds) /\ Cardinality(seeds) = LegacyCount
  <2> DEFINE f == [r \in LegacyRows |-> row(r)]
  <2>1. f \in Bijection(LegacyRows, seeds)
    <3>1. f \in [LegacyRows -> seeds]
      BY <1>1
    <3>2. \A r, t \in LegacyRows : f[r] = f[t] => r = t
      <4>1. \A r : row(r).request = r
        OBVIOUS
      <4> HIDE DEF row
      <4> QED
        BY <4>1
    <3>3. \A s \in seeds : \E r \in LegacyRows : f[r] = s
      BY <1>1
    <3> HIDE DEF f
    <3> QED
      BY <3>1, <3>2, <3>3, Fun_IsBij
  <2>2. ExistsBijection(LegacyRows, seeds)
    BY <2>1 DEF ExistsBijection
  <2> QED
    BY <2>2, Constants, FS_Bijection DEF LegacyCount
<1>3. \A s \in seeds : s.index = NoIndex /\ s.request \in LegacyRows
  BY <1>1
<1>4. \A r \in LegacyRows : \E s \in seeds : s.request = r
  <2> SUFFICES ASSUME NEW r \in LegacyRows PROVE \E s \in seeds : s.request = r
    OBVIOUS
  <2>1. row(r) \in seeds /\ row(r).request = r
    BY <1>1
  <2> QED
    BY <2>1
<1>5. Stored = {} /\ Persisted = {} /\ Fingerprints = LegacyRows /\ Taken = Prefix
  <2>1. Stored = {} /\ Persisted = {}
    BY <1>3 DEF Stored, Persisted
  <2>2. Fingerprints = LegacyRows
    BY <1>3, <1>4 DEF Fingerprints
  <2> QED
    BY <1>1, <2>1, <2>2 DEF Taken
<1>6. asked \in Targets /\ asked \in Nat /\ LegacyCount \in Nat /\ Offset \in Nat
  BY <1>1, Constants
<1>7. IsFiniteSet({}) /\ Cardinality({}) = 0
  BY FS_EmptySet
<1>8. Counts
  BY <1>1, <1>2, <1>5, <1>6, <1>7, Constants DEF Counts, LegacyCount
<1>9. SeedsUnique
  <2>1. \A s, t \in seeds : s.request = t.request => s = t
    BY <1>1
  <2> QED
    BY <1>5, <2>1 DEF SeedsUnique
<1>10. TakenBelow
  <2>1. Goal \in Nat /\ LegacyCount <= Goal
    BY <1>2, <1>6 DEF Goal
  <2>2. Cardinality(rejected) = 0
    BY <1>1, <1>7
  <2>3. Offset .. Offset + LegacyCount - 1 \subseteq Offset .. Offset + Goal + 0 - 1
    BY <1>6, <2>1
  <2> QED
    BY <1>5, <2>2, <2>3 DEF TakenBelow, Prefix
<1>11. Owned
  BY <1>1, <1>5 DEF Owned
<1>12. NeverMoreThanAsked
  BY <1>2, <1>6, GreaterOf DEF NeverMoreThanAsked
<1>13. SeedTypeOK
  <2>1. seeds \subseteq [request : Requests, index : Indices \cup {NoIndex}]
    BY <1>1, SeedAssumption
  <2>2. 0 \in 0 .. Rounds - 1 /\ Offset \in Offset .. MaxIndex + 1
    BY Constants
  <2> QED
    BY <1>1, <1>6, <2>1, <2>2 DEF SeedTypeOK, SeedInit, Places
<1>14. Idle /\ NoHoleOnReturn
  BY <1>1 DEF Idle, NoHoleOnReturn
<1> QED
  BY <1>1, <1>8, <1>9, <1>10, <1>11, <1>12, <1>13, <1>14 DEF SeedInv, Kept

LEMMA SeedInductive == SeedInv /\ [SeedNext]_seedVars => SeedInv'
<1> SUFFICES ASSUME SeedInv, [SeedNext]_seedVars PROVE SeedInv'
  OBVIOUS
<1>1. ASSUME NEW w \in Workers, EventLoop(w) PROVE SeedInv'
  BY <1>1, CallKeeps, LeaveKeeps, SavedKeeps DEF EventLoop
<1>2. ASSUME NEW w \in Workers, Outcome(w) PROVE SeedInv'
  BY <1>2, AnswerNewKeeps, AnswerDuplicateKeeps, AnswerRejectedKeeps, AnswerErrorKeeps
  DEF Outcome
<1>3. ASSUME NEW w \in Workers, Dies(w) PROVE SeedInv'
  BY <1>3, DiesKeeps
<1>4. ASSUME Control PROVE SeedInv'
  BY <1>4, RaiseKeeps, NextRoundKeeps, ReturnKeeps DEF Control
<1>5. CASE Begin
  BY <1>5, BeginKeeps
<1>6. CASE Crash
  BY <1>6, CrashKeeps
<1>7. CASE UNCHANGED seedVars
  <2>1. /\ UNCHANGED <<seeds, rejected, asked, outcome, used, next, pending, again, replacements>>
        /\ UNCHANGED <<round, at, index, terminal, fatal>>
    BY <1>7 DEF seedVars
  <2>2. Kept' /\ Goal' = Goal /\ Taken' = Taken
    BY <2>1, KeptStays DEF SeedInv, stored
  <2>3. SeedTypeOK' /\ Idle' /\ NoHoleOnReturn'
    BY <2>1 DEF SeedInv, SeedTypeOK, Idle, NoHoleOnReturn, Persisted
  <2>4. Flying <=> Flying'
    BY <2>1, <2>2 DEF Flying, Top, InFlight, Held, Distinct
  <2> QED
    BY <2>1, <2>2, <2>3, <2>4 DEF SeedInv
<1> QED
  BY <1>1, <1>2, <1>3, <1>4, <1>5, <1>6, <1>7 DEF SeedNext

LEMMA KeptIsOwnedOnce ==
  ASSUME SeedTypeOK, Kept
  PROVE  IndexOwnedOnce /\ RequestOnce /\ NeverMoreThanAsked
<1>1. Persisted \subseteq Indices /\ rejected \subseteq Indices /\ (Persisted \cup rejected) \cap Prefix = {}
  BY Sizes DEF SeedTypeOK, Kept, Owned
<1>2. \A i \in Persisted \cup rejected : i >= Offset + LegacyCount
  <2> SUFFICES ASSUME NEW i \in Persisted \cup rejected PROVE i >= Offset + LegacyCount
    OBVIOUS
  <2>1. i \in Offset .. MaxIndex /\ i \notin Offset .. Offset + LegacyCount - 1
    BY <1>1 DEF Indices, Prefix
  <2> QED
    BY <2>1, Constants
<1>3. Cardinality(Persisted) = Cardinality({s \in seeds : s.index # NoIndex})
  BY DEF Kept, Counts, Stored
<1> QED
  BY <1>2, <1>3 DEF IndexOwnedOnce, RequestOnce, Kept, Owned, Counts

\* generate_seeds over workers, rounds, crashes and resumed runs: an index is one seed's or one
\* rejection's for ever and none falls into the legacy prefix, no two rows ask the same, a target
\* is never overshot, and a run that returns leaves its indices consecutive.
THEOREM SeedGenerationSafe == SeedSpec => []SeedSafety
<1>1. SeedInv => SeedSafety
  BY KeptIsOwnedOnce DEF SeedInv, SeedSafety
<1> QED
  BY <1>1, SeedInitInv, SeedInductive, PTL DEF SeedSpec

-------------------------------------------------------------------------------
(* Partitions and snapshot commands: every set of commands and collections,   *)
(* every list of gold files and sidecars.                                     *)

CommandPlaces ==
  {"idle", "sha", "sidecars", "status", "status_sha", "gold", "freeze", "copy", "publish"}

Statuses ==
  [state : {"running", "provider_quota_exhausted", "complete", "gate_blocked"},
   partition : Manifests \cup {Nothing}]

Seen ==
  [partition : Manifests \cup {Nothing}, partitionSha : Manifests \cup {Nothing},
   status : Statuses \cup {Nothing}, statusSha : Statuses \cup {Nothing},
   bound : Seq(Nat), blocked : BOOLEAN, existed : BOOLEAN]

AutoTyped ==
  /\ raw \in Collections
  /\ files \in [Files -> Nat]
  /\ manifest \in Manifests \cup {Nothing}
  /\ status \in Statuses
  /\ written \in Nat \cup {Nothing}

CommandsTyped ==
  /\ pc \in [Commands -> CommandPlaces]
  /\ seen \in [Commands -> Seen]
  /\ temp \in [Commands -> Seq(Nat) \cup {Nothing}]

\* What the manifest m declares for the files that are copied.
DeclaredBy(m) == [i \in DOMAIN Copied |-> m.declares[Copied[i]]]

\* A command that stands at `spot`, with what it has read and what it has copied.
Reads(spot, s, t) ==
  /\ spot # "idle" => s.partition \in Manifests
  /\ spot \notin {"idle", "sha"} => s.partitionSha \in Manifests
  /\ spot \in {"sha", "sidecars", "status", "status_sha"} => s.bound = <<>>
  /\ spot \in {"status", "status_sha", "gold"} => s.blocked \/ s.partition.ready
  /\ spot = "gold" =>
       /\ Len(s.bound) <= Len(Gold)
       /\ s.blocked \/ \A i \in 1 .. Len(s.bound) : s.bound[i] = s.partition.declares[Gold[i]]
  /\ spot \in {"freeze", "copy", "publish"} =>
       s.partition.ready /\ s.bound = DeclaredBy(s.partition)
  /\ spot = "copy" =>
       /\ t \in Seq(Nat) /\ Len(t) <= Len(Copied)
       /\ \A i \in 1 .. Len(t) : t[i] = s.bound[i]
  /\ spot = "publish" => t = s.bound

CommandsRead == \A p \in Commands : Reads(pc[p], seen[p], temp[p])

SnapshotTyped == snap \in Directories \cup {Nothing}

\* A manifest is replaced and never removed, so a command that runs finds one.
ManifestThere == \A p \in Commands : pc[p] # "idle" => manifest \in Manifests

SnapshotInv ==
  /\ ManifestThere
  /\ AutoTyped /\ CommandsTyped /\ CommandsRead /\ SnapshotTyped /\ SnapshotIsOnePartition

-------------------------------------------------------------------------------
LEMMA CopiedFiles ==
  /\ Copied \in Seq(Files) /\ Len(Copied) = Len(Gold) + 1
  /\ \A i \in 1 .. Len(Gold) : Copied[i] = Gold[i] /\ Gold[i] \in Files
  /\ Copied[Len(Gold) + 1] = "task_bank" /\ "task_bank" \in Files
  /\ \A i \in 1 .. Len(WriteOrder) : WriteOrder[i] \in Files
<1> DEFINE Names == STRING \cup {"task_bank"}
<1>1. Gold \in Seq(Names) /\ Sidecars \in Seq(Names) /\ <<"task_bank">> \in Seq(Names)
  BY SnapshotAssumption
<1>2. /\ Sidecars \o Gold \in Seq(Names)
      /\ Len(Sidecars \o Gold) = Len(Sidecars) + Len(Gold)
      /\ \A i \in 1 .. Len(Gold) : (Sidecars \o Gold)[Len(Sidecars) + i] = Gold[i]
  BY <1>1
<1>3. /\ WriteOrder \in Seq(Names)
      /\ Len(WriteOrder) = Len(Sidecars) + Len(Gold) + 1
      /\ \A i \in 1 .. Len(Sidecars \o Gold) : WriteOrder[i] = (Sidecars \o Gold)[i]
      /\ WriteOrder[Len(WriteOrder)] = "task_bank"
  BY <1>1, <1>2 DEF WriteOrder
<1>4. \A i \in 1 .. Len(WriteOrder) : WriteOrder[i] \in Files
  BY <1>3 DEF Files
<1>5. ASSUME NEW i \in 1 .. Len(Gold)
      PROVE  Gold[i] \in Files
  <2>1. Len(Gold) \in Nat /\ Len(Sidecars) \in Nat
    BY <1>1
  <2>2. Len(Sidecars) + i \in 1 .. Len(WriteOrder) /\ Len(Sidecars) + i \in 1 .. Len(Sidecars \o Gold)
    BY <1>2, <1>3, <2>1
  <2> QED
    BY <1>2, <1>3, <1>4, <2>2
<1>6. "task_bank" \in Files
  <2>1. Len(WriteOrder) \in 1 .. Len(WriteOrder)
    BY <1>1, <1>3
  <2> QED
    BY <1>3, <1>4, <2>1
<1>7. /\ Copied \in Seq(Names) /\ Len(Copied) = Len(Gold) + 1
      /\ \A i \in 1 .. Len(Gold) : Copied[i] = Gold[i]
      /\ Copied[Len(Gold) + 1] = "task_bank"
  BY <1>1 DEF Copied
<1>8. \A i \in 1 .. Len(Copied) : Copied[i] \in Files
  <2> TAKE i \in 1 .. Len(Copied)
  <2>1. i \in 1 .. Len(Gold) \/ i = Len(Gold) + 1
    BY <1>1, <1>7
  <2> QED
    BY <1>5, <1>6, <1>7, <2>1
<1>9. Copied \in Seq(Files)
  BY <1>7, <1>8
<1> QED
  BY <1>4, <1>5, <1>6, <1>7, <1>9

LEMMA ManifestsDeclare ==
  ASSUME NEW m \in Manifests
  PROVE  /\ m.declares \in [Files -> Nat]
         /\ m.ready \in BOOLEAN
         /\ m.ready => \E c \in ReadyOnes : m = ManifestOf(c)
<1> PICK c \in Collections : m = ManifestOf(c)
  BY DEF Manifests
<1>1. Bytes[c] \in [Files -> Nat] /\ ReadyOnes \subseteq Collections
  BY SnapshotAssumption
<1>2. m.declares = Bytes[c] /\ m.ready = (c \in ReadyOnes)
  BY DEF ManifestOf
<1>3. (c \in ReadyOnes) \in BOOLEAN
  OBVIOUS
<1>4. m.ready \in BOOLEAN
  BY <1>2, <1>3, Zenon
<1>5. m.ready => c \in ReadyOnes
  BY <1>2, Zenon
<1> QED
  BY <1>1, <1>2, <1>4, <1>5

LEMMA DeclaredByIsSeq ==
  ASSUME NEW m \in Manifests
  PROVE  /\ DeclaredBy(m) \in Seq(Nat) /\ Len(DeclaredBy(m)) = Len(Copied)
         /\ \A i \in 1 .. Len(Copied) : DeclaredBy(m)[i] = m.declares[Copied[i]]
<1>1. m.declares \in [Files -> Nat] /\ Copied \in Seq(Files)
  BY ManifestsDeclare, CopiedFiles
<1>2. DOMAIN Copied = 1 .. Len(Copied) /\ Len(Copied) \in Nat
  BY <1>1
<1>3. \A i \in 1 .. Len(Copied) : Copied[i] \in Files
  BY <1>1
<1>4. DeclaredBy(m) = [i \in 1 .. Len(Copied) |-> m.declares[Copied[i]]]
  BY <1>2 DEF DeclaredBy
<1>5. DeclaredBy(m) \in [1 .. Len(Copied) -> Nat]
  BY <1>1, <1>3, <1>4
<1> QED
  BY <1>2, <1>4, <1>5

LEMMA SameElements ==
  ASSUME NEW s \in Seq(Nat), NEW t \in Seq(Nat), Len(s) = Len(t),
         \A i \in 1 .. Len(s) : s[i] = t[i]
  PROVE  s = t
  OBVIOUS

-------------------------------------------------------------------------------
LEMMA SnapshotInitInv == SnapshotInit => SnapshotInv
<1> SUFFICES ASSUME SnapshotInit PROVE SnapshotInv
  OBVIOUS
<1>1. AutoTyped
  BY DEF SnapshotInit, AutoTyped, Statuses
<1>2. CommandsTyped
  <2>1. <<>> \in Seq(Nat)
    OBVIOUS
  <2>2. NothingSeen \in Seen
    BY <2>1 DEF NothingSeen, Seen
  <2> QED
    BY <2>2 DEF SnapshotInit, CommandsTyped, CommandPlaces
<1>3. CommandsRead
  BY DEF SnapshotInit, CommandsRead, Reads
<1>5. ManifestThere
  BY DEF SnapshotInit, ManifestThere
<1>4. SnapshotTyped /\ SnapshotIsOnePartition
  BY DEF SnapshotInit, SnapshotTyped, SnapshotIsOnePartition
<1> QED
  BY <1>1, <1>2, <1>3, <1>4, <1>5 DEF SnapshotInv

\* A step of one command keeps the invariant when it leaves that command well.
LEMMA CommandStep ==
  ASSUME SnapshotInv, NEW p \in Commands, NEW spot \in CommandPlaces, NEW s \in Seen,
         NEW t \in Seq(Nat) \cup {Nothing}, Reads(spot, s, t),
         pc' = [pc EXCEPT ![p] = spot], seen' = [seen EXCEPT ![p] = s],
         temp' = [temp EXCEPT ![p] = t]
  PROVE  CommandsTyped' /\ CommandsRead'
         /\ (manifest' = manifest /\ (spot # "idle" => manifest \in Manifests) => ManifestThere')
<1>1. CommandsTyped /\ CommandsRead
  BY DEF SnapshotInv
<1>2. CommandsTyped'
  BY <1>1 DEF CommandsTyped
<1>3. ASSUME NEW q \in Commands PROVE Reads(pc[q], seen[q], temp[q])'
  <2>1. CASE q = p
    <3>1. pc'[q] = spot /\ seen'[q] = s /\ temp'[q] = t
      BY <1>1, <2>1 DEF CommandsTyped
    <3> QED
      BY <3>1 DEF Reads
  <2>2. CASE q # p
    <3>1. pc'[q] = pc[q] /\ seen'[q] = seen[q] /\ temp'[q] = temp[q]
      BY <1>1, <2>2 DEF CommandsTyped
    <3>2. Reads(pc[q], seen[q], temp[q])
      BY <1>1 DEF CommandsRead
    <3>3. Reads(pc'[q], seen'[q], temp'[q])
      BY <3>1, <3>2
    <3> QED
      BY <3>3 DEF Reads
  <2> QED
    BY <2>1, <2>2
<1>4. ASSUME manifest' = manifest, spot # "idle" => manifest \in Manifests
      PROVE  ManifestThere'
  <2> SUFFICES ASSUME NEW q \in Commands, pc'[q] # "idle" PROVE manifest \in Manifests
    BY <1>4 DEF ManifestThere
  <2>1. pc'[q] = IF q = p THEN spot ELSE pc[q]
    BY <1>1 DEF CommandsTyped
  <2> QED
    BY <1>4, <2>1 DEF SnapshotInv, ManifestThere
<1> QED
  BY <1>2, <1>3, <1>4 DEF CommandsRead

\* The steps of the automation leave the commands and the snapshot alone.
LEMMA AutomationKeeps ==
  ASSUME SnapshotInv,
         Collect \/ BeginPartition \/ WriteFile \/ WriteManifest \/ SaveStatus
           \/ CrashPartition \/ NewEpoch
  PROVE  SnapshotInv'
<1>0. AutoTyped
  BY DEF SnapshotInv
<1>1. UNCHANGED <<pc, seen, temp, snap>>
  BY DEF Collect, BeginPartition, WriteFile, WriteManifest, SaveStatus, CrashPartition, NewEpoch
<1>2. CommandsTyped' /\ CommandsRead' /\ SnapshotTyped' /\ SnapshotIsOnePartition'
  BY <1>1 DEF SnapshotInv, CommandsTyped, CommandsRead, SnapshotTyped, SnapshotIsOnePartition
<1>3. AutoTyped'
  <2>1. CASE Collect
    BY <1>0, <2>1 DEF Collect, AutoTyped
  <2>2. CASE BeginPartition
    BY <1>0, <2>2 DEF BeginPartition, AutoTyped, Statuses
  <2>3. CASE WriteFile
    <3>1. written \in Nat /\ written + 1 \in 1 .. Len(WriteOrder)
      BY <1>0, <2>3 DEF WriteFile, AutoTyped
    <3>2. WriteOrder[written + 1] \in Files
      BY <3>1, CopiedFiles
    <3>3. Bytes[raw][WriteOrder[written + 1]] \in Nat
      BY <1>0, <3>2, SnapshotAssumption DEF AutoTyped
    <3> QED
      BY <1>0, <2>3, <3>1, <3>2, <3>3 DEF WriteFile, AutoTyped
  <2>4. CASE WriteManifest
    <3>1. Len(WriteOrder) \in Nat
      BY SnapshotAssumption DEF WriteOrder
    <3> QED
      BY <1>0, <2>4, <3>1 DEF WriteManifest, AutoTyped, Manifests
  <2>5. CASE SaveStatus
    <3>1. PICK s \in {"running", "complete", "gate_blocked", status.state} :
            status' = [state |-> s, partition |-> manifest]
      BY <2>5 DEF SaveStatus
    <3> QED
      BY <1>0, <2>5, <3>1 DEF SaveStatus, AutoTyped, Statuses
  <2>6. CASE CrashPartition
    BY <1>0, <2>6 DEF CrashPartition, AutoTyped
  <2>7. CASE NewEpoch
    BY <1>0, <2>7 DEF NewEpoch, AutoTyped, Statuses
  <2> QED
    BY <2>1, <2>2, <2>3, <2>4, <2>5, <2>6, <2>7
<1>4. ManifestThere'
  <2>1. manifest' = manifest \/ manifest' = ManifestOf(raw)
    BY DEF Collect, BeginPartition, WriteFile, WriteManifest, SaveStatus, CrashPartition, NewEpoch
  <2>2. ManifestOf(raw) \in Manifests
    BY <1>0 DEF AutoTyped, Manifests
  <2> QED
    BY <1>1, <2>1, <2>2 DEF SnapshotInv, ManifestThere
<1> QED
  BY <1>2, <1>3, <1>4 DEF SnapshotInv

LEMMA ChangedIsSeq ==
  ASSUME NEW co \in Seq(Nat)
  PROVE  [co EXCEPT ![1] = 0] \in Seq(Nat)
<1>1. co \in [1 .. Len(co) -> Nat] /\ Len(co) \in Nat
  OBVIOUS
<1>2. [co EXCEPT ![1] = 0] \in [1 .. Len(co) -> Nat]
  BY <1>1
<1> QED
  BY <1>1, <1>2

LEMMA TamperKeeps ==
  ASSUME SnapshotInv, Tamper
  PROVE  SnapshotInv'
<1>0. SnapshotTyped /\ snap # Nothing
  BY DEF SnapshotInv, Tamper
<1>1. PICK so \in Manifests, li \in Seq(Nat), co \in Seq(Nat), ga \in Manifests :
        snap = [source |-> so, lists |-> li, copies |-> co, gates |-> ga]
  BY <1>0 DEF SnapshotTyped, Directories
<1>2. PICK changed \in Seq(Nat) :
        snap' = [source |-> so, lists |-> li, copies |-> changed, gates |-> ga]
  <2>1. [co EXCEPT ![1] = 0] \in Seq(Nat)
    BY ChangedIsSeq
  <2>2. snap' = [snap EXCEPT !.copies[1] = 0]
    BY DEF Tamper
  <2>3. snap' = [source |-> so, lists |-> li, copies |-> [co EXCEPT ![1] = 0], gates |-> ga]
    BY <1>1, <2>2
  <2> QED
    BY <2>1, <2>3
<1>3. UNCHANGED <<raw, files, manifest, status, written, pc, seen, temp>>
  BY DEF Tamper, autoVars
<1>4. AutoTyped' /\ CommandsTyped' /\ CommandsRead'
  BY <1>3 DEF SnapshotInv, AutoTyped, CommandsTyped, CommandsRead
<1>5. SnapshotTyped' /\ SnapshotIsOnePartition'
  BY <1>0, <1>1, <1>2 DEF SnapshotInv, SnapshotTyped, Directories, SnapshotIsOnePartition
<1>6. ManifestThere'
  BY <1>3 DEF SnapshotInv, ManifestThere
<1> QED
  BY <1>4, <1>5, <1>6 DEF SnapshotInv

-------------------------------------------------------------------------------
\* The fields of what a command has read.
LEMMA SeenFields ==
  ASSUME SnapshotInv, NEW p \in Commands
  PROVE  \E m \in Manifests \cup {Nothing}, h \in Manifests \cup {Nothing},
            st \in Statuses \cup {Nothing}, sh \in Statuses \cup {Nothing},
            b \in Seq(Nat), bl \in BOOLEAN, ex \in BOOLEAN :
           seen[p] = [partition |-> m, partitionSha |-> h, status |-> st, statusSha |-> sh,
                      bound |-> b, blocked |-> bl, existed |-> ex]
<1>1. seen[p] \in Seen
  BY DEF SnapshotInv, CommandsTyped
<1> QED
  BY <1>1 DEF Seen

LEMMA CommandOf ==
  ASSUME SnapshotInv, NEW p \in Commands
  PROVE  /\ pc[p] \in CommandPlaces /\ seen[p] \in Seen /\ temp[p] \in Seq(Nat) \cup {Nothing}
         /\ Reads(pc[p], seen[p], temp[p])
  BY DEF SnapshotInv, CommandsTyped, CommandsRead

\* The steps of evaluate_readiness read; they change what the command has seen.
LEMMA ReadingStep ==
  ASSUME SnapshotInv, NEW p \in Commands, NEW spot \in CommandPlaces, NEW s \in Seen,
         Reads(spot, s, temp[p]), spot # "idle" => manifest \in Manifests,
         pc' = [pc EXCEPT ![p] = spot], seen' = [seen EXCEPT ![p] = s],
         UNCHANGED autoVars, UNCHANGED <<temp, snap>>
  PROVE  SnapshotInv'
<1>1. temp' = [temp EXCEPT ![p] = temp[p]]
  BY DEF SnapshotInv, CommandsTyped
<1>2. CommandsTyped' /\ CommandsRead' /\ ManifestThere'
  <2>1. temp[p] \in Seq(Nat) \cup {Nothing}
    BY CommandOf
  <2>2. PICK t \in Seq(Nat) \cup {Nothing} : t = temp[p]
    BY <2>1
  <2>3. Reads(spot, s, t) /\ temp' = [temp EXCEPT ![p] = t]
    BY <1>1, <2>2
  <2>4. manifest' = manifest
    BY DEF autoVars
  <2> QED
    BY <2>3, <2>4, CommandStep
<1>3. AutoTyped' /\ SnapshotTyped' /\ SnapshotIsOnePartition'
  BY DEF SnapshotInv, AutoTyped, SnapshotTyped, SnapshotIsOnePartition, autoVars
<1> QED
  BY <1>2, <1>3 DEF SnapshotInv

LEMMA NothingSeenIsSeen == NothingSeen \in Seen
<1>1. <<>> \in Seq(Nat)
  OBVIOUS
<1> QED
  BY <1>1 DEF NothingSeen, Seen

LEMMA StartKeeps ==
  ASSUME SnapshotInv, NEW p \in Commands, Start(p)
  PROVE  SnapshotInv'
<1> DEFINE s == [NothingSeen EXCEPT !.partition = manifest]
<1>1. manifest \in Manifests
  BY DEF SnapshotInv, AutoTyped, Start
<1>2. s \in Seen /\ s.partition = manifest /\ s.bound = <<>>
  <2>0. <<>> \in Seq(Nat)
    OBVIOUS
  <2>1. PICK e \in Seq(Nat), no \in BOOLEAN : e = <<>> /\ no = FALSE
    BY <2>0
  <2>2. NothingSeen = [partition |-> Nothing, partitionSha |-> Nothing, status |-> Nothing, statusSha |-> Nothing,
                       bound |-> e, blocked |-> no, existed |-> no]
    BY <2>1 DEF NothingSeen
  <2>3. s = [partition |-> manifest, partitionSha |-> Nothing, status |-> Nothing, statusSha |-> Nothing,
             bound |-> e, blocked |-> no, existed |-> no]
    BY <2>2
  <2> QED
    BY <1>1, <2>1, <2>3 DEF Seen
<1>4. Reads("sha", s, temp[p]) /\ "sha" \in CommandPlaces
  BY <1>1, <1>2 DEF Reads, CommandPlaces
<1>5. /\ pc' = [pc EXCEPT ![p] = "sha"] /\ seen' = [seen EXCEPT ![p] = s]
      /\ UNCHANGED autoVars /\ UNCHANGED <<temp, snap>>
  BY DEF Start, Goto, Commandless
<1> QED
  BY <1>1, <1>2, <1>4, <1>5, ReadingStep

LEMMA HashManifestKeeps ==
  ASSUME SnapshotInv, NEW p \in Commands, HashManifest(p)
  PROVE  SnapshotInv'
<1>1. manifest \in Manifests
  BY DEF SnapshotInv, ManifestThere, HashManifest
<1> PICK m \in Manifests \cup {Nothing}, h \in Manifests \cup {Nothing},
         st \in Statuses \cup {Nothing}, sh \in Statuses \cup {Nothing},
         b \in Seq(Nat), bl \in BOOLEAN, ex \in BOOLEAN :
           seen[p] = [partition |-> m, partitionSha |-> h, status |-> st, statusSha |-> sh,
                      bound |-> b, blocked |-> bl, existed |-> ex]
  BY SeenFields
<1> DEFINE s == [partition |-> m, partitionSha |-> manifest, status |-> st, statusSha |-> sh,
                 bound |-> b, blocked |-> bl, existed |-> ex]
<1>2. s \in Seen
  BY <1>1 DEF Seen
<1>3. /\ pc[p] = "sha" /\ pc' = [pc EXCEPT ![p] = "sidecars"] 
      /\ UNCHANGED autoVars /\ UNCHANGED <<temp, snap>>
  BY DEF HashManifest, Goto, Commandless
<1>4. seen' = [seen EXCEPT ![p] = s]
  <2>1. [seen[p] EXCEPT !["partitionSha"] = manifest] = s
    OBVIOUS
  <2>2. seen' = [seen EXCEPT ![p] = [@ EXCEPT !["partitionSha"] = manifest]]
    BY DEF HashManifest, Saw
  <2> QED
    BY <2>1, <2>2
<1>5. Reads("sidecars", s, temp[p]) /\ "sidecars" \in CommandPlaces
  <2>1. m \in Manifests /\ b = <<>>
    BY <1>3, CommandOf DEF Reads
  <2> QED
    BY <1>1, <2>1 DEF Reads, CommandPlaces
<1> QED
  BY <1>1, <1>2, <1>3, <1>4, <1>5, ReadingStep

LEMMA CheckSidecarsKeeps ==
  ASSUME SnapshotInv, NEW p \in Commands, CheckSidecars(p)
  PROVE  SnapshotInv'
<1> PICK m \in Manifests \cup {Nothing}, h \in Manifests \cup {Nothing},
         st \in Statuses \cup {Nothing}, sh \in Statuses \cup {Nothing},
         b \in Seq(Nat), bl \in BOOLEAN, ex \in BOOLEAN :
           seen[p] = [partition |-> m, partitionSha |-> h, status |-> st, statusSha |-> sh,
                      bound |-> b, blocked |-> bl, existed |-> ex]
  BY SeenFields
<1>1. /\ pc[p] = "sidecars" /\ pc' = [pc EXCEPT ![p] = "status"]
      /\ UNCHANGED autoVars /\ UNCHANGED <<temp, snap>>
  BY DEF CheckSidecars, Goto, Commandless
<1>2. m \in Manifests /\ h \in Manifests /\ b = <<>> /\ manifest \in Manifests
  BY <1>1, CommandOf DEF Reads, SnapshotInv, ManifestThere
<1>3. PICK now \in BOOLEAN : /\ now \/ m.ready
                             /\ seen' = [seen EXCEPT ![p].blocked = now]
  <2> DEFINE cond == \/ ~ seen[p].partition.ready
                     \/ \E f \in Files \ ({Gold[i] : i \in DOMAIN Gold} \cup {"oracle_label_only"}) :
                          files[f] # seen[p].partition.declares[f]
  <2>1. seen' = [seen EXCEPT ![p].blocked = @ \/ cond]
    BY DEF CheckSidecars, Block
  <2>2. seen[p].partition = m
    OBVIOUS
  <2>3. cond \/ m.ready
    BY <2>2
  <2> HIDE DEF cond
  <2>4. PICK now \in BOOLEAN : now = (seen[p].blocked \/ cond)
    BY Zenon
  <2>5. now \/ m.ready
    BY <2>3, <2>4
  <2>6. seen' = [seen EXCEPT ![p].blocked = now]
    BY <2>1, <2>4, Zenon
  <2> QED
    BY <2>5, <2>6
<1> DEFINE s == [partition |-> m, partitionSha |-> h, status |-> st, statusSha |-> sh,
                 bound |-> b, blocked |-> now, existed |-> ex]
<1>4. s \in Seen
  BY DEF Seen
<1>5. seen' = [seen EXCEPT ![p] = s]
  <2>1. [seen[p] EXCEPT !.blocked = now] = s
    OBVIOUS
  <2>2. seen' = [seen EXCEPT ![p] = [seen[p] EXCEPT !.blocked = now]]
    BY <1>3
  <2> QED
    BY <2>1, <2>2
<1>6. Reads("status", s, temp[p]) /\ "status" \in CommandPlaces
  BY <1>2, <1>3 DEF Reads, CommandPlaces
<1> QED
  BY <1>1, <1>2, <1>4, <1>5, <1>6, ReadingStep

LEMMA SetBlocked ==
  ASSUME NEW m, NEW h, NEW st, NEW sh, NEW b, NEW bl, NEW ex, NEW now
  PROVE  [[partition |-> m, partitionSha |-> h, status |-> st, statusSha |-> sh,
           bound |-> b, blocked |-> bl, existed |-> ex] EXCEPT !.blocked = now]
           = [partition |-> m, partitionSha |-> h, status |-> st, statusSha |-> sh,
              bound |-> b, blocked |-> now, existed |-> ex]
  OBVIOUS

LEMMA ReadStatusKeeps ==
  ASSUME SnapshotInv, NEW p \in Commands, ReadStatus(p)
  PROVE  SnapshotInv'
<1> PICK m \in Manifests \cup {Nothing}, h \in Manifests \cup {Nothing},
         st \in Statuses \cup {Nothing}, sh \in Statuses \cup {Nothing},
         b \in Seq(Nat), bl \in BOOLEAN, ex \in BOOLEAN :
           seen[p] = [partition |-> m, partitionSha |-> h, status |-> st, statusSha |-> sh,
                      bound |-> b, blocked |-> bl, existed |-> ex]
  BY SeenFields
<1>0. PICK stat \in Statuses : stat = status
  BY DEF SnapshotInv, AutoTyped
<1>1. /\ pc[p] = "status" /\ pc' = [pc EXCEPT ![p] = "status_sha"]
      /\ UNCHANGED autoVars /\ UNCHANGED <<temp, snap>>
  BY DEF ReadStatus, Goto, Commandless
<1>2. m \in Manifests /\ h \in Manifests /\ b = <<>> /\ (bl \/ m.ready) /\ manifest \in Manifests
  BY <1>1, CommandOf DEF Reads, SnapshotInv, ManifestThere
<1>3. PICK now \in BOOLEAN : /\ bl => now
                             /\ seen' = [seen EXCEPT ![p].status = stat, ![p].blocked = now]
  <2> DEFINE cond == status.state \notin Terminal \/ status.partition # seen[p].partition
  <2>1. seen' = [seen EXCEPT ![p].status = status, ![p].blocked = @ \/ cond]
    BY DEF ReadStatus
  <2> HIDE DEF cond
  <2>4. PICK now \in BOOLEAN : now = (seen[p].blocked \/ cond)
    BY Zenon
  <2>5. seen[p].blocked = bl
    OBVIOUS
  <2>6. bl => now
    BY <2>4, <2>5
  <2>7. [seen EXCEPT ![p].status = status] = [seen EXCEPT ![p] = [seen[p] EXCEPT !.status = status]]
    OBVIOUS
  <2>8. [seen EXCEPT ![p].status = status][p].blocked = seen[p].blocked
    <3>1. seen \in [Commands -> Seen]
      BY DEF SnapshotInv, CommandsTyped
    <3> QED
      BY <3>1, <2>7
  <2>9. seen' = [seen EXCEPT ![p].status = stat, ![p].blocked = now]
    BY <2>1, <2>4, <2>8, <1>0
  <2> QED
    BY <2>6, <2>9
<1> DEFINE s == [partition |-> m, partitionSha |-> h, status |-> stat, statusSha |-> sh,
                 bound |-> b, blocked |-> now, existed |-> ex]
<1>4. s \in Seen
  BY DEF Seen
<1>5. seen' = [seen EXCEPT ![p] = s]
  <2>0. DOMAIN seen = Commands
    BY DEF SnapshotInv, CommandsTyped
  <2> DEFINE mid == [partition |-> m, partitionSha |-> h, status |-> stat, statusSha |-> sh,
                     bound |-> b, blocked |-> bl, existed |-> ex]
  <2>1. [seen[p] EXCEPT !.status = stat] = mid
    OBVIOUS
  <2>3. [mid EXCEPT !.blocked = now] = s
    BY SetBlocked
  <2>2. seen' = [seen EXCEPT ![p] = [[seen[p] EXCEPT !.status = stat] EXCEPT !.blocked = now]]
    BY <1>3, <2>0
  <2> QED
    BY <2>1, <2>2, <2>3
<1>6. Reads("status_sha", s, temp[p]) /\ "status_sha" \in CommandPlaces
  BY <1>2, <1>3 DEF Reads, CommandPlaces
<1> QED
  BY <1>1, <1>2, <1>4, <1>5, <1>6, ReadingStep

LEMMA HashStatusKeeps ==
  ASSUME SnapshotInv, NEW p \in Commands, HashStatus(p)
  PROVE  SnapshotInv'
<1>0. status \in Statuses
  BY DEF SnapshotInv, AutoTyped
<1> PICK m \in Manifests \cup {Nothing}, h \in Manifests \cup {Nothing},
         st \in Statuses \cup {Nothing}, sh \in Statuses \cup {Nothing},
         b \in Seq(Nat), bl \in BOOLEAN, ex \in BOOLEAN :
           seen[p] = [partition |-> m, partitionSha |-> h, status |-> st, statusSha |-> sh,
                      bound |-> b, blocked |-> bl, existed |-> ex]
  BY SeenFields
<1> DEFINE s == [partition |-> m, partitionSha |-> h, status |-> st, statusSha |-> status,
                 bound |-> b, blocked |-> bl, existed |-> ex]
<1>1. s \in Seen
  BY <1>0 DEF Seen
<1>2. /\ pc[p] = "status_sha" /\ pc' = [pc EXCEPT ![p] = "gold"]
      /\ UNCHANGED autoVars /\ UNCHANGED <<temp, snap>>
  BY DEF HashStatus, Goto, Commandless
<1>3. m \in Manifests /\ h \in Manifests /\ b = <<>> /\ (bl \/ m.ready) /\ manifest \in Manifests
  BY <1>2, CommandOf DEF Reads, SnapshotInv, ManifestThere
<1>4. seen' = [seen EXCEPT ![p] = s]
  <2>1. [seen[p] EXCEPT !["statusSha"] = status] = s
    OBVIOUS
  <2>2. seen' = [seen EXCEPT ![p] = [@ EXCEPT !["statusSha"] = status]]
    BY DEF HashStatus, Saw
  <2> QED
    BY <2>1, <2>2
<1>5. Reads("gold", s, temp[p]) /\ "gold" \in CommandPlaces
  <2>1. Len(b) = 0 /\ Len(Gold) \in Nat
    BY <1>3, SnapshotAssumption
  <2> QED
    BY <1>3, <2>1 DEF Reads, CommandPlaces
<1> QED
  BY <1>1, <1>2, <1>3, <1>4, <1>5, ReadingStep

LEMMA AppendFacts ==
  ASSUME NEW s \in Seq(Nat), NEW n \in Nat
  PROVE  /\ Append(s, n) \in Seq(Nat) /\ Len(Append(s, n)) = Len(s) + 1
         /\ \A i \in 1 .. Len(s) : Append(s, n)[i] = s[i]
         /\ Append(s, n)[Len(s) + 1] = n
  OBVIOUS

LEMMA ReadGoldKeeps ==
  ASSUME SnapshotInv, NEW p \in Commands, ReadGold(p)
  PROVE  SnapshotInv'
<1> PICK m \in Manifests \cup {Nothing}, h \in Manifests \cup {Nothing},
         st \in Statuses \cup {Nothing}, sh \in Statuses \cup {Nothing},
         b \in Seq(Nat), bl \in BOOLEAN, ex \in BOOLEAN :
           seen[p] = [partition |-> m, partitionSha |-> h, status |-> st, statusSha |-> sh,
                      bound |-> b, blocked |-> bl, existed |-> ex]
  BY SeenFields
<1> DEFINE f == Gold[Len(b) + 1]
<1>0. /\ pc[p] = "gold" /\ Len(b) < Len(Gold) /\ UNCHANGED pc
      /\ UNCHANGED autoVars /\ UNCHANGED <<temp, snap>>
      /\ seen' = [seen EXCEPT ![p].bound = Append(@, files[f]),
                              ![p].blocked = @ \/ files[f] # seen[p].partition.declares[f]]
  BY DEF ReadGold, Commandless
<1>1. pc' = [pc EXCEPT ![p] = "gold"]
  BY <1>0 DEF SnapshotInv, CommandsTyped
<1>2. /\ m \in Manifests /\ h \in Manifests /\ (bl \/ m.ready) /\ manifest \in Manifests
      /\ bl \/ \A i \in 1 .. Len(b) : b[i] = m.declares[Gold[i]]
  BY <1>0, CommandOf DEF Reads, SnapshotInv, ManifestThere
<1>3. Len(b) \in Nat /\ Len(Gold) \in Nat
  BY SnapshotAssumption
<1>4. PICK n \in Nat : n = files[f]
  <2>1. Len(b) + 1 \in 1 .. Len(Gold)
    BY <1>0, <1>3
  <2>2. f \in Files
    BY <2>1, CopiedFiles
  <2> QED
    BY <2>2 DEF SnapshotInv, AutoTyped
<1> HIDE DEF f
<1>5. PICK now \in BOOLEAN : /\ now = (bl \/ n # m.declares[f])
  BY Zenon
<1>6. /\ bl => now
      /\ ~ now => n = m.declares[f]
  BY <1>5
<1> DEFINE s == [partition |-> m, partitionSha |-> h, status |-> st, statusSha |-> sh,
                 bound |-> Append(b, n), blocked |-> now, existed |-> ex]
<1>7. s \in Seen
  BY AppendFacts DEF Seen
<1>8. seen' = [seen EXCEPT ![p] = s]
  <2>0. DOMAIN seen = Commands
    BY DEF SnapshotInv, CommandsTyped
  <2>1. [seen EXCEPT ![p].bound = Append(@, files[f])]
          = [seen EXCEPT ![p] = [seen[p] EXCEPT !.bound = Append(b, n)]]
    BY <1>4
  <2>2. [seen EXCEPT ![p].bound = Append(@, files[f])][p].blocked = bl
    BY <2>0, <2>1
  <2>3. seen[p].partition.declares[f] = m.declares[f]
    OBVIOUS
  <2>4. seen' = [[seen EXCEPT ![p].bound = Append(@, files[f])]
                   EXCEPT ![p].blocked = @ \/ n # m.declares[f]]
    BY <1>0, <1>4, <2>3
  <2>5. seen' = [[seen EXCEPT ![p].bound = Append(@, files[f])] EXCEPT ![p].blocked = now]
    BY <2>2, <2>4, <1>5, Zenon
  <2>6. PICK more \in Seq(Nat) : more = Append(b, n)
    BY AppendFacts
  <2> DEFINE mid == [partition |-> m, partitionSha |-> h, status |-> st, statusSha |-> sh,
                     bound |-> more, blocked |-> bl, existed |-> ex]
  <2>7. [seen[p] EXCEPT !.bound = more] = mid
    OBVIOUS
  <2>8. [mid EXCEPT !.blocked = now] = s
    <3>1. s = [partition |-> m, partitionSha |-> h, status |-> st, statusSha |-> sh,
               bound |-> more, blocked |-> now, existed |-> ex]
      BY <2>6
    <3> QED
      BY <3>1, SetBlocked
  <2>9. seen' = [seen EXCEPT ![p] = [[seen[p] EXCEPT !.bound = more] EXCEPT !.blocked = now]]
    BY <2>0, <2>1, <2>5, <2>6
  <2> QED
    BY <2>7, <2>8, <2>9
<1>9. Reads("gold", s, temp[p]) /\ "gold" \in CommandPlaces
  <2>1. Len(Append(b, n)) = Len(b) + 1 /\ Len(b) + 1 <= Len(Gold)
    BY <1>0, <1>3
  <2>2. ASSUME ~ now, NEW i \in 1 .. Len(b) + 1
        PROVE  Append(b, n)[i] = m.declares[Gold[i]]
    <3>1. CASE i = Len(b) + 1
      BY <1>6, <2>2, <3>1, AppendFacts DEF f
    <3>2. CASE i # Len(b) + 1
      <4>1. i \in 1 .. Len(b)
        BY <1>3, <3>2
      <4> QED
        BY <1>2, <1>6, <2>2, <4>1, AppendFacts
    <3> QED
      BY <3>1, <3>2
  <2>3. now \/ m.ready
    BY <1>2, <1>6
  <2>4. s.bound = Append(b, n) /\ s.blocked = now /\ s.partition = m /\ s.partitionSha = h
    OBVIOUS
  <2> QED
    BY <1>2, <2>1, <2>2, <2>3, <2>4 DEF Reads, CommandPlaces
<1>10. UNCHANGED autoVars /\ UNCHANGED <<temp, snap>> /\ manifest \in Manifests
  BY <1>0, <1>2
<1> HIDE DEF s
<1> QED
  BY <1>1, <1>7, <1>8, <1>9, <1>10, ReadingStep

LEMMA DecideKeeps ==
  ASSUME SnapshotInv, NEW p \in Commands, Decide(p)
  PROVE  SnapshotInv'
<1> PICK m \in Manifests \cup {Nothing}, h \in Manifests \cup {Nothing},
         st \in Statuses \cup {Nothing}, sh \in Statuses \cup {Nothing},
         b \in Seq(Nat), bl \in BOOLEAN, ex \in BOOLEAN :
           seen[p] = [partition |-> m, partitionSha |-> h, status |-> st, statusSha |-> sh,
                      bound |-> b, blocked |-> bl, existed |-> ex]
  BY SeenFields
<1>0. /\ pc[p] = "gold" /\ Len(b) = Len(Gold)
      /\ UNCHANGED autoVars /\ UNCHANGED <<temp, snap>>
  BY DEF Decide
<1>1. /\ m \in Manifests /\ h \in Manifests /\ (bl \/ m.ready) /\ manifest \in Manifests
      /\ bl \/ \A i \in 1 .. Len(b) : b[i] = m.declares[Gold[i]]
  BY <1>0, CommandOf DEF Reads, SnapshotInv, ManifestThere
<1>2. CASE seen[p].blocked \/ RawCount[raw] # seen[p].partition.raw
  <2>1. pc' = [pc EXCEPT ![p] = "idle"] /\ seen' = [seen EXCEPT ![p] = NothingSeen]
    BY <1>2 DEF Decide, Goto, Forget
  <2>2. Reads("idle", NothingSeen, temp[p]) /\ "idle" \in CommandPlaces
    BY DEF Reads, CommandPlaces
  <2> QED
    BY <1>0, <2>1, <2>2, NothingSeenIsSeen, ReadingStep
<1>3. CASE ~ (seen[p].blocked \/ RawCount[raw] # seen[p].partition.raw)
  <2> DEFINE there == snap # Nothing
  <2>1. /\ pc' = [pc EXCEPT ![p] = "freeze"]
        /\ seen' = [seen EXCEPT ![p].existed = snap # Nothing,
                                ![p].bound = Append(@, seen[p].partition.declares["task_bank"])]
    BY <1>3 DEF Decide, Goto
  <2>2. PICK exists \in BOOLEAN : exists = (snap # Nothing)
    BY Zenon
  <2>3. PICK n \in Nat : n = seen[p].partition.declares["task_bank"]
    BY <1>1, ManifestsDeclare, CopiedFiles
  <2>4. PICK more \in Seq(Nat) : more = Append(b, n)
    BY AppendFacts
  <2> DEFINE mid == [partition |-> m, partitionSha |-> h, status |-> st, statusSha |-> sh,
                     bound |-> b, blocked |-> bl, existed |-> exists]
             s == [partition |-> m, partitionSha |-> h, status |-> st, statusSha |-> sh,
                   bound |-> more, blocked |-> bl, existed |-> exists]
  <2>5. seen' = [seen EXCEPT ![p] = s]
    <3>0. DOMAIN seen = Commands
      BY DEF SnapshotInv, CommandsTyped
    <3>1. [seen[p] EXCEPT !.existed = exists] = mid /\ [mid EXCEPT !.bound = more] = s
      OBVIOUS
    <3>2. [seen EXCEPT ![p].existed = exists] = [seen EXCEPT ![p] = mid]
      BY <3>1
    <3>3. [seen EXCEPT ![p].existed = exists][p].bound = b
      BY <3>0, <3>2
    <3>4. seen' = [[seen EXCEPT ![p].existed = exists] EXCEPT ![p].bound = Append(@, n)]
      BY <2>1, <2>2, <2>3
    <3>5. seen' = [[seen EXCEPT ![p].existed = exists] EXCEPT ![p].bound = more]
      BY <3>3, <3>4, <2>4
    <3>6. seen' = [seen EXCEPT ![p] = [mid EXCEPT !.bound = more]]
      BY <3>0, <3>2, <3>5
    <3> QED
      BY <3>1, <3>6
  <2>6. s \in Seen
    BY DEF Seen
  <2>7. bl = FALSE
    BY <1>3
  <2>8. more = DeclaredBy(m)
    <3>1. /\ DeclaredBy(m) \in Seq(Nat) /\ Len(DeclaredBy(m)) = Len(Gold) + 1
          /\ \A i \in 1 .. Len(Gold) + 1 : DeclaredBy(m)[i] = m.declares[Copied[i]]
      BY <1>1, DeclaredByIsSeq, CopiedFiles
    <3>2. /\ Len(more) = Len(Gold) + 1
          /\ \A i \in 1 .. Len(Gold) : more[i] = m.declares[Gold[i]]
          /\ more[Len(Gold) + 1] = m.declares["task_bank"]
      BY <1>0, <1>1, <2>3, <2>4, <2>7, AppendFacts
    <3>3. ASSUME NEW i \in 1 .. Len(Gold) + 1 PROVE more[i] = m.declares[Copied[i]]
      <4>1. Len(Gold) \in Nat
        BY SnapshotAssumption
      <4>2. i \in 1 .. Len(Gold) \/ i = Len(Gold) + 1
        BY <4>1
      <4> QED
        BY <3>2, <4>2, CopiedFiles
    <3> QED
      BY <3>1, <3>2, <3>3, SameElements
  <2>9. Reads("freeze", s, temp[p]) /\ "freeze" \in CommandPlaces
    BY <1>1, <2>7, <2>8 DEF Reads, CommandPlaces
  <2> HIDE DEF s
  <2> QED
    BY <1>0, <1>1, <2>1, <2>5, <2>6, <2>9, ReadingStep
<1> QED
  BY <1>2, <1>3

-------------------------------------------------------------------------------
\* A command that ends, with or without a snapshot: it has forgotten what it read.
LEMMA EndStep ==
  ASSUME SnapshotInv, NEW p \in Commands, UNCHANGED autoVars,
         pc' = [pc EXCEPT ![p] = "idle"], seen' = [seen EXCEPT ![p] = NothingSeen],
         temp' = [temp EXCEPT ![p] = Nothing], SnapshotTyped', SnapshotIsOnePartition'
  PROVE  SnapshotInv'
<1>1. Reads("idle", NothingSeen, Nothing) /\ "idle" \in CommandPlaces
  BY DEF Reads, CommandPlaces
<1>2. CommandsTyped' /\ CommandsRead' /\ ManifestThere'
  <2>1. PICK t \in Seq(Nat) \cup {Nothing} : t = Nothing
    OBVIOUS
  <2>2. manifest' = manifest
    BY DEF autoVars
  <2> QED
    BY <1>1, <2>1, <2>2, NothingSeenIsSeen, CommandStep
<1>3. AutoTyped'
  BY DEF SnapshotInv, AutoTyped, autoVars
<1> QED
  BY <1>2, <1>3 DEF SnapshotInv

LEMMA SameSnapshot ==
  ASSUME SnapshotInv, snap' = snap
  PROVE  SnapshotTyped' /\ SnapshotIsOnePartition'
  BY DEF SnapshotInv, SnapshotTyped, SnapshotIsOnePartition

LEMMA FailKeeps ==
  ASSUME SnapshotInv, NEW p \in Commands, Fail(p), UNCHANGED autoVars
  PROVE  SnapshotInv'
  BY SameSnapshot, EndStep DEF Fail, Goto, Forget

LEMMA UseExistingKeeps ==
  ASSUME SnapshotInv, NEW p \in Commands, UseExisting(p), UNCHANGED autoVars
  PROVE  SnapshotInv'
  BY SameSnapshot, EndStep DEF UseExisting, Succeed, Fail, Goto, Forget

LEMMA KillCommandKeeps ==
  ASSUME SnapshotInv, NEW p \in Commands, KillCommand(p)
  PROVE  SnapshotInv'
  BY SameSnapshot, EndStep DEF KillCommand, Goto, Forget

\* A step of _freeze that goes on: what was read stays, the copy grows.
LEMMA FreezeStep ==
  ASSUME SnapshotInv, NEW p \in Commands, pc[p] # "idle", NEW spot \in CommandPlaces,
         NEW t \in Seq(Nat) \cup {Nothing}, Reads(spot, seen[p], t),
         pc' = [pc EXCEPT ![p] = spot], temp' = [temp EXCEPT ![p] = t],
         UNCHANGED autoVars, UNCHANGED <<seen, snap>>
  PROVE  SnapshotInv'
<1>1. PICK s \in Seen : s = seen[p] /\ seen' = [seen EXCEPT ![p] = s]
  <2>1. seen[p] \in Seen /\ seen' = [seen EXCEPT ![p] = seen[p]]
    BY DEF SnapshotInv, CommandsTyped
  <2> QED
    BY <2>1
<1>2. manifest \in Manifests /\ manifest' = manifest
  BY DEF SnapshotInv, ManifestThere, autoVars
<1>3. CommandsTyped' /\ CommandsRead' /\ ManifestThere'
  BY <1>1, <1>2, CommandStep
<1>4. AutoTyped'
  BY DEF SnapshotInv, AutoTyped, autoVars
<1> QED
  BY <1>3, <1>4, SameSnapshot DEF SnapshotInv

LEMMA BeginFreezeKeeps ==
  ASSUME SnapshotInv, NEW p \in Commands, BeginFreeze(p)
  PROVE  SnapshotInv'
<1>1. CASE snap # Nothing
  BY <1>1, UseExistingKeeps DEF BeginFreeze
<1>2. CASE snap = Nothing
  <2>1. /\ pc[p] = "freeze" /\ pc' = [pc EXCEPT ![p] = "copy"]
        /\ temp' = [temp EXCEPT ![p] = <<>>]
        /\ UNCHANGED autoVars /\ UNCHANGED <<seen, snap>>
    BY <1>2 DEF BeginFreeze, Goto
  <2>2. Reads("copy", seen[p], <<>>) /\ "copy" \in CommandPlaces
    <3>1. <<>> \in Seq(Nat) /\ Len(<<>>) = 0 /\ Len(Copied) \in Nat
      BY CopiedFiles
    <3> QED
      BY <2>1, <3>1, CommandOf DEF Reads, CommandPlaces
  <2>3. <<>> \in Seq(Nat)
    OBVIOUS
  <2> QED
    BY <2>1, <2>2, <2>3, FreezeStep
<1> QED
  BY <1>1, <1>2

LEMMA CopyFileKeeps ==
  ASSUME SnapshotInv, NEW p \in Commands, CopyFile(p)
  PROVE  SnapshotInv'
<1>0. /\ pc[p] = "copy" /\ Len(temp[p]) < Len(Copied) /\ UNCHANGED autoVars
      /\ seen[p].partition.ready /\ seen[p].bound = DeclaredBy(seen[p].partition)
      /\ seen[p].partition \in Manifests
      /\ temp[p] \in Seq(Nat)
      /\ \A i \in 1 .. Len(temp[p]) : temp[p][i] = seen[p].bound[i]
  BY CommandOf DEF CopyFile, Reads
<1> DEFINE f == Copied[Len(temp[p]) + 1]
<1>9. pc[p] # "idle"
  BY <1>0
<1>1. CASE files[f] = seen[p].bound[Len(temp[p]) + 1]
  <2>1. /\ temp' = [temp EXCEPT ![p] = Append(temp[p], files[f])]
        /\ UNCHANGED <<pc, seen, snap>>
    BY <1>1 DEF CopyFile
  <2>2. PICK n \in Nat : n = files[f]
    <3>1. Len(temp[p]) + 1 \in 1 .. Len(Copied) /\ Copied \in Seq(Files)
      BY <1>0, CopiedFiles
    <3> QED
      BY <3>1 DEF SnapshotInv, AutoTyped
  <2>3. PICK t \in Seq(Nat) : t = Append(temp[p], n)
    BY <1>0, AppendFacts
  <2>4. Reads("copy", seen[p], t) /\ "copy" \in CommandPlaces
    <3>1. /\ Len(t) = Len(temp[p]) + 1 /\ Len(temp[p]) \in Nat /\ Len(Copied) \in Nat
          /\ \A i \in 1 .. Len(temp[p]) : t[i] = temp[p][i]
          /\ t[Len(temp[p]) + 1] = n
      BY <1>0, <2>3, AppendFacts, CopiedFiles
    <3>2. Len(t) <= Len(Copied)
      BY <1>0, <3>1
    <3>3. ASSUME NEW i \in 1 .. Len(t) PROVE t[i] = seen[p].bound[i]
      <4>1. i \in 1 .. Len(temp[p]) \/ i = Len(temp[p]) + 1
        BY <3>1
      <4> QED
        BY <1>0, <1>1, <2>2, <3>1, <4>1
    <3> QED
      BY <1>0, <3>2, <3>3, CommandOf DEF Reads, CommandPlaces
  <2>5. pc' = [pc EXCEPT ![p] = "copy"]
    BY <1>0, <2>1 DEF SnapshotInv, CommandsTyped
  <2>6. temp' = [temp EXCEPT ![p] = t]
    BY <2>1, <2>2, <2>3
  <2>7. t \in Seq(Nat) \cup {Nothing} /\ UNCHANGED autoVars /\ UNCHANGED <<seen, snap>>
    BY <1>0, <2>1
  <2> QED
    BY <1>9, <2>4, <2>5, <2>6, <2>7, FreezeStep
<1>2. CASE files[f] # seen[p].bound[Len(temp[p]) + 1]
  BY <1>0, <1>2, FailKeeps DEF CopyFile
<1> QED
  BY <1>1, <1>2

LEMMA RecheckSourcesKeeps ==
  ASSUME SnapshotInv, NEW p \in Commands, RecheckSources(p)
  PROVE  SnapshotInv'
<1> DEFINE same == /\ manifest = seen[p].partitionSha
                   /\ status = seen[p].statusSha
                   /\ \A i \in DOMAIN Copied : files[Copied[i]] = seen[p].bound[i]
<1>0. /\ pc[p] = "copy" /\ Len(temp[p]) = Len(Copied) /\ UNCHANGED autoVars
      /\ seen[p].partition.ready /\ seen[p].bound = DeclaredBy(seen[p].partition)
      /\ seen[p].partition \in Manifests /\ seen[p].partitionSha \in Manifests
      /\ temp[p] \in Seq(Nat)
      /\ \A i \in 1 .. Len(temp[p]) : temp[p][i] = seen[p].bound[i]
  BY CommandOf DEF RecheckSources, Reads
<1>1. CASE same
  <2>1. pc' = [pc EXCEPT ![p] = "publish"] /\ UNCHANGED <<temp, snap, seen>>
    BY <1>1 DEF RecheckSources, Goto
  <2>2. PICK t \in Seq(Nat) : t = temp[p]
    BY <1>0
  <2>3. temp' = [temp EXCEPT ![p] = t]
    BY <2>1, <2>2 DEF SnapshotInv, CommandsTyped
  <2>4. t = seen[p].bound
    <3>1. PICK d \in Seq(Nat) : d = seen[p].bound /\ Len(d) = Len(Copied)
      BY <1>0, DeclaredByIsSeq
    <3>2. Len(t) = Len(d) /\ \A i \in 1 .. Len(t) : t[i] = d[i]
      BY <1>0, <2>2, <3>1
    <3> QED
      BY <3>1, <3>2, SameElements
  <2>5. Reads("publish", seen[p], t) /\ "publish" \in CommandPlaces
    BY <1>0, <2>4 DEF Reads, CommandPlaces
  <2> QED
    BY <1>0, <2>1, <2>3, <2>5, FreezeStep
<1>2. CASE ~ same
  BY <1>0, <1>2, FailKeeps DEF RecheckSources
<1> QED
  BY <1>1, <1>2

LEMMA PublishKeeps ==
  ASSUME SnapshotInv, NEW p \in Commands, Publish(p)
  PROVE  SnapshotInv'
<1>0. UNCHANGED autoVars
  BY DEF Publish
<1>1. CASE snap = Nothing
  <2> DEFINE directory == [source |-> seen[p].partitionSha, lists |-> temp[p],
                           copies |-> temp[p], gates |-> seen[p].partition]
  <2>1. /\ snap' = directory /\ temp' = [temp EXCEPT ![p] = Nothing]
        /\ pc' = [pc EXCEPT ![p] = "idle"] /\ seen' = [seen EXCEPT ![p] = NothingSeen]
    BY <1>1 DEF Publish, Succeed, Goto, Forget
  <2>2. /\ pc[p] = "publish" /\ temp[p] = seen[p].bound
        /\ seen[p].partition.ready /\ seen[p].bound = DeclaredBy(seen[p].partition)
        /\ seen[p].partition \in Manifests /\ seen[p].partitionSha \in Manifests
    BY CommandOf DEF Publish, Reads
  <2>3. directory \in Directories
    BY <2>2, DeclaredByIsSeq DEF Directories
  <2>4. SnapshotTyped'
    BY <2>1, <2>3 DEF SnapshotTyped
  <2>5. PICK c \in ReadyOnes : seen[p].partition = ManifestOf(c)
    BY <2>2, ManifestsDeclare
  <2>6. temp[p] = [i \in DOMAIN Copied |-> Bytes[c][Copied[i]]]
    BY <2>2, <2>5 DEF DeclaredBy, ManifestOf
  <2>7. SnapshotIsOnePartition'
    <3>1. snap'.gates = ManifestOf(c) /\ snap'.lists = [i \in DOMAIN Copied |-> Bytes[c][Copied[i]]]
      BY <2>1, <2>5, <2>6
    <3> QED
      BY <3>1 DEF SnapshotIsOnePartition
  <2> QED
    BY <1>0, <2>1, <2>4, <2>7, EndStep
<1>2. CASE snap # Nothing
  BY <1>0, <1>2, UseExistingKeeps, FailKeeps DEF Publish
<1> QED
  BY <1>1, <1>2

-------------------------------------------------------------------------------
LEMMA SnapshotInductive == SnapshotInv /\ [SnapshotNext]_snapshotVars => SnapshotInv'
<1> SUFFICES ASSUME SnapshotInv, [SnapshotNext]_snapshotVars PROVE SnapshotInv'
  OBVIOUS
<1>1. CASE Collect \/ BeginPartition \/ WriteFile \/ WriteManifest \/ SaveStatus
             \/ CrashPartition \/ NewEpoch
  BY <1>1, AutomationKeeps
<1>2. CASE Tamper
  BY <1>2, TamperKeeps
<1>3. ASSUME NEW p \in Commands,
             \/ Start(p) \/ HashManifest(p) \/ CheckSidecars(p) \/ ReadStatus(p) \/ HashStatus(p)
             \/ ReadGold(p) \/ Decide(p) \/ BeginFreeze(p) \/ CopyFile(p) \/ RecheckSources(p)
             \/ Publish(p) \/ KillCommand(p)
      PROVE  SnapshotInv'
  BY <1>3, StartKeeps, HashManifestKeeps, CheckSidecarsKeeps, ReadStatusKeeps, HashStatusKeeps,
     ReadGoldKeeps, DecideKeeps, BeginFreezeKeeps, CopyFileKeeps, RecheckSourcesKeeps,
     PublishKeeps, KillCommandKeeps
<1>4. CASE UNCHANGED snapshotVars
  BY <1>4 DEF snapshotVars, SnapshotInv, AutoTyped, CommandsTyped, CommandsRead, Reads, SnapshotTyped,
     SnapshotIsOnePartition, ManifestThere
<1> QED
  BY <1>1, <1>2, <1>3, <1>4 DEF SnapshotNext

\* snapshot.py: whatever the automation rewrites while a command reads, what _freeze renames into
\* place is one partition of a ready collection, whole: the manifest whose gates were evaluated
\* and exactly the files that it declares.
THEOREM SnapshotIsSound == SnapshotSpec => []SnapshotIsOnePartition
<1>1. SnapshotInv => SnapshotIsOnePartition
  BY DEF SnapshotInv
<1> QED
  BY SnapshotInitInv, SnapshotInductive, <1>1, PTL DEF SnapshotSpec

LEMMA NeverReplaced ==
  SnapshotInv /\ [SnapshotNext]_snapshotVars =>
    [snap # Nothing => snap' # Nothing /\ snap'.lists = snap.lists /\ snap'.source = snap.source]_snapshotVars
<1> SUFFICES ASSUME SnapshotInv, SnapshotNext, snap # Nothing
             PROVE  snap' # Nothing /\ snap'.lists = snap.lists /\ snap'.source = snap.source
  OBVIOUS
<1>1. CASE Tamper
  <2>1. PICK so \in Manifests, li \in Seq(Nat), co \in Seq(Nat), ga \in Manifests :
          snap = [source |-> so, lists |-> li, copies |-> co, gates |-> ga]
    BY DEF SnapshotInv, SnapshotTyped, Directories
  <2>2. snap' = [source |-> so, lists |-> li, copies |-> [co EXCEPT ![1] = 0], gates |-> ga]
    BY <1>1, <2>1 DEF Tamper
  <2>3. co \in Seq(Nat) => [co EXCEPT ![1] = 0] \in Seq(Nat)
    BY ChangedIsSeq
  <2>4. snap' \in Directories
    BY <2>2, <2>3 DEF Directories
  <2> QED
    BY <2>1, <2>2, <2>4, SnapshotAssumption
<1>2. CASE snap' = snap
  BY <1>2
<1>3. ~ Tamper => snap' = snap
  BY DEF SnapshotNext, Collect, BeginPartition, WriteFile, WriteManifest, SaveStatus, CrashPartition,
     NewEpoch, Start, HashManifest, CheckSidecars, ReadStatus, HashStatus, ReadGold, Decide,
     BeginFreeze, CopyFile, RecheckSources, Publish, KillCommand, Commandless, UseExisting,
     Fail
<1> QED
  BY <1>1, <1>2, <1>3

\* snapshot.py: no command that races for the name replaces, merges or removes a published
\* snapshot.
THEOREM SnapshotStays == SnapshotSpec => SnapshotNeverReplaced
  BY SnapshotInitInv, SnapshotInductive, NeverReplaced, PTL DEF SnapshotSpec, SnapshotNeverReplaced

LEMMA ReportIsVerified ==
  ASSUME NEW p \in Commands, Publish(p) \/ BeginFreeze(p),
         report' # report, report'.status \in {"frozen", "already_frozen"}
  PROVE  report'.snapshot = snap' /\ snap'.copies = snap'.lists
<1>1. ~ Fail(p)
  BY DEF Fail
<1>2. CASE UseExisting(p)
  BY <1>1, <1>2 DEF UseExisting, VerifyFrozen, Succeed
<1>3. CASE ~ UseExisting(p)
  <2>1. Publish(p) /\ snap = Nothing
    BY <1>1, <1>3 DEF Publish, BeginFreeze
  <2> QED
    BY <2>1 DEF Publish, Succeed
<1> QED
  BY <1>2, <1>3

\* snapshot.py: a command reports success only of the snapshot that is there, and only when it has
\* written every file of it or has verified every file against the snapshot's own list.
THEOREM SuccessfulCommandVerified == SnapshotSpec => SuccessIsVerified
<1>1. [SnapshotNext]_snapshotVars =>
        [\A p \in Commands :
           Publish(p) \/ BeginFreeze(p) =>
             (report' # report /\ report'.status \in {"frozen", "already_frozen"} =>
                report'.snapshot = snap' /\ snap'.copies = snap'.lists)]_snapshotVars
  BY ReportIsVerified
<1> QED
  BY <1>1, PTL DEF SnapshotSpec, SuccessIsVerified

-------------------------------------------------------------------------------
(* The merge of shards and the partition: every set of mergers, every input,  *)
(* every relation of near duplicates.                                         *)

MergePlaces ==
  {"start", "lock", "check", "write", "rename", "cleanup", "dry_run", "refused", "killed", "done",
   "unused"}

\* Where a command holds the lock, and where it goes on with what it audited.
Holding == {"check", "write", "rename", "cleanup"}
Auditing == Holding \cup {"lock"}

AuditOf(dirs) == [seeds |-> AllSeeds(dirs), rows |-> AllRows(dirs)]

\* The rows of one directory.
Collected(rows) == IsFiniteSet(rows) /\ \A r \in rows : RowLoaded(r)

MergeTyped ==
  /\ sources \in Inputs /\ setting \in Settings
  /\ place \in [Mergers -> MergePlaces]
  /\ audited \in [Mergers -> {Missing, AuditOf(sources)}]
  /\ staging \in [Mergers -> (SUBSET TargetFiles) \cup {Missing}]
  /\ published \in Mergers \cup {Missing}
  /\ target \in {Missing, Foreign, Merged(sources)}

\* The lock file stands for the one command between taking and releasing it.
LockHeld == \A m \in Mergers : place[m] \in Holding => lock = m

\* A command goes on only with what the audit accepted, and renames only a complete directory.
AuditKept ==
  \A m \in Mergers :
    /\ place[m] \in Auditing => AuditAccepts(sources) /\ audited[m] = AuditOf(sources)
    /\ place[m] = "rename" => staging[m] = TargetFiles

PublishedIsMerged ==
  published # Missing => AuditAccepts(sources) /\ target = Merged(sources)

PartedOnce ==
  parted # Missing =>
    \E rows, seedRows :
      /\ Collected(rows)
      /\ parted = PartitionResult(rows, seedRows, setting.similar, setting.heldout)

MergeInv == MergeTyped /\ LockHeld /\ AuditKept /\ PublishedIsMerged /\ PartedOnce

LEMMA NotMissing ==
  ASSUME NEW dirs \in Inputs
  PROVE  Merged(dirs) # Missing /\ Foreign # Missing /\ Missing \notin Mergers
  BY ShardMergeAssumption

LEMMA ContentLoaded ==
  ASSUME NEW r, RowLoaded(r)
  PROVE  /\ RowLoaded(Content(r))
         /\ \A f \in RowFields \ {"line"} : Content(r)[f] = r[f]
<1>1. Content(r) = [f \in RowFields |-> IF f = "line" THEN 0 ELSE r[f]]
  BY DEF Content, RowLoaded, RowFields
<1> QED
  BY <1>1 DEF RowLoaded, RowFields

\* The values of a function on a finite set.
LEMMA ImageFinite ==
  ASSUME NEW S, IsFiniteSet(S), NEW f
  PROVE  /\ IsFiniteSet({f[x] : x \in S})
         /\ Cardinality({f[x] : x \in S}) <= Cardinality(S)
<1> DEFINE T == {f[x] : x \in S}
           g == [x \in S |-> f[x]]
<1>1. g \in Surjection(S, T)
  BY DEF Surjection
<1> HIDE DEF T, g
<1>2. IsFiniteSet(T) /\ Cardinality(T) <= Cardinality(S)
  BY <1>1, FS_Surjection
<1> QED
  BY <1>2 DEF T

LEMMA SourcesCollected ==
  ASSUME NEW dirs \in Inputs
  PROVE  /\ \A i \in DOMAIN dirs : Collected(dirs[i].rows)
         /\ Collected(AllRows(dirs))
<1>1. /\ IsFiniteSet(DOMAIN dirs)
      /\ \A i \in DOMAIN dirs : Collected(dirs[i].rows)
  BY ShardMergeAssumption DEF Collected
<1> DEFINE RowsOf(i) == {Content(r) : r \in dirs[i].rows}
           All == {RowsOf(i) : i \in DOMAIN dirs}
<1>2. IsFiniteSet(All)
  <2> DEFINE rowsOf == [i \in DOMAIN dirs |-> RowsOf(i)]
  <2>1. All = {rowsOf[i] : i \in DOMAIN dirs}
    OBVIOUS
  <2> HIDE DEF rowsOf, All
  <2> QED
    BY <1>1, <2>1, ImageFinite
<1>3. \A S \in All : IsFiniteSet(S)
  <2>1. ASSUME NEW i \in DOMAIN dirs PROVE IsFiniteSet(RowsOf(i))
    <3>1. IsFiniteSet(dirs[i].rows)
      BY <1>1 DEF Collected
    <3> DEFINE content == [r \in dirs[i].rows |-> Content(r)]
    <3>2. RowsOf(i) = {content[r] : r \in dirs[i].rows}
      OBVIOUS
    <3> HIDE DEF content, RowsOf
    <3> QED
      BY <3>1, <3>2, ImageFinite
  <2> QED
    BY <2>1
<1>4. IsFiniteSet(UNION All)
  <2> HIDE DEF All
  <2> QED
    BY <1>2, <1>3, FS_UNION
<1>5. AllRows(dirs) = UNION All
  BY DEF AllRows
<1>6. ASSUME NEW x \in AllRows(dirs) PROVE RowLoaded(x)
  <2>1. PICK i \in DOMAIN dirs : x \in {Content(r) : r \in dirs[i].rows}
    BY DEF AllRows
  <2>2. PICK r \in dirs[i].rows : x = Content(r)
    BY <2>1
  <2> QED
    BY <1>1, <2>2, ContentLoaded DEF Collected
<1> QED
  BY <1>1, <1>4, <1>5, <1>6 DEF Collected

LEMMA MergeInitInv == MergeInit => MergeInv
<1> SUFFICES ASSUME MergeInit PROVE MergeInv
  OBVIOUS
<1>1. MergeTyped
  BY DEF MergeInit, MergeTyped, MergePlaces
<1>2. LockHeld /\ AuditKept
  BY DEF MergeInit, LockHeld, AuditKept, Holding, Auditing
<1>3. PublishedIsMerged /\ PartedOnce
  BY DEF MergeInit, PublishedIsMerged, PartedOnce
<1> QED
  BY <1>1, <1>2, <1>3 DEF MergeInv

LEMMA AuditKeeps ==
  ASSUME MergeInv, NEW m \in Mergers, Audit(m)
  PROVE  MergeInv'
<1>1. PICK p \in {"refused", "lock", "dry_run"} : place' = [place EXCEPT ![m] = p]
  BY DEF Audit
<1>2. CASE p = "refused"
  <2>1. audited' = audited
    BY <1>1, <1>2 DEF Audit, MergeInv, MergeTyped
  <2> QED
    BY <1>1, <1>2, <2>1 DEF Audit, MergeInv, MergeTyped, LockHeld, AuditKept, PublishedIsMerged,
       PartedOnce, MergePlaces, Holding, Auditing
<1>3. CASE p # "refused"
  <2>1. AuditAccepts(sources) /\ audited' = [audited EXCEPT ![m] = AuditOf(sources)]
    BY <1>1, <1>3 DEF Audit, MergeInv, MergeTyped, AuditOf
  <2> QED
    BY <1>1, <1>3, <2>1 DEF Audit, MergeInv, MergeTyped, LockHeld, AuditKept, PublishedIsMerged,
       PartedOnce, MergePlaces, Holding, Auditing
<1> QED
  BY <1>2, <1>3

LEMMA TakeLockKeeps ==
  ASSUME MergeInv, NEW m \in Mergers, TakeLock(m)
  PROVE  MergeInv'
  BY ShardMergeAssumption DEF TakeLock, MergeInv, MergeTyped, LockHeld, AuditKept,
     PublishedIsMerged, PartedOnce, MergePlaces, Holding, Auditing

LEMMA CheckAndStageKeeps ==
  ASSUME MergeInv, NEW m \in Mergers, CheckAndStage(m)
  PROVE  MergeInv'
  BY DEF CheckAndStage, MergeInv, MergeTyped, LockHeld, AuditKept,
     PublishedIsMerged, PartedOnce, MergePlaces, Holding, Auditing

LEMMA WriteStagedKeeps ==
  ASSUME MergeInv, NEW m \in Mergers, WriteStaged(m)
  PROVE  MergeInv'
<1>1. CASE place' = place
  <2>1. PICK s \in SUBSET TargetFiles : staging' = [staging EXCEPT ![m] = s]
    BY <1>1 DEF WriteStaged, TargetFiles, MergeInv, MergeTyped, MergePlaces
  <2> QED
    BY <1>1, <2>1 DEF WriteStaged, MergeInv, MergeTyped, LockHeld, AuditKept, PublishedIsMerged,
       PartedOnce, MergePlaces, Holding, Auditing
<1>2. CASE place' # place
  <2>1. PICK p \in {"cleanup", "rename"} : place' = [place EXCEPT ![m] = p]
    BY <1>2 DEF WriteStaged
  <2>2. staging[m] = TargetFiles /\ staging' = staging
    BY <1>2 DEF WriteStaged
  <2> QED
    BY <2>1, <2>2 DEF WriteStaged, MergeInv, MergeTyped, LockHeld, AuditKept, PublishedIsMerged,
       PartedOnce, MergePlaces, Holding, Auditing
<1> QED
  BY <1>1, <1>2

LEMMA RenameKeeps ==
  ASSUME MergeInv, NEW m \in Mergers, Rename(m)
  PROVE  MergeInv'
<1>0. AuditAccepts(sources) /\ audited[m] = AuditOf(sources) /\ staging[m] = TargetFiles
  BY DEF Rename, MergeInv, AuditKept, Auditing, Holding
<1>1. CASE target = Missing
  <2>1. target' = Merged(sources)
    BY <1>0, <1>1 DEF Rename, Merged, AuditOf
  <2>2. /\ published' = m /\ staging' = [staging EXCEPT ![m] = Missing]
        /\ place' = [place EXCEPT ![m] = "cleanup"]
        /\ UNCHANGED <<sources, setting, audited, lock, parted>>
    BY <1>1 DEF Rename
  <2>3. MergeTyped'
    BY <2>1, <2>2 DEF MergeInv, MergeTyped, MergePlaces
  <2>4. LockHeld'
    BY <2>2 DEF Rename, MergeInv, MergeTyped, LockHeld, Holding
  <2>5. AuditKept'
    BY <1>0, <2>2 DEF MergeInv, MergeTyped, AuditKept, Holding, Auditing
  <2>6. PublishedIsMerged' /\ PartedOnce'
    BY <1>0, <2>1, <2>2 DEF MergeInv, PublishedIsMerged, PartedOnce
  <2> QED
    BY <2>3, <2>4, <2>5, <2>6 DEF MergeInv
<1>2. CASE target # Missing
  <2>1. /\ UNCHANGED <<target, published, staging, sources, setting, audited, lock, parted>>
        /\ place' = [place EXCEPT ![m] = "cleanup"]
    BY <1>2 DEF Rename
  <2> QED
    BY <1>0, <2>1 DEF Rename, MergeInv, MergeTyped, LockHeld, AuditKept, PublishedIsMerged,
       PartedOnce, MergePlaces, Holding, Auditing
<1> QED
  BY <1>1, <1>2

LEMMA CleanupKeeps ==
  ASSUME MergeInv, NEW m \in Mergers, Cleanup(m)
  PROVE  MergeInv'
<1>1. PICK p \in {"done", "refused"} : place' = [place EXCEPT ![m] = p]
  BY DEF Cleanup
<1>2. MergeTyped'
  BY <1>1 DEF Cleanup, MergeInv, MergeTyped, MergePlaces
<1>3. LockHeld'
  BY <1>1 DEF Cleanup, MergeInv, MergeTyped, LockHeld, Holding
<1>4. AuditKept'
  BY <1>1 DEF Cleanup, MergeInv, MergeTyped, AuditKept, Holding, Auditing
<1>5. PublishedIsMerged' /\ PartedOnce'
  BY DEF Cleanup, MergeInv, PublishedIsMerged, PartedOnce
<1> QED
  BY <1>2, <1>3, <1>4, <1>5 DEF MergeInv

LEMMA KillKeeps ==
  ASSUME MergeInv, NEW m \in Mergers, Kill(m)
  PROVE  MergeInv'
  BY DEF Kill, MergeInv, MergeTyped, LockHeld, AuditKept,
     PublishedIsMerged, PartedOnce, MergePlaces, Holding, Auditing

LEMMA ForeignTargetKeeps ==
  ASSUME MergeInv, ForeignTarget
  PROVE  MergeInv'
<1>1. Merged(sources) # Missing
  BY NotMissing DEF MergeInv, MergeTyped
<1> QED
  BY <1>1 DEF ForeignTarget, MergeInv, MergeTyped, LockHeld, AuditKept, PublishedIsMerged,
     PartedOnce

LEMMA PartitionMergedKeeps ==
  ASSUME MergeInv, PartitionMerged
  PROVE  MergeInv'
<1>1. target.rows = AllRows(sources)
  BY DEF PartitionMerged, MergeInv, PublishedIsMerged, Merged
<1>2. Collected(target.rows)
  BY <1>1, SourcesCollected DEF MergeInv, MergeTyped
<1>3. PartedOnce'
  BY <1>2 DEF PartitionMerged, PartedOnce
<1> QED
  BY <1>3 DEF PartitionMerged, MergeInv, MergeTyped, LockHeld, AuditKept, PublishedIsMerged

LEMMA PartitionSourceKeeps ==
  ASSUME MergeInv, NEW i \in DOMAIN sources, PartitionSource(i)
  PROVE  MergeInv'
<1>1. Collected(sources[i].rows)
  BY SourcesCollected DEF MergeInv, MergeTyped
<1>2. PartedOnce'
  BY <1>1 DEF PartitionSource, PartedOnce
<1> QED
  BY <1>2 DEF PartitionSource, MergeInv, MergeTyped, LockHeld, AuditKept, PublishedIsMerged,
     MergePlaces, Holding, Auditing

LEMMA MergeInductive == MergeInv /\ [MergeNext]_mergeVars => MergeInv'
<1> SUFFICES ASSUME MergeInv, [MergeNext]_mergeVars PROVE MergeInv'
  OBVIOUS
<1>1. CASE UNCHANGED mergeVars
  BY <1>1 DEF mergeVars, MergeInv, MergeTyped, LockHeld, AuditKept, PublishedIsMerged, PartedOnce
<1> QED
  BY <1>1, AuditKeeps, TakeLockKeeps, CheckAndStageKeeps, WriteStagedKeeps, RenameKeeps,
     CleanupKeeps, KillKeeps, ForeignTargetKeeps, PartitionMergedKeeps, PartitionSourceKeeps
  DEF MergeNext

LEMMA MergeInvariant == MergeSpec => []MergeInv
  BY MergeInitInv, MergeInductive, PTL DEF MergeSpec

LEMMA OneHolder ==
  ASSUME LockHeld
  PROVE  Cardinality({m \in Mergers : place[m] \in Holding}) <= 1
<1> DEFINE H == {m \in Mergers : place[m] \in Holding}
<1>1. H \subseteq {lock}
  BY DEF LockHeld
<1>2. IsFiniteSet({lock}) /\ Cardinality({lock}) = 1
  BY FS_Singleton
<1> HIDE DEF H
<1>3. Cardinality(H) <= 1
  BY <1>1, <1>2, FS_Subset
<1> QED
  BY <1>3 DEF H

LEMMA TargetKept ==
  MergeInv /\ MergeInv' /\ [MergeNext]_mergeVars =>
    [/\ target # Missing => target' = target
     /\ Cardinality({m \in Mergers :
                          place'[m] \in {"check", "write", "rename", "cleanup"}}) <= 1]_mergeVars
<1> SUFFICES ASSUME MergeInv, MergeInv', MergeNext
             PROVE  /\ target # Missing => target' = target
                    /\ Cardinality({m \in Mergers :
                         place'[m] \in {"check", "write", "rename", "cleanup"}}) <= 1
  OBVIOUS
<1>1. target # Missing => target' = target
  BY DEF MergeNext, Audit, TakeLock, CheckAndStage, WriteStaged, Rename, Cleanup, Kill,
     ForeignTarget, PartitionMerged, PartitionSource
<1>2. LockHeld'
  BY DEF MergeInv
<1>3. (Cardinality({m \in Mergers : place[m] \in Holding}) <= 1)'
  BY <1>2, OneHolder, PTL
<1> QED
  BY <1>1, <1>3 DEF Holding

\* shard_merge.py: at most one merge is between taking the lock and releasing it, and a target
\* that is there is never replaced.
THEOREM TargetStays == MergeSpec => TargetNeverReplaced
  BY MergeInvariant, TargetKept, PTL DEF MergeSpec, TargetNeverReplaced

-------------------------------------------------------------------------------
ChainFields == {"security", "review", "frontend", "tool", "plan", "toolPlan"}

\* The six rows of a chain and the valid edges between them.
Links(gold, c) ==
  /\ c = [f \in ChainFields |-> c[f]]
  /\ c.security \in OfTask(gold, "security")
  /\ c.review \in Resolved(gold, "review", c.security)
  /\ c.frontend \in Resolved(gold, "frontend", c.review)
  /\ c.tool \in Resolved(gold, "tool_policy", c.frontend)
  /\ c.plan \in Resolved(gold, "plan", c.frontend)
  /\ c.toolPlan \in Resolved(gold, "plan", c.tool)

\* What one step back along an edge makes of a chain.
LEMMA FollowStep ==
  ASSUME NEW gold, NEW chains, NEW from, NEW field, NEW up, NEW c
  PROVE  c \in Follow(gold, chains, from, field, up)
           <=> \E d \in chains : \E u \in Resolved(gold, up, d[from]) : c = [d EXCEPT ![field] = u]
  BY DEF Follow

\* A chain is six rows that valid edges join.
LEMMA ChainLinks ==
  ASSUME NEW gold, NEW c
  PROVE  c \in Chains(gold) <=> Links(gold, c)
<1> DEFINE Row(s, v, f, t, p, q) == [security |-> s, review |-> v, frontend |-> f, tool |-> t,
                                     plan |-> p, toolPlan |-> q]
           Upto1(s) == s \in OfTask(gold, "security")
           Upto2(s, v) == Upto1(s) /\ v \in Resolved(gold, "review", s)
           Upto3(s, v, f) == Upto2(s, v) /\ f \in Resolved(gold, "frontend", v)
           Upto4(s, v, f, t) == Upto3(s, v, f) /\ t \in Resolved(gold, "tool_policy", f)
           Upto5(s, v, f, t, p) == Upto4(s, v, f, t) /\ p \in Resolved(gold, "plan", f)
           Upto6(s, v, f, t, p, q) == Upto5(s, v, f, t, p) /\ q \in Resolved(gold, "plan", t)
           started == {Row(s, Missing, Missing, Missing, Missing, Missing) :
                         s \in OfTask(gold, "security")}
           reviewed == Follow(gold, started, "security", "review", "review")
           built == Follow(gold, reviewed, "review", "frontend", "frontend")
           allowed == Follow(gold, built, "frontend", "tool", "tool_policy")
           planned == Follow(gold, allowed, "frontend", "plan", "plan")
           last == Follow(gold, planned, "tool", "toolPlan", "plan")
<1>0. ASSUME NEW s, NEW v, NEW f, NEW t, NEW p, NEW q
      PROVE  /\ Row(s, v, f, t, p, q)["security"] = s /\ Row(s, v, f, t, p, q)["review"] = v
             /\ Row(s, v, f, t, p, q)["frontend"] = f /\ Row(s, v, f, t, p, q)["tool"] = t
             /\ Row(s, v, f, t, p, q)["plan"] = p /\ Row(s, v, f, t, p, q)["toolPlan"] = q
  OBVIOUS
<1>1. Chains(gold) = last
  BY DEF Chains
<1>2. \A d : d \in started <=>
              \E s : Upto1(s) /\ d = Row(s, Missing, Missing, Missing, Missing, Missing)
  OBVIOUS
<1>3. ASSUME NEW s, NEW v, NEW f, NEW t, NEW p, NEW q, NEW x
      PROVE  [Row(s, v, f, t, p, q) EXCEPT !["review"] = x] = Row(s, x, f, t, p, q)
  OBVIOUS
<1>4. ASSUME NEW s, NEW v, NEW f, NEW t, NEW p, NEW q, NEW x
      PROVE  [Row(s, v, f, t, p, q) EXCEPT !["frontend"] = x] = Row(s, v, x, t, p, q)
  OBVIOUS
<1>5. ASSUME NEW s, NEW v, NEW f, NEW t, NEW p, NEW q, NEW x
      PROVE  [Row(s, v, f, t, p, q) EXCEPT !["tool"] = x] = Row(s, v, f, x, p, q)
  OBVIOUS
<1>6. ASSUME NEW s, NEW v, NEW f, NEW t, NEW p, NEW q, NEW x
      PROVE  [Row(s, v, f, t, p, q) EXCEPT !["plan"] = x] = Row(s, v, f, t, x, q)
  OBVIOUS
<1>7. ASSUME NEW s, NEW v, NEW f, NEW t, NEW p, NEW q, NEW x
      PROVE  [Row(s, v, f, t, p, q) EXCEPT !["toolPlan"] = x] = Row(s, v, f, t, p, x)
  OBVIOUS
<1> HIDE DEF started, Row, Upto1
<1>8. \A d : d \in reviewed <=>
        \E s, v : Upto2(s, v) /\ d = Row(s, v, Missing, Missing, Missing, Missing)
  <2>1. ASSUME NEW d, d \in reviewed
        PROVE  \E s, v : Upto2(s, v) /\ d = Row(s, v, Missing, Missing, Missing, Missing)
    <3>1. PICK e \in started : \E u \in Resolved(gold, "review", e["security"]) :
             d = [e EXCEPT !["review"] = u]
      BY <2>1, FollowStep
    <3>2. PICK s : Upto1(s) /\ e = Row(s, Missing, Missing, Missing, Missing, Missing)
      BY <1>2
    <3> QED
      BY <1>0, <1>3, <3>1, <3>2
  <2>2. ASSUME NEW s, NEW v, Upto2(s, v)
        PROVE  Row(s, v, Missing, Missing, Missing, Missing) \in reviewed
    <3>1. Row(s, Missing, Missing, Missing, Missing, Missing) \in started
      BY <2>2, <1>2
    <3>2. v \in
          Resolved(gold, "review", Row(s, Missing, Missing, Missing, Missing, Missing)["security"])
      BY <1>0, <2>2
    <3>3. Row(s, v, Missing, Missing, Missing, Missing)
          = [Row(s, Missing, Missing, Missing, Missing, Missing) EXCEPT !["review"] = v]
      BY <1>3
    <3> QED
      BY <3>1, <3>2, <3>3, FollowStep
  <2> QED
    BY <2>1, <2>2
<1> HIDE DEF reviewed, Upto2
<1>9. \A d : d \in built <=>
        \E s, v, f : Upto3(s, v, f) /\ d = Row(s, v, f, Missing, Missing, Missing)
  <2>1. ASSUME NEW d, d \in built
        PROVE  \E s, v, f : Upto3(s, v, f) /\ d = Row(s, v, f, Missing, Missing, Missing)
    <3>1. PICK e \in reviewed : \E u \in Resolved(gold, "frontend", e["review"]) :
             d = [e EXCEPT !["frontend"] = u]
      BY <2>1, FollowStep
    <3>2. PICK s, v : Upto2(s, v) /\ e = Row(s, v, Missing, Missing, Missing, Missing)
      BY <1>8
    <3> QED
      BY <1>0, <1>4, <3>1, <3>2
  <2>2. ASSUME NEW s, NEW v, NEW f, Upto3(s, v, f)
        PROVE  Row(s, v, f, Missing, Missing, Missing) \in built
    <3>1. Row(s, v, Missing, Missing, Missing, Missing) \in reviewed
      BY <2>2, <1>8
    <3>2. f \in Resolved(gold, "frontend", Row(s, v, Missing, Missing, Missing, Missing)["review"])
      BY <1>0, <2>2
    <3>3. Row(s, v, f, Missing, Missing, Missing)
          = [Row(s, v, Missing, Missing, Missing, Missing) EXCEPT !["frontend"] = f]
      BY <1>4
    <3> QED
      BY <3>1, <3>2, <3>3, FollowStep
  <2> QED
    BY <2>1, <2>2
<1> HIDE DEF built, Upto3
<1>10. \A d : d \in allowed <=>
        \E s, v, f, t : Upto4(s, v, f, t) /\ d = Row(s, v, f, t, Missing, Missing)
  <2>1. ASSUME NEW d, d \in allowed
        PROVE  \E s, v, f, t : Upto4(s, v, f, t) /\ d = Row(s, v, f, t, Missing, Missing)
    <3>1. PICK e \in built : \E u \in Resolved(gold, "tool_policy", e["frontend"]) :
             d = [e EXCEPT !["tool"] = u]
      BY <2>1, FollowStep
    <3>2. PICK s, v, f : Upto3(s, v, f) /\ e = Row(s, v, f, Missing, Missing, Missing)
      BY <1>9
    <3> QED
      BY <1>0, <1>5, <3>1, <3>2
  <2>2. ASSUME NEW s, NEW v, NEW f, NEW t, Upto4(s, v, f, t)
        PROVE  Row(s, v, f, t, Missing, Missing) \in allowed
    <3>1. Row(s, v, f, Missing, Missing, Missing) \in built
      BY <2>2, <1>9
    <3>2. t \in Resolved(gold, "tool_policy", Row(s, v, f, Missing, Missing, Missing)["frontend"])
      BY <1>0, <2>2
    <3>3. Row(s, v, f, t, Missing, Missing)
          = [Row(s, v, f, Missing, Missing, Missing) EXCEPT !["tool"] = t]
      BY <1>5
    <3> QED
      BY <3>1, <3>2, <3>3, FollowStep
  <2> QED
    BY <2>1, <2>2
<1> HIDE DEF allowed, Upto4
<1>11. \A d : d \in planned <=>
        \E s, v, f, t, p : Upto5(s, v, f, t, p) /\ d = Row(s, v, f, t, p, Missing)
  <2>1. ASSUME NEW d, d \in planned
        PROVE  \E s, v, f, t, p : Upto5(s, v, f, t, p) /\ d = Row(s, v, f, t, p, Missing)
    <3>1. PICK e \in allowed : \E u \in Resolved(gold, "plan", e["frontend"]) :
             d = [e EXCEPT !["plan"] = u]
      BY <2>1, FollowStep
    <3>2. PICK s, v, f, t : Upto4(s, v, f, t) /\ e = Row(s, v, f, t, Missing, Missing)
      BY <1>10
    <3> QED
      BY <1>0, <1>6, <3>1, <3>2
  <2>2. ASSUME NEW s, NEW v, NEW f, NEW t, NEW p, Upto5(s, v, f, t, p)
        PROVE  Row(s, v, f, t, p, Missing) \in planned
    <3>1. Row(s, v, f, t, Missing, Missing) \in allowed
      BY <2>2, <1>10
    <3>2. p \in Resolved(gold, "plan", Row(s, v, f, t, Missing, Missing)["frontend"])
      BY <1>0, <2>2
    <3>3. Row(s, v, f, t, p, Missing) = [Row(s, v, f, t, Missing, Missing) EXCEPT !["plan"] = p]
      BY <1>6
    <3> QED
      BY <3>1, <3>2, <3>3, FollowStep
  <2> QED
    BY <2>1, <2>2
<1> HIDE DEF planned, Upto5
<1>12. \A d : d \in last <=>
        \E s, v, f, t, p, q : Upto6(s, v, f, t, p, q) /\ d = Row(s, v, f, t, p, q)
  <2>1. ASSUME NEW d, d \in last
        PROVE  \E s, v, f, t, p, q : Upto6(s, v, f, t, p, q) /\ d = Row(s, v, f, t, p, q)
    <3>1. PICK e \in planned : \E u \in Resolved(gold, "plan", e["tool"]) :
             d = [e EXCEPT !["toolPlan"] = u]
      BY <2>1, FollowStep
    <3>2. PICK s, v, f, t, p : Upto5(s, v, f, t, p) /\ e = Row(s, v, f, t, p, Missing)
      BY <1>11
    <3> QED
      BY <1>0, <1>7, <3>1, <3>2
  <2>2. ASSUME NEW s, NEW v, NEW f, NEW t, NEW p, NEW q, Upto6(s, v, f, t, p, q)
        PROVE  Row(s, v, f, t, p, q) \in last
    <3>1. Row(s, v, f, t, p, Missing) \in planned
      BY <2>2, <1>11
    <3>2. q \in Resolved(gold, "plan", Row(s, v, f, t, p, Missing)["tool"])
      BY <1>0, <2>2
    <3>3. Row(s, v, f, t, p, q) = [Row(s, v, f, t, p, Missing) EXCEPT !["toolPlan"] = q]
      BY <1>7
    <3> QED
      BY <3>1, <3>2, <3>3, FollowStep
  <2> QED
    BY <2>1, <2>2
<1> HIDE DEF last, Upto6
<1>13. ASSUME c \in Chains(gold) PROVE Links(gold, c)
  <2>1. PICK s, v, f, t, p, q : Upto6(s, v, f, t, p, q) /\ c = Row(s, v, f, t, p, q)
    BY <1>1, <1>12, <1>13
  <2>2. c = [g \in ChainFields |-> c[g]]
    BY <2>1 DEF Row, ChainFields
  <2>3. /\ c.security = s /\ c.review = v /\ c.frontend = f /\ c.tool = t /\ c.plan = p
        /\ c.toolPlan = q
    BY <2>1 DEF Row
  <2> QED
    BY <2>1, <2>2, <2>3 DEF Links, Upto6, Upto5, Upto4, Upto3, Upto2, Upto1
<1>14. ASSUME Links(gold, c) PROVE c \in Chains(gold)
  <2>1. c = Row(c.security, c.review, c.frontend, c.tool, c.plan, c.toolPlan)
    BY <1>14 DEF Links, Row, ChainFields
  <2>2. Upto6(c.security, c.review, c.frontend, c.tool, c.plan, c.toolPlan)
    BY <1>14 DEF Links, Upto6, Upto5, Upto4, Upto3, Upto2, Upto1
  <2> QED
    BY <1>1, <1>12, <2>1, <2>2
<1> QED
  BY <1>13, <1>14

\* The partition changes nothing of a row but the mark it repairs.
LEMMA PartitionRecordIs ==
  ASSUME NEW seedRows, NEW r, RowLoaded(r)
  PROVE  LET p == PartitionRecord(seedRows, r)
         IN  /\ RowLoaded(p)
             /\ \A f \in RowFields \ {"marks"} : p[f] = r[f]
             /\ p.marks \subseteq r.marks
             /\ r.marks \subseteq p.marks \cup {"misaligned"}
             /\ CardOf(seedRows, r.seed) = "legacy" => "misaligned" \notin p.marks
<1> DEFINE p == PartitionRecord(seedRows, r)
<1>1. CASE CardOf(seedRows, r.seed) = "legacy"
  <2>1. p = [f \in RowFields |-> IF f = "marks" THEN r.marks \ {"misaligned"} ELSE r[f]]
    BY <1>1 DEF PartitionRecord, RowLoaded, RowFields
  <2> QED
    BY <2>1 DEF RowLoaded, RowFields
<1>2. CASE CardOf(seedRows, r.seed) # "legacy"
  BY <1>2 DEF PartitionRecord
<1> QED
  BY <1>1, <1>2

OneRowPerId(gold) == \A a, b \in gold : a.id = b.id => a = b

\* What a valid edge says, where an id names one row.
LEMMA EdgeOk ==
  ASSUME NEW gold, OneRowPerId(gold), NEW up, NEW row
  PROVE  /\ EdgeCode(gold, up, row) = "ok" =>
              \E u \in OfTask(gold, up) :
                /\ u.id = row.src[up] /\ u.seed = row.seed
                /\ row.seed # Missing /\ row.src[up] # Missing
                /\ "misaligned" \notin row.marks \cup u.marks /\ row.embeds[up] = u.body
                /\ Resolved(gold, up, row) = {u}
         /\ \A u \in Resolved(gold, up, row) :
              /\ EdgeCode(gold, up, row) = "ok"
              /\ u \in gold /\ u.task = up /\ u.id = row.src[up] /\ u.seed = row.seed
              /\ row.seed # Missing /\ row.src[up] # Missing
              /\ "misaligned" \notin row.marks \cup u.marks /\ row.embeds[up] = u.body
<1> DEFINE rows == {u \in OfTask(gold, up) : u.id = row.src[up]}
           source == CHOOSE u \in rows : TRUE
<1>1. ASSUME NEW u \in rows PROVE source = u /\ rows = {u}
  BY DEF OneRowPerId, OfTask
<1>2. EdgeCode(gold, up, row) = "ok" =>
        /\ row.src[up] # Missing /\ rows # {} /\ Missing \notin {row.seed, source.seed}
        /\ row.seed = source.seed
        /\ "misaligned" \notin row.marks \cup source.marks /\ row.embeds[up] = source.body
  BY DEF EdgeCode
<1>3. Resolved(gold, up, row) = {u \in rows : EdgeCode(gold, up, row) = "ok"}
  BY DEF Resolved
<1>4. rows \subseteq OfTask(gold, up) /\ \A u \in rows : u.id = row.src[up]
  OBVIOUS
<1> HIDE DEF rows, source
<1>5. ASSUME NEW u \in rows, EdgeCode(gold, up, row) = "ok"
      PROVE  /\ u \in OfTask(gold, up) /\ u.id = row.src[up] /\ u.seed = row.seed
             /\ row.seed # Missing /\ row.src[up] # Missing
             /\ "misaligned" \notin row.marks \cup u.marks /\ row.embeds[up] = u.body
             /\ Resolved(gold, up, row) = {u}
  BY <1>1, <1>2, <1>3, <1>4, <1>5
<1> QED
  BY <1>2, <1>3, <1>5 DEF OfTask

\* The code of an edge whose source is there, of the same seed and aligned.
LEMMA EdgeCodeOf ==
  ASSUME NEW gold, OneRowPerId(gold), NEW up, NEW row, NEW u \in OfTask(gold, up),
         u.id = row.src[up], row.src[up] # Missing, u.seed = row.seed, row.seed # Missing,
         "misaligned" \notin row.marks \cup u.marks
  PROVE  EdgeCode(gold, up, row)
           = IF row.embeds[up] # u.body THEN "canonical_input_mismatch" ELSE "ok"
<1> DEFINE rows == {x \in OfTask(gold, up) : x.id = row.src[up]}
           source == CHOOSE x \in rows : TRUE
<1>1. u \in rows
  OBVIOUS
<1>2. source = u
  BY <1>1 DEF OneRowPerId, OfTask
<1>3. rows # {}
  BY <1>1
<1>4. EdgeCode(gold, up, row)
        = IF row.src[up] = Missing THEN "missing_source_record_id"
          ELSE IF rows = {} THEN "source_not_strict_gold"
          ELSE IF Missing \in {row.seed, source.seed} THEN "missing_seed_id"
          ELSE IF row.seed # source.seed THEN "seed_id_mismatch"
          ELSE IF "misaligned" \in row.marks \cup source.marks THEN "alignment_id_mismatch"
          ELSE IF row.embeds[up] # source.body THEN "canonical_input_mismatch"
          ELSE "ok"
  BY Zenon DEF EdgeCode
<1> HIDE DEF rows, source
<1> QED
  BY <1>2, <1>3, <1>4

LEMMA EdgeTasks ==
  ASSUME NEW e \in Edges
  PROVE  /\ e[1] \in Upstream(e[2]) /\ e[1] \in Tasks /\ e[2] \in Tasks
         /\ e[2] \in {"tool_policy", "frontend", "review", "security"}
<1>1. e \in {d \in Edges : d[2] = e[2]}
  OBVIOUS
<1>2. e[1] \in Upstream(e[2])
  BY <1>1 DEF Upstream
<1> QED
  BY <1>2 DEF Edges, Tasks

LEMMA UpstreamEdge ==
  ASSUME NEW t, NEW up \in Upstream(t)
  PROVE  <<up, t>> \in Edges
<1>1. PICK d \in Edges : d[2] = t /\ d[1] = up
  BY DEF Upstream
<1>2. d = <<d[1], d[2]>>
  BY DEF Edges
<1> QED
  BY <1>1, <1>2

\* What the audit leaves the partition to find in a merged target.
LEMMA MergedEdges ==
  ASSUME NEW dirs \in Inputs, AuditAccepts(dirs), NEW e \in Edges,
         NEW r \in OfTask(AllRows(dirs), e[2])
  PROVE  LET code == EdgeCode({PartitionRecord(AllSeeds(dirs), x) : x \in AllRows(dirs)}, e[1],
                              PartitionRecord(AllSeeds(dirs), r))
         IN  code # "ok" => code = "canonical_input_mismatch" /\ r.task \in {"review", "security"}
<1> DEFINE seedRows == AllSeeds(dirs)
           rows == AllRows(dirs)
           gold == {PartitionRecord(seedRows, x) : x \in rows}
           p == PartitionRecord(seedRows, r)
           up == e[1]
<1>1. \A x \in rows : RowLoaded(x)
  BY SourcesCollected DEF Collected
<1>2. r \in rows /\ r.task = e[2] /\ up \in Upstream(r.task) /\ up \in Tasks
  BY EdgeTasks DEF OfTask
<1>3. /\ \A a, b \in rows : a.id = b.id => a = b
      /\ RecordValid(r)
      /\ \A x \in rows : CardOf(seedRows, x.seed) # "legacy" => "misaligned" \notin x.marks
      /\ SourceResolves(rows, r, up)
  BY <1>2 DEF AuditAccepts, NoConflict, LineageAudited
<1>4. PICK u \in OfTask(rows, up) :
        /\ u.id = r.src[up] /\ u.seed = r.seed
        /\ r.task \in {"tool_policy", "frontend"} => r.embeds[up] = u.body
  BY <1>3 DEF SourceResolves
<1> DEFINE q == PartitionRecord(seedRows, u)
<1>5. u \in rows /\ u.task = up
  BY <1>4 DEF OfTask
<1>6. /\ p.src = r.src /\ p.seed = r.seed /\ p.embeds = r.embeds
      /\ "misaligned" \notin p.marks
  BY <1>1, <1>2, <1>3, PartitionRecordIs DEF RowFields
<1>7. /\ q.id = u.id /\ q.seed = u.seed /\ q.body = u.body /\ q.task = u.task
      /\ "misaligned" \notin q.marks
  BY <1>1, <1>3, <1>5, PartitionRecordIs DEF RowFields
<1>8. OneRowPerId(gold)
  <2>1. ASSUME NEW x \in rows PROVE PartitionRecord(seedRows, x).id = x.id
    BY <1>1, PartitionRecordIs DEF RowFields
  <2> QED
    BY <1>3, <2>1 DEF OneRowPerId
<1>9. q \in OfTask(gold, up)
  BY <1>5, <1>7 DEF OfTask
<1>10. r.src[up] # Missing /\ r.seed # Missing
  BY <1>2, <1>3 DEF RecordValid
<1> HIDE DEF gold, p, q
<1>11. EdgeCode(gold, up, p)
         = IF p.embeds[up] # q.body THEN "canonical_input_mismatch" ELSE "ok"
  BY <1>4, <1>6, <1>7, <1>8, <1>9, <1>10, EdgeCodeOf
<1>12. EdgeCode(gold, up, p) # "ok" =>
         EdgeCode(gold, up, p) = "canonical_input_mismatch" /\ r.task \in {"review", "security"}
  BY <1>2, <1>4, <1>6, <1>7, <1>11, EdgeTasks
<1> QED
  BY <1>12 DEF gold, p

\* The audit refuses a frontend row and its tool policy that come from two plans.
LEMMA MergedWhole ==
  ASSUME NEW dirs \in Inputs, AuditAccepts(dirs), NEW c \in Chains(AllRows(dirs))
  PROVE  Whole(c)
<1> DEFINE rows == AllRows(dirs)
<1>1. Links(rows, c)
  BY ChainLinks
<1>2. /\ c.frontend \in OfTask(rows, "frontend")
      /\ c.tool \in OfTask(rows, "tool_policy") /\ c.tool.id = c.frontend.src["tool_policy"]
      /\ c.plan.id = c.frontend.src["plan"]
      /\ c.toolPlan.id = c.tool.src["plan"]
  BY <1>1 DEF Links, Resolved
<1>3. c.frontend \in rows /\ c.frontend.task = "frontend"
  BY <1>2 DEF OfTask
<1>4. c.tool.src["plan"] = c.frontend.src["plan"]
  BY <1>2, <1>3 DEF AuditAccepts, LineageAudited
<1> QED
  BY <1>2, <1>4 DEF Whole

LEMMA PublishedSound == MergeInv => PublishedMergeIsSound
<1> SUFFICES ASSUME MergeInv, published # Missing PROVE PublishedMergeIsSound
  BY DEF PublishedMergeIsSound
<1>1. sources \in Inputs /\ AuditAccepts(sources) /\ target = Merged(sources)
  BY DEF MergeInv, MergeTyped, PublishedIsMerged
<1>2. /\ target.files = TargetFiles /\ target.rows = AllRows(sources)
      /\ target.seeds = AllSeeds(sources)
  BY <1>1 DEF Merged
<1>3. \A i \in DOMAIN sources : /\ {Content(r) : r \in sources[i].rows} \subseteq target.rows
                                /\ sources[i].seeds \subseteq target.seeds
  BY <1>2 DEF AllRows, AllSeeds
<1>4. \A r \in target.rows : \E i \in DOMAIN sources : r \in {Content(x) : x \in sources[i].rows}
  BY <1>2 DEF AllRows
<1>5. \A a, b \in target.rows : a.id = b.id \/ (a.task = b.task /\ a.seed = b.seed) => a = b
  BY <1>1, <1>2 DEF AuditAccepts, NoConflict
<1>6. \A e \in Edges : \A r \in OfTask(target.rows, e[2]) :
        LET code == EdgeCode({PartitionRecord(target.seeds, x) : x \in target.rows}, e[1],
                             PartitionRecord(target.seeds, r))
        IN  code # "ok" => code = "canonical_input_mismatch" /\ r.task \in {"review", "security"}
  <2>1. ASSUME NEW rows, NEW seedRows, rows = AllRows(sources), seedRows = AllSeeds(sources),
               NEW e \in Edges, NEW r \in OfTask(rows, e[2])
        PROVE  LET code == EdgeCode({PartitionRecord(seedRows, x) : x \in rows}, e[1],
                                    PartitionRecord(seedRows, r))
               IN  code # "ok" =>
                     code = "canonical_input_mismatch" /\ r.task \in {"review", "security"}
    BY <1>1, <2>1, MergedEdges
  <2> QED
    BY <1>2, <2>1
<1>7. \A c \in Chains(target.rows) : Whole(c)
  BY <1>1, <1>2, MergedWhole
<1> QED
  BY <1>2, <1>3, <1>4, <1>5, <1>6, <1>7, Zenon DEF PublishedMergeIsSound

\* shard_merge.py: whatever is killed, delayed or put in the way, a target that a merge published
\* is complete and is exactly its sources, one row of an id and of a task and seed, with sources
\* that resolve within the seed and without a planner fork.
THEOREM PublishedIsSound == MergeSpec => []PublishedMergeIsSound
  BY MergeInvariant, PublishedSound, PTL

-------------------------------------------------------------------------------
\* Fewer rows, the same rows behind an id: an edge that is valid stays valid while its source does.
LEMMA EdgesOfPart ==
  ASSUME NEW base, OneRowPerId(base), NEW gold \in SUBSET base, NEW up, NEW row, NEW u
  PROVE  u \in Resolved(gold, up, row) <=> u \in gold /\ u \in Resolved(base, up, row)
<1>1. OneRowPerId(gold)
  BY DEF OneRowPerId
<1>2. ASSUME u \in Resolved(gold, up, row) PROVE u \in gold /\ u \in Resolved(base, up, row)
  <2>1. /\ u \in gold /\ u.task = up /\ u.id = row.src[up] /\ u.seed = row.seed
        /\ row.seed # Missing /\ row.src[up] # Missing
        /\ "misaligned" \notin row.marks \cup u.marks /\ row.embeds[up] = u.body
    BY <1>1, <1>2, EdgeOk
  <2>2. u \in OfTask(base, up)
    BY <2>1 DEF OfTask
  <2>3. EdgeCode(base, up, row) = "ok"
    BY <2>1, <2>2, EdgeCodeOf
  <2> QED
    BY <2>1, <2>2, <2>3 DEF Resolved
<1>3. ASSUME u \in gold, u \in Resolved(base, up, row) PROVE u \in Resolved(gold, up, row)
  <2>1. /\ u.task = up /\ u.id = row.src[up] /\ u.seed = row.seed
        /\ row.seed # Missing /\ row.src[up] # Missing
        /\ "misaligned" \notin row.marks \cup u.marks /\ row.embeds[up] = u.body
    BY <1>3, EdgeOk
  <2>2. u \in OfTask(gold, up)
    BY <1>3, <2>1 DEF OfTask
  <2>3. EdgeCode(gold, up, row) = "ok"
    BY <1>1, <2>1, <2>2, EdgeCodeOf
  <2> QED
    BY <2>1, <2>2, <2>3 DEF Resolved
<1> QED
  BY <1>2, <1>3

\* The row of a chain at a stage.
RowOf(c, t) ==
  IF t = "security" THEN c.security ELSE IF t = "review" THEN c.review
  ELSE IF t = "frontend" THEN c.frontend ELSE IF t = "tool_policy" THEN c.tool ELSE c.plan

\* The rows of a chain are gold rows of one seed, none of them misaligned.
LEMMA ChainRows ==
  ASSUME NEW gold, OneRowPerId(gold), NEW c \in Chains(gold)
  PROVE  /\ c.security.seed # Missing
         /\ c.toolPlan \in gold /\ c.toolPlan.seed = c.security.seed
         /\ \A t \in Tasks : /\ RowOf(c, t) \in gold /\ RowOf(c, t).task = t
                             /\ RowOf(c, t).seed = c.security.seed
                             /\ "misaligned" \notin RowOf(c, t).marks
<1>1. Links(gold, c)
  BY ChainLinks
<1>2. /\ c.security \in gold /\ c.security.task = "security"
  BY <1>1 DEF Links, OfTask
<1>3. /\ c.review \in gold /\ c.review.task = "review" /\ c.review.seed = c.security.seed
      /\ c.security.seed # Missing /\ "misaligned" \notin c.security.marks \cup c.review.marks
  BY <1>1, EdgeOk DEF Links
<1>4. /\ c.frontend \in gold /\ c.frontend.task = "frontend" /\ c.frontend.seed = c.review.seed
      /\ "misaligned" \notin c.frontend.marks
  BY <1>1, EdgeOk DEF Links
<1>5. /\ c.tool \in gold /\ c.tool.task = "tool_policy" /\ c.tool.seed = c.frontend.seed
      /\ "misaligned" \notin c.tool.marks
  BY <1>1, EdgeOk DEF Links
<1>6. /\ c.plan \in gold /\ c.plan.task = "plan" /\ c.plan.seed = c.frontend.seed
      /\ "misaligned" \notin c.plan.marks
  BY <1>1, EdgeOk DEF Links
<1>7. c.toolPlan \in gold /\ c.toolPlan.seed = c.tool.seed
  BY <1>1, EdgeOk DEF Links
<1> QED
  BY <1>2, <1>3, <1>4, <1>5, <1>6, <1>7 DEF RowOf, Tasks

\* The chains of fewer rows are the chains whose rows are all there.
LEMMA ChainsOfPart ==
  ASSUME NEW base, OneRowPerId(base), NEW gold \in SUBSET base, NEW c
  PROVE  /\ c \in Chains(gold) => c \in Chains(base)
         /\ c \in Chains(base) /\ (\A t \in Tasks : RowOf(c, t) \in gold) /\ c.toolPlan \in gold =>
              c \in Chains(gold)
<1>1. ASSUME c \in Chains(gold) PROVE c \in Chains(base)
  <2>1. Links(gold, c)
    BY <1>1, ChainLinks
  <2>2. Links(base, c)
    BY <2>1, EdgesOfPart DEF Links, OfTask
  <2> QED
    BY <2>2, ChainLinks
<1>2. ASSUME c \in Chains(base), \A t \in Tasks : RowOf(c, t) \in gold, c.toolPlan \in gold
      PROVE  c \in Chains(gold)
  <2>1. Links(base, c)
    BY <1>2, ChainLinks
  <2>2. /\ c.security \in gold /\ c.review \in gold /\ c.frontend \in gold /\ c.tool \in gold
        /\ c.plan \in gold
    BY <1>2 DEF RowOf, Tasks
  <2>3. Links(gold, c)
    BY <1>2, <2>1, <2>2, EdgesOfPart DEF Links, OfTask
  <2> QED
    BY <2>3, ChainLinks
<1> QED
  BY <1>1, <1>2

LEMMA CompleteIs ==
  ASSUME NEW gold, NEW s
  PROVE  s \in CompleteSeeds(gold) <=> \E c \in Chains(gold) : Whole(c) /\ c.security.seed = s
  BY DEF CompleteSeeds

LEMMA CompleteAreSeeds ==
  ASSUME NEW gold, Collected(gold), OneRowPerId(gold)
  PROVE  CompleteSeeds(gold) \subseteq Seeds /\ IsFiniteSet(CompleteSeeds(gold))
<1>1. ASSUME NEW s \in CompleteSeeds(gold) PROVE s \in Seeds
  <2>1. PICK c \in Chains(gold) : c.security.seed = s
    BY CompleteIs
  <2>2. s # Missing /\ RowOf(c, "security") \in gold /\ RowOf(c, "security").seed = s
    BY <2>1, ChainRows DEF Tasks
  <2> QED
    BY <2>2 DEF Collected, RowLoaded
<1>2. IsFiniteSet(Seeds)
  BY GoldPartitionAssumption
<1> QED
  BY <1>1, <1>2, FS_Subset

\* As many rows per stage as complete seeds: every row stands in a whole chain, and alone at its
\* stage.
LEMMA CountedGold ==
  ASSUME NEW gold, Collected(gold), OneRowPerId(gold),
         \A t \in Tasks : Cardinality(OfTask(gold, t)) = Cardinality(CompleteSeeds(gold))
  PROVE  /\ \A r \in gold : \E c \in Chains(gold) :
              Whole(c) /\ r = RowOf(c, r.task) /\ r.seed = c.security.seed
         /\ \A r, q \in gold : r.task = q.task /\ r.seed = q.seed => r = q
<1> DEFINE chainOf == [s \in CompleteSeeds(gold) |->
                         CHOOSE c \in Chains(gold) : Whole(c) /\ c.security.seed = s]
<1>1. ASSUME NEW s \in CompleteSeeds(gold)
      PROVE  /\ chainOf[s] \in Chains(gold) /\ Whole(chainOf[s])
             /\ chainOf[s].security.seed = s
  <2>1. \E c \in Chains(gold) : Whole(c) /\ c.security.seed = s
    BY CompleteIs
  <2> QED
    BY <2>1
<1> HIDE DEF chainOf
<1>2. ASSUME NEW t \in Tasks, NEW r \in OfTask(gold, t)
      PROVE  r.seed \in CompleteSeeds(gold) /\ r = RowOf(chainOf[r.seed], t)
  <2> DEFINE f == [s \in CompleteSeeds(gold) |-> RowOf(chainOf[s], t)]
  <2>1. \A s \in CompleteSeeds(gold) : f[s] \in OfTask(gold, t) /\ f[s].seed = s
    BY <1>1, ChainRows DEF OfTask
  <2>2. f \in Injection(CompleteSeeds(gold), OfTask(gold, t))
    BY <2>1 DEF Injection, IsInjective
  <2>3. IsFiniteSet(OfTask(gold, t))
    <3>1. OfTask(gold, t) \in SUBSET gold /\ IsFiniteSet(gold)
      BY DEF OfTask, Collected
    <3> QED
      BY <3>1, FS_Subset
  <2>4. Cardinality(OfTask(gold, t)) = Cardinality(CompleteSeeds(gold))
    OBVIOUS
  <2>5. f \in Surjection(CompleteSeeds(gold), OfTask(gold, t))
    <3> HIDE DEF f
    <3> QED
      BY <2>2, <2>3, <2>4, FS_Injection
  <2>6. PICK s \in CompleteSeeds(gold) : r = f[s]
    BY <2>5 DEF Surjection
  <2> QED
    BY <2>1, <2>6
<1>3. ASSUME NEW r \in gold PROVE r.task \in Tasks /\ r \in OfTask(gold, r.task)
  BY DEF Collected, RowLoaded, OfTask
<1> QED
  BY <1>1, <1>2, <1>3

RepresentativesOf(C, similar, reps) ==
  \A n \in C : n \in reps <=> ~ \E r \in reps : r < n /\ {r, n} \in similar

\* There is one way to visit the candidates: some set of representatives answers its definition.
LEMMA RepresentativesExist ==
  ASSUME NEW C \in SUBSET Seeds, NEW similar
  PROVE  /\ Representatives(C, similar) \in SUBSET C
         /\ RepresentativesOf(C, similar, Representatives(C, similar))
<1> DEFINE Good(T) == \E reps \in SUBSET T : RepresentativesOf(T, similar, reps)
           Bad == {T \in FiniteSubsetsOf(Seeds) : ~ Good(T)}
<1>0. Seeds \subseteq Nat /\ IsFiniteSet(Seeds)
  BY GoldPartitionAssumption
<1>1. FiniteSubsetsOf(Seeds) = SUBSET Seeds
  BY <1>0, FS_FiniteSubsetsOfFinite
<1>2. Bad = {}
  <2> SUFFICES ASSUME Bad # {} PROVE FALSE
    OBVIOUS
  <2>1. IsWellFoundedOn(StrictSubsetOrdering(Seeds), FiniteSubsetsOf(Seeds))
    BY FS_StrictSubsetOrderingWellFounded
  <2>2. PICK T \in Bad : \A U \in Bad : <<U, T>> \notin StrictSubsetOrdering(Seeds)
    <3>1. Bad \subseteq FiniteSubsetsOf(Seeds)
      OBVIOUS
    <3> HIDE DEF Bad
    <3> QED
      BY <2>1, <3>1, WFMin
  <2>3. T \in SUBSET Seeds /\ T \in SUBSET Nat
    BY <1>0, <1>1
  <2>4. T # {}
    <3>1. T = {} => RepresentativesOf(T, similar, {})
      BY DEF RepresentativesOf
    <3>2. {} \in SUBSET T
      OBVIOUS
    <3> QED
      BY <3>1, <3>2
  <2>5. PICK m \in T : \A n \in T : m <= n
    <3> DEFINE R == OpToRel(<, Nat)
    <3>1. IsWellFoundedOn(R, Nat)
      BY NatLessThanWellFounded
    <3>2. \A x, y \in Nat : y < x => <<y, x>> \in R
      BY DEF OpToRel
    <3> HIDE DEF R
    <3>3. PICK m \in T : \A n \in T : <<n, m>> \notin R
      BY <2>3, <2>4, <3>1, WFMin
    <3>4. ASSUME NEW n \in T PROVE m <= n
      <4>1. m \in Nat /\ n \in Nat /\ ~ (n < m)
        BY <2>3, <3>2, <3>3
      <4> QED
        BY <4>1
    <3> QED
      BY <3>4
  <2> DEFINE U == {n \in T \ {m} : {m, n} \notin similar}
  <2>6. U \in SUBSET T /\ m \notin U
    OBVIOUS
  <2>7. Good(U)
    <3>1. <<U, T>> \in StrictSubsetOrdering(Seeds)
      BY <2>3, <2>6 DEF StrictSubsetOrdering
    <3>2. U \in FiniteSubsetsOf(Seeds)
      BY <1>1, <2>3, <2>6
    <3> HIDE DEF U, Good
    <3> QED
      BY <2>2, <3>1, <3>2
  <2>8. PICK reps \in SUBSET U : RepresentativesOf(U, similar, reps)
    BY <2>7
  <2>9. ASSUME NEW n \in T
        PROVE  n \in reps \cup {m} <=> ~ \E r \in reps \cup {m} : r < n /\ {r, n} \in similar
    <3>1. m \in Nat /\ n \in Nat /\ m <= n
      BY <2>3, <2>5
    <3>2. ASSUME NEW r \in reps PROVE r \in Nat /\ m < r
      <4>1. r \in T /\ r # m
        BY <2>8
      <4>2. r \in Nat /\ m \in Nat /\ m <= r
        BY <2>3, <2>5, <4>1
      <4> QED
        BY <4>1, <4>2
    <3>3. CASE n = m
      <4>1. ~ \E r \in reps \cup {m} : r < n
        BY <3>1, <3>3, <3>2
      <4> QED
        BY <3>3, <4>1
    <3>4. CASE n # m /\ {m, n} \in similar
      BY <2>8, <3>1, <3>4
    <3>5. CASE n # m /\ {m, n} \notin similar
      <4>1. n \in U
        BY <3>5
      <4>2. n \in reps <=> ~ \E r \in reps : r < n /\ {r, n} \in similar
        BY <2>8, <4>1 DEF RepresentativesOf
      <4> QED
        BY <3>5, <4>2
    <3> QED
      BY <3>3, <3>4, <3>5
  <2>10. RepresentativesOf(T, similar, reps \cup {m})
    BY <2>9 DEF RepresentativesOf
  <2>11. reps \cup {m} \in SUBSET T
    BY <2>6, <2>8
  <2> QED
    BY <2>10, <2>11
<1>3. \E reps \in SUBSET C :
        \A n \in C : n \in reps <=> ~ \E r \in reps : r < n /\ {r, n} \in similar
  BY <1>1, <1>2 DEF RepresentativesOf
<1> QED
  BY <1>3 DEF Representatives, RepresentativesOf

\* No two representatives are near duplicates.
LEMMA RepresentativesDiffer ==
  ASSUME NEW C \in SUBSET Seeds, NEW similar, NEW a \in Representatives(C, similar),
         NEW b \in Representatives(C, similar), a # b
  PROVE  {a, b} \notin similar
<1>1. a \in C /\ b \in C /\ a \in Nat /\ b \in Nat
  BY RepresentativesExist, GoldPartitionAssumption
<1>2. RepresentativesOf(C, similar, Representatives(C, similar))
  BY RepresentativesExist
<1>3. a < b \/ b < a
  BY <1>1
<1>4. {a, b} = {b, a}
  OBVIOUS
<1> QED
  BY <1>1, <1>2, <1>3, <1>4 DEF RepresentativesOf

LEMMA SubsetIds ==
  ASSUME NEW base, OneRowPerId(base), Collected(base), NEW gold \in SUBSET base
  PROVE  OneRowPerId(gold) /\ Collected(gold)
<1>1. IsFiniteSet(gold)
  BY FS_Subset DEF Collected
<1> QED
  BY <1>1 DEF OneRowPerId, Collected

\* What the labels of a row let through.
LEMMA GoldRow ==
  ASSUME NEW rows, NEW seedRows, NEW x \in rows, RowLoaded(x),
         Disposition(rows, seedRows, x) = "gold"
  PROVE  /\ \A y \in rows : y.id = x.id => y = x
         /\ x.marks \cap {"secret_detected", "unsafe_payload", "oracle", "disagrees",
                          "invalid_quality_retry_metadata"} = {}
<1>1. HardLabels(x) = {} /\ QualityLabels(rows, seedRows, x) = {}
  BY DEF Disposition
<1>2. DuplicateLabels(rows, x) = {} /\ OracleLabels(x) = {}
  BY <1>1 DEF QualityLabels
<1>3. ASSUME NEW y \in rows, y.id = x.id, y # x PROVE FALSE
  <2>1. "duplicate_record_id" \in DuplicateLabels(rows, x)
    BY <1>3 DEF DuplicateLabels
  <2> QED
    BY <1>2, <2>1
<1>4. x.marks \cap {"secret_detected", "unsafe_payload", "invalid_quality_retry_metadata"} = {}
  BY <1>1 DEF HardLabels
<1>5. "oracle" \notin x.marks
  <2>1. x.task \in LabelTasks /\ "oracle" \in x.marks =>
          "deterministic_oracle_mismatch" \in OracleLabels(x)
    BY DEF OracleLabels
  <2> QED
    BY <1>2, <2>1 DEF RowLoaded
<1>6. "disagrees" \notin x.marks
  <2>1. ASSUME x.task \in LabelTasks, "disagrees" \in x.marks
        PROVE  OracleLabels(x) # {}
    <3>1. CASE "normalised" \in x.marks /\ "oracle" \notin x.marks
      <4>1. "teacher_label_disagreement_oracle_label_only" \in OracleLabels(x)
        BY <2>1, <3>1 DEF OracleLabels
      <4> QED
        BY <4>1
    <3>2. CASE ~ ("normalised" \in x.marks /\ "oracle" \notin x.marks)
      <4>1. "teacher_label_disagreement" \in OracleLabels(x)
        BY <2>1, <3>2 DEF OracleLabels
      <4> QED
        BY <4>1
    <3> QED
      BY <3>1, <3>2
  <2> QED
    BY <1>2, <2>1 DEF RowLoaded
<1> QED
  BY <1>3, <1>4, <1>5, <1>6

\* The rows without a label: one of an id, with no mark but those the partition repairs or leaves
\* to another stage.
LEMMA BaseIs ==
  ASSUME NEW rows, NEW seedRows, Collected(rows)
  PROVE  /\ Collected(BaseGold(rows, seedRows)) /\ OneRowPerId(BaseGold(rows, seedRows))
         /\ \A r \in BaseGold(rows, seedRows) :
              /\ r.marks \cap {"secret_detected", "unsafe_payload", "oracle", "disagrees",
                               "invalid_quality_retry_metadata"} = {}
              /\ \E x \in rows : r.marks \subseteq x.marks
<1> DEFINE kept == {x \in rows : Disposition(rows, seedRows, x) = "gold"}
           record == [x \in kept |-> PartitionRecord(seedRows, x)]
           base == BaseGold(rows, seedRows)
<1>1. base = {record[x] : x \in kept}
  BY DEF BaseGold
<1>2. ASSUME NEW x \in kept
      PROVE  /\ RowLoaded(record[x]) /\ record[x].id = x.id /\ record[x].marks \subseteq x.marks
             /\ x \in rows /\ \A y \in rows : y.id = x.id => y = x
             /\ x.marks \cap {"secret_detected", "unsafe_payload", "oracle", "disagrees",
                              "invalid_quality_retry_metadata"} = {}
  <2>1. x \in rows /\ RowLoaded(x) /\ Disposition(rows, seedRows, x) = "gold"
    BY DEF Collected
  <2>2. record[x] = PartitionRecord(seedRows, x)
    OBVIOUS
  <2> HIDE DEF kept, record
  <2> QED
    BY <2>1, <2>2, GoldRow, PartitionRecordIs DEF RowFields
<1>3. kept \in SUBSET rows /\ IsFiniteSet(rows)
  BY DEF Collected
<1> HIDE DEF kept, record, base
<1>4. IsFiniteSet(kept)
  BY <1>3, FS_Subset
<1>5. IsFiniteSet(base)
  BY <1>1, <1>4, ImageFinite
<1>6. Collected(base) /\ OneRowPerId(base)
  BY <1>1, <1>2, <1>5 DEF Collected, OneRowPerId
<1>7. \A r \in base : /\ r.marks \cap {"secret_detected", "unsafe_payload", "oracle", "disagrees",
                                      "invalid_quality_retry_metadata"} = {}
                      /\ \E x \in rows : r.marks \subseteq x.marks
  BY <1>1, <1>2
<1> QED
  BY <1>6, <1>7 DEF base

\* The losers and the gold of a partition.
LosersOf(rows, seedRows, similar) == Losers(BaseGold(rows, seedRows), similar)

GoldOf(rows, seedRows, similar) ==
  FinalGold(BaseGold(rows, seedRows), LosersOf(rows, seedRows, similar))

\* The stages short of the minimum.
Shortfalls(counts) == {t \in Tasks : counts[t] < Minimum}

\* The partition of rows that do not parse.
LEMMA ResultBlocked ==
  ASSUME NEW rows, NEW seedRows, NEW similar, NEW enabled, Malformed(rows)
  PROVE  LET m == PartitionResult(rows, seedRows, similar, enabled)
         IN  m.training_ready = FALSE /\ m.losers = {} /\ m.files.staging = {}
  BY DEF PartitionResult, BlockedManifest

\* The partition of rows that parse.
LEMMA ResultIs ==
  ASSUME NEW rows, NEW seedRows, NEW similar, NEW enabled, ~ Malformed(rows)
  PROVE  LET m == PartitionResult(rows, seedRows, similar, enabled)
             gold == GoldOf(rows, seedRows, similar)
         IN  /\ m.files = PartitionFiles(rows, seedRows, similar)
             /\ m.files.gold = gold /\ m.files.staging = rows
             /\ m.files.task_bank = TaskBank(gold, seedRows)
             /\ m.losers = LosersOf(rows, seedRows, similar) /\ m.complete = CompleteSeeds(gold)
             /\ m.raw_by_task = CountByTask(rows) /\ m.gold_by_task = CountByTask(gold)
             /\ m.lineage = Lineage(gold) /\ m.heldout_gate = HeldoutGate(rows, enabled)
             /\ m.coverage_shortfalls = Shortfalls(m.gold_by_task)
<1> DEFINE m == PartitionResult(rows, seedRows, similar, enabled)
           lines == PartitionFiles(rows, seedRows, similar)
           losers == LosersOf(rows, seedRows, similar)
           gold == GoldOf(rows, seedRows, similar)
<1>1. m = Manifest(rows, seedRows, similar, enabled)
  BY DEF PartitionResult
<1>2. /\ lines.gold = gold /\ lines.staging = rows /\ lines.task_bank = TaskBank(gold, seedRows)
  BY DEF PartitionFiles, LosersOf, GoldOf
<1>3. /\ m.files = lines /\ m.losers = losers /\ m.complete = CompleteSeeds(lines.gold)
      /\ m.raw_by_task = CountByTask(rows) /\ m.gold_by_task = CountByTask(lines.gold)
      /\ m.lineage = Lineage(lines.gold) /\ m.heldout_gate = HeldoutGate(rows, enabled)
      /\ m.coverage_shortfalls = Shortfalls(CountByTask(lines.gold))
  <2> HIDE DEF m, lines
  <2> QED
    BY <1>1 DEF Manifest, Shortfalls, lines, LosersOf
<1> HIDE DEF m, lines, losers, gold
<1>4. /\ m.files = lines /\ m.files.gold = gold /\ m.files.staging = rows
      /\ m.files.task_bank = TaskBank(gold, seedRows)
      /\ m.losers = losers /\ m.complete = CompleteSeeds(gold)
      /\ m.raw_by_task = CountByTask(rows) /\ m.gold_by_task = CountByTask(gold)
      /\ m.lineage = Lineage(gold) /\ m.heldout_gate = HeldoutGate(rows, enabled)
      /\ m.coverage_shortfalls = Shortfalls(m.gold_by_task)
  BY <1>2, <1>3
<1> QED
  BY <1>4 DEF m, lines, losers, gold

\* The gates of its manifest.
LEMMA ResultGates ==
  ASSUME NEW rows, NEW seedRows, NEW similar, NEW enabled, ~ Malformed(rows)
  PROVE  LET m == PartitionResult(rows, seedRows, similar, enabled)
             gold == GoldOf(rows, seedRows, similar)
             lines == PartitionFiles(rows, seedRows, similar)
         IN  /\ m.partition_complete
                  <=> Total(rows) = Total(gold) + Total(lines.negative) + Total(lines.reject)
             /\ m.gold_integrity_ok <=> \A r \in gold : "secret_detected" \notin r.marks
             /\ m.coverage_complete <=> CoverageComplete(gold)
             /\ m.task_card_coverage <=> TaskCardCoverage(gold, seedRows)
             /\ m.training_ready <=>
                  /\ Total(rows) = Total(gold) + Total(lines.negative) + Total(lines.reject)
                  /\ \A r \in gold : "secret_detected" \notin r.marks
                  /\ CoverageComplete(gold)
                  /\ LineageComplete(gold) /\ Cardinality(CompleteSeeds(gold)) >= Minimum
                  /\ TaskCardCoverage(gold, seedRows)
                  /\ HeldoutGate(rows, enabled) # "FAIL"
<1> DEFINE m == PartitionResult(rows, seedRows, similar, enabled)
           lines == PartitionFiles(rows, seedRows, similar)
           losers == LosersOf(rows, seedRows, similar)
           gold == GoldOf(rows, seedRows, similar)
<1>1. m = Manifest(rows, seedRows, similar, enabled)
  BY DEF PartitionResult
<1>2. /\ lines.gold = gold /\ lines.staging = rows /\ lines.task_bank = TaskBank(gold, seedRows)
  BY DEF PartitionFiles, LosersOf, GoldOf
<1> HIDE DEF m, lines, losers, gold
<1>3. m = [files |-> lines, raw_by_task |-> CountByTask(rows),
           gold_by_task |-> CountByTask(lines.gold),
           partition_complete |->
             Total(rows) = Total(lines.gold) + Total(lines.negative) + Total(lines.reject),
           gold_integrity_ok |-> \A r \in lines.gold : "secret_detected" \notin r.marks,
           coverage_complete |-> CoverageComplete(lines.gold),
           coverage_shortfalls |-> {t \in Tasks : CountByTask(lines.gold)[t] < Minimum},
           lineage |-> Lineage(lines.gold),
           task_card_coverage |-> TaskCardCoverage(lines.gold, seedRows),
           heldout_gate |-> HeldoutGate(rows, enabled),
           losers |-> losers, complete |-> CompleteSeeds(lines.gold),
           training_ready |->
             /\ Total(rows) = Total(lines.gold) + Total(lines.negative) + Total(lines.reject)
             /\ \A r \in lines.gold : "secret_detected" \notin r.marks
             /\ CoverageComplete(lines.gold)
             /\ Lineage(lines.gold).lineage_complete /\ Lineage(lines.gold).sufficient
             /\ TaskCardCoverage(lines.gold, seedRows)
             /\ HeldoutGate(rows, enabled) # "FAIL"]
  BY <1>1, Zenon DEF Manifest, lines, losers, LosersOf
<1>4. Lineage(gold).lineage_complete = LineageComplete(gold)
      /\ Lineage(gold).sufficient = (Cardinality(CompleteSeeds(gold)) >= Minimum)
  BY DEF Lineage
<1>5. /\ m.partition_complete
           <=> Total(rows) = Total(gold) + Total(lines.negative) + Total(lines.reject)
      /\ m.gold_integrity_ok <=> \A r \in gold : "secret_detected" \notin r.marks
      /\ m.coverage_complete <=> CoverageComplete(gold)
      /\ m.task_card_coverage <=> TaskCardCoverage(gold, seedRows)
  BY <1>2, <1>3
<1>6. m.training_ready <=>
        /\ Total(rows) = Total(gold) + Total(lines.negative) + Total(lines.reject)
        /\ \A r \in gold : "secret_detected" \notin r.marks
        /\ CoverageComplete(gold)
        /\ LineageComplete(gold) /\ Cardinality(CompleteSeeds(gold)) >= Minimum
        /\ TaskCardCoverage(gold, seedRows)
        /\ HeldoutGate(rows, enabled) # "FAIL"
  BY <1>2, <1>3, <1>4
<1> QED
  BY <1>5, <1>6 DEF m, lines, gold

\* The rows the partition calls gold, where it calls them ready.
LEMMA ReadyGold ==
  ASSUME NEW rows, NEW seedRows, NEW similar, Collected(rows),
         NEW gold, gold = GoldOf(rows, seedRows, similar),
         LineageComplete(gold), TaskCardCoverage(gold, seedRows)
  PROVE  /\ SeedsOf(gold) = CompleteSeeds(gold)
         /\ \A s \in SeedsOf(gold) : \A t \in Tasks :
              Cardinality({r \in gold : r.seed = s /\ r.task = t}) = 1
         /\ \A r \in gold :
              /\ r.marks \cap {"secret_detected", "unsafe_payload", "oracle", "disagrees",
                               "misaligned", "invalid_quality_retry_metadata"} = {}
              /\ \A up \in Upstream(r.task) :
                   \E u \in gold : /\ u.task = up /\ u.seed = r.seed /\ u.id = r.src[up]
                                   /\ u.body = r.embeds[up]
         /\ \A s, t \in SeedsOf(gold) : s # t => {s, t} \notin similar
<1> DEFINE base == BaseGold(rows, seedRows)
           losers == Losers(base, similar)
<1>1. /\ Collected(base) /\ OneRowPerId(base)
      /\ \A r \in base : r.marks \cap {"secret_detected", "unsafe_payload", "oracle", "disagrees",
                                       "invalid_quality_retry_metadata"} = {}
  BY BaseIs
<1>2. gold \in SUBSET base /\ \A r \in gold : r.seed \notin losers
  BY DEF FinalGold, GoldOf, LosersOf
<1> HIDE DEF base, losers
<1>3. Collected(gold) /\ OneRowPerId(gold)
  BY <1>1, <1>2, SubsetIds
<1>4. /\ \A r \in gold : \E c \in Chains(gold) :
              Whole(c) /\ r = RowOf(c, r.task) /\ r.seed = c.security.seed
      /\ \A r, q \in gold : r.task = q.task /\ r.seed = q.seed => r = q
  BY <1>3, CountedGold DEF TaskCardCoverage
<1>5. ASSUME NEW s \in CompleteSeeds(gold), NEW t \in Tasks
      PROVE  \E r \in gold : r.seed = s /\ r.task = t
  <2>1. PICK c \in Chains(gold) : c.security.seed = s
    BY CompleteIs
  <2>2. RowOf(c, t) \in gold /\ RowOf(c, t).seed = s /\ RowOf(c, t).task = t
    BY <1>3, <2>1, ChainRows
  <2> QED
    BY <2>2
<1>6. SeedsOf(gold) = CompleteSeeds(gold)
  <2>1. ASSUME NEW s \in SeedsOf(gold) PROVE s \in CompleteSeeds(gold)
    <3>1. PICK r \in gold : r.seed = s
      BY DEF SeedsOf
    <3> QED
      BY <1>4, <3>1, CompleteIs
  <2>2. ASSUME NEW s \in CompleteSeeds(gold) PROVE s \in SeedsOf(gold)
    <3>1. PICK r \in gold : r.seed = s
      BY <1>5 DEF Tasks
    <3>2. s \in Seeds
      BY <1>3, CompleteAreSeeds
    <3> QED
      BY <3>1, <3>2, GoldPartitionAssumption DEF SeedsOf
  <2> QED
    BY <2>1, <2>2
<1>7. ASSUME NEW s \in SeedsOf(gold), NEW t \in Tasks
      PROVE  Cardinality({r \in gold : r.seed = s /\ r.task = t}) = 1
  <2>1. PICK q \in gold : q.seed = s /\ q.task = t
    BY <1>5, <1>6
  <2>2. {r \in gold : r.seed = s /\ r.task = t} = {q}
    BY <1>4, <2>1
  <2> QED
    BY <2>2, FS_Singleton
<1>8. ASSUME NEW r \in gold PROVE "misaligned" \notin r.marks
  <2>1. PICK c \in Chains(gold) : r = RowOf(c, r.task)
    BY <1>4
  <2>2. r.task \in Tasks
    BY <1>3 DEF Collected, RowLoaded
  <2> QED
    BY <1>3, <2>1, <2>2, ChainRows
<1>9. ASSUME NEW r \in gold, NEW up \in Upstream(r.task)
      PROVE  \E u \in gold : /\ u.task = up /\ u.seed = r.seed /\ u.id = r.src[up]
                             /\ u.body = r.embeds[up]
  <2> DEFINE e == <<up, r.task>>
             errors(d) == {<<d, x.id>> :
                           x \in {y \in OfTask(gold, d[2]) : EdgeCode(gold, d[1], y) # "ok"}}
  <2>1. e \in Edges /\ e[1] = up /\ e[2] = r.task
    BY UpstreamEdge
  <2>2. r \in OfTask(gold, e[2])
    BY <2>1 DEF OfTask
  <2>3. UNION {errors(d) : d \in Edges} = {}
    BY DEF LineageComplete, EdgeErrors
  <2> HIDE DEF e
  <2>4. errors(e) = {}
    <3> HIDE DEF errors
    <3> QED
      BY <2>1, <2>3
  <2>5. EdgeCode(gold, up, r) = "ok"
    BY <2>1, <2>2, <2>4
  <2>6. PICK u \in OfTask(gold, up) : u.id = r.src[up] /\ u.seed = r.seed /\ r.embeds[up] = u.body
    BY <1>3, <2>5, EdgeOk
  <2> QED
    BY <2>6 DEF OfTask
<1>10. ASSUME NEW s \in SeedsOf(gold)
       PROVE  s \in Representatives(CompleteSeeds(base), similar)
  <2>1. PICK c \in Chains(gold) : Whole(c) /\ c.security.seed = s
    BY <1>6, CompleteIs
  <2>2. c \in Chains(base)
    BY <1>1, <1>2, <2>1, ChainsOfPart
  <2>3. s \in CompleteSeeds(base)
    BY <2>1, <2>2, CompleteIs
  <2>4. s \notin losers
    BY <1>2 DEF SeedsOf
  <2> QED
    BY <2>3, <2>4 DEF losers, Losers
<1>11. CompleteSeeds(base) \in SUBSET Seeds
  BY <1>1, CompleteAreSeeds
<1>12. \A s, t \in SeedsOf(gold) : s # t => {s, t} \notin similar
  BY <1>10, <1>11, RepresentativesDiffer
<1> QED
  BY <1>1, <1>2, <1>6, <1>7, <1>8, <1>9, <1>12

LEMMA WholeWhenReady == MergeInv => ReadyMeansWholeChains
<1> SUFFICES ASSUME MergeInv, parted # Missing, parted.training_ready
             PROVE  ReadyMeansWholeChains
  BY DEF ReadyMeansWholeChains
<1>1. PICK rows, seedRows :
        /\ Collected(rows)
        /\ parted = PartitionResult(rows, seedRows, setting.similar, setting.heldout)
  BY DEF MergeInv, PartedOnce
<1> DEFINE gold == GoldOf(rows, seedRows, setting.similar)
<1>2. ~ Malformed(rows)
  BY <1>1, ResultBlocked
<1>3. /\ parted.files.gold = gold /\ parted.files.staging = rows
      /\ parted.files.task_bank = TaskBank(gold, seedRows)
  BY <1>1, <1>2, ResultIs
<1>4. /\ LineageComplete(gold) /\ TaskCardCoverage(gold, seedRows)
      /\ HeldoutGate(rows, setting.heldout) # "FAIL"
  BY <1>1, <1>2, ResultGates
<1> HIDE DEF gold
<1>5. PICK g : g = parted.files.gold
  OBVIOUS
<1>6. /\ SeedsOf(g) = CompleteSeeds(g)
      /\ \A s \in SeedsOf(g) : \A t \in Tasks :
           Cardinality({r \in g : r.seed = s /\ r.task = t}) = 1
      /\ \A r \in g :
           /\ r.marks \cap {"secret_detected", "unsafe_payload", "oracle", "disagrees",
                            "misaligned", "invalid_quality_retry_metadata"} = {}
           /\ \A up \in Upstream(r.task) :
                \E u \in g : /\ u.task = up /\ u.seed = r.seed /\ u.id = r.src[up]
                             /\ u.body = r.embeds[up]
      /\ \A s, t \in SeedsOf(g) : s # t => {s, t} \notin setting.similar
  BY <1>1, <1>3, <1>4, <1>5, ReadyGold DEF gold
<1>7. Cardinality({b.card : b \in parted.files.task_bank}) = Cardinality(SeedsOf(g))
  BY <1>3, <1>4, <1>5, <1>6 DEF TaskCardCoverage
<1>8. setting.heldout => \A r \in parted.files.staging : "leaks" \notin r.marks
  BY <1>3, <1>4 DEF HeldoutGate
<1> QED
  BY <1>5, <1>6, <1>7, <1>8 DEF ReadyMeansWholeChains

LEMMA LosersMove == MergeInv => LosersMoveWhole
<1> SUFFICES ASSUME MergeInv, parted # Missing, NEW s \in parted.losers
             PROVE  /\ s \notin SeedsOf(parted.files.gold)
                    /\ \E t \in parted.complete : {s, t} \in setting.similar
  BY DEF LosersMoveWhole
<1>1. PICK rows, seedRows :
        /\ Collected(rows)
        /\ parted = PartitionResult(rows, seedRows, setting.similar, setting.heldout)
  BY DEF MergeInv, PartedOnce
<1> DEFINE base == BaseGold(rows, seedRows)
           losers == LosersOf(rows, seedRows, setting.similar)
           gold == GoldOf(rows, seedRows, setting.similar)
           reps == Representatives(CompleteSeeds(base), setting.similar)
<1>2. ~ Malformed(rows)
  BY <1>1, ResultBlocked
<1>3. parted.files.gold = gold /\ parted.losers = losers /\ parted.complete = CompleteSeeds(gold)
  BY <1>1, <1>2, ResultIs
<1>4. Collected(base) /\ OneRowPerId(base)
  BY <1>1, BaseIs
<1>5. gold \in SUBSET base /\ \A r \in base : r \in gold <=> r.seed \notin losers
  BY DEF FinalGold, GoldOf
<1>6. losers = CompleteSeeds(base) \ reps
  BY DEF Losers, LosersOf
<1> HIDE DEF base, losers, gold, reps
<1>7. s \notin SeedsOf(gold)
  BY <1>3, <1>5 DEF SeedsOf
<1>8. /\ CompleteSeeds(base) \in SUBSET Seeds /\ reps \in SUBSET CompleteSeeds(base)
      /\ RepresentativesOf(CompleteSeeds(base), setting.similar, reps)
  BY <1>4, CompleteAreSeeds, RepresentativesExist DEF reps
<1>9. PICK t \in reps : {t, s} \in setting.similar
  BY <1>3, <1>6, <1>8 DEF RepresentativesOf
<1>10. t \in CompleteSeeds(gold)
  <2>1. PICK c \in Chains(base) : Whole(c) /\ c.security.seed = t
    BY <1>8, CompleteIs
  <2>2. t \notin losers
    BY <1>6
  <2>3. /\ c.toolPlan \in gold /\ \A k \in Tasks : RowOf(c, k) \in gold
    BY <1>4, <1>5, <2>1, <2>2, ChainRows
  <2>4. c \in Chains(gold)
    BY <1>4, <1>5, <2>1, <2>3, ChainsOfPart
  <2> QED
    BY <2>1, <2>4, CompleteIs
<1>11. {s, t} = {t, s}
  OBVIOUS
<1> QED
  BY <1>3, <1>7, <1>9, <1>10, <1>11

\* automation.py, partition_collected_records: what the manifest calls training_ready is whole
\* chains, one row per stage and seed, clean, each row made from the gold row before it, no two
\* seeds near duplicates or of one card; and a seed that loses moves whole, to one that stays.
THEOREM PartitionIsWhole == MergeSpec => []GoldIsWhole
<1>1. MergeInv => GoldIsWhole
  BY WholeWhenReady, LosersMove DEF GoldIsWhole
<1> QED
  BY <1>1, MergeInvariant, PTL

-------------------------------------------------------------------------------
\* The files as they were written, and the state of the automation after it.
DiskOf(m) ==
  [f \in (DOMAIN m.files) \cup {"raw"} |-> IF f = "raw" THEN m.files.staging ELSE m.files[f]]

StatusOf(m) == [state |-> "complete", partition |-> m, heldout_gate |-> m.heldout_gate]

PartFiles == {"gold", "negative", "reject", "staging", "oracle_label_only", "task_bank"}

LEMMA FilesAre ==
  ASSUME NEW rows, NEW seedRows, NEW similar, NEW enabled
  PROVE  DOMAIN PartitionResult(rows, seedRows, similar, enabled).files = PartFiles
<1>1. CASE Malformed(rows)
  BY <1>1 DEF PartitionResult, BlockedManifest, PartFiles
<1>2. CASE ~ Malformed(rows)
  <2>1. PartitionResult(rows, seedRows, similar, enabled).files
          = PartitionFiles(rows, seedRows, similar)
    BY <1>2, ResultIs
  <2>2. DOMAIN PartitionFiles(rows, seedRows, similar) = PartFiles
    BY DEF PartitionFiles, PartFiles
  <2> QED
    BY <2>1, <2>2
<1> QED
  BY <1>1, <1>2

\* A set counted by what tells its members apart.
LEMMA CountedByKey ==
  ASSUME NEW S, IsFiniteSet(S), NEW f, \A x, y \in S : f[x] = f[y] => x = y
  PROVE  Cardinality({f[x] : x \in S}) = Cardinality(S)
<1> DEFINE T == {f[x] : x \in S}
           g == [x \in S |-> f[x]]
<1>1. g \in Surjection(S, T) /\ g \in Injection(S, T)
  BY DEF Surjection, Injection, IsInjective
<1> HIDE DEF T, g
<1>2. Cardinality(T) = Cardinality(S)
  BY <1>1, FS_Surjection
<1> QED
  BY <1>2 DEF T

\* One id, one gold row; one card row for each complete seed.
LEMMA GoldCounts ==
  ASSUME NEW gold, Collected(gold), OneRowPerId(gold), NEW seedRows
  PROVE  /\ Cardinality(Ids(gold)) = Cardinality(gold)
         /\ Cardinality(TaskBank(gold, seedRows)) = Cardinality(CompleteSeeds(gold))
<1>1. Cardinality(Ids(gold)) = Cardinality(gold)
  <2> DEFINE idOf == [r \in gold |-> r.id]
  <2>1. Ids(gold) = {idOf[r] : r \in gold}
    BY DEF Ids
  <2>2. \A a, b \in gold : idOf[a] = idOf[b] => a = b
    BY DEF OneRowPerId
  <2>3. IsFiniteSet(gold)
    BY DEF Collected
  <2> HIDE DEF idOf
  <2> QED
    BY <2>1, <2>2, <2>3, CountedByKey
<1>2. Cardinality(TaskBank(gold, seedRows)) = Cardinality(CompleteSeeds(gold))
  <2> DEFINE card(s) == IF \E x \in seedRows : x.seed = s
                        THEN (CHOOSE x \in seedRows : x.seed = s).cardId
                        ELSE <<"legacy-card", s>>
             bank == [s \in CompleteSeeds(gold) |-> [seed |-> s, card |-> card(s)]]
  <2>1. TaskBank(gold, seedRows) = {[seed |-> s, card |-> card(s)] : s \in CompleteSeeds(gold)}
    BY DEF TaskBank
  <2> HIDE DEF card
  <2>2. {[seed |-> s, card |-> card(s)] : s \in CompleteSeeds(gold)}
          = {bank[s] : s \in CompleteSeeds(gold)}
    OBVIOUS
  <2>3. \A s, t \in CompleteSeeds(gold) : bank[s] = bank[t] => s = t
    OBVIOUS
  <2> HIDE DEF bank
  <2>4. IsFiniteSet(CompleteSeeds(gold))
    BY CompleteAreSeeds
  <2> QED
    BY <2>1, <2>2, <2>3, <2>4, CountedByKey
<1> QED
  BY <1>1, <1>2

LEMMA GoldOfIs ==
  ASSUME NEW rows, NEW seedRows, NEW similar, Collected(rows)
  PROVE  LET gold == GoldOf(rows, seedRows, similar)
         IN  /\ Collected(gold) /\ OneRowPerId(gold)
             /\ \A r \in gold : \E x \in rows : r.marks \subseteq x.marks
<1> DEFINE base == BaseGold(rows, seedRows)
           gold == GoldOf(rows, seedRows, similar)
<1>1. /\ Collected(base) /\ OneRowPerId(base)
      /\ \A r \in base : \E x \in rows : r.marks \subseteq x.marks
  BY BaseIs
<1>2. gold \in SUBSET base
  BY DEF GoldOf, FinalGold
<1> HIDE DEF base, gold
<1>3. Collected(gold) /\ OneRowPerId(gold)
  BY <1>1, <1>2, SubsetIds
<1>4. \A r \in gold : \E x \in rows : r.marks \subseteq x.marks
  BY <1>1, <1>2
<1> QED
  BY <1>3, <1>4 DEF gold

LEMMA LineageIs ==
  ASSUME NEW gold
  PROVE  /\ Lineage(gold).lineage_complete <=> LineageComplete(gold)
         /\ Lineage(gold).sufficient <=> Cardinality(CompleteSeeds(gold)) >= Minimum
         /\ Lineage(gold).complete_chain_count = Cardinality(CompleteSeeds(gold))
         /\ Lineage(gold).edge_error_count = Cardinality(EdgeErrors(gold))
         /\ Lineage(gold).chain_error_count = Cardinality(ChainErrors(gold))
  BY DEF Lineage

LEMMA CountIs ==
  ASSUME NEW rows, NEW t \in Tasks
  PROVE  CountByTask(rows)[t] = Cardinality(OfTask(rows, t))
  BY DEF CountByTask

\* What the partition calls ready, with the held-out gate configured, blocks nothing.
LEMMA ReadyUnblocked ==
  ASSUME NEW rows, NEW seedRows, NEW similar, Collected(rows),
         NEW enabled, HeldoutGate(rows, enabled) # "DISABLED",
         NEW m, m = PartitionResult(rows, seedRows, similar, enabled), m.training_ready
  PROVE  Unblocked(m, DiskOf(m), StatusOf(m), Minimum)
<1> DEFINE gold == GoldOf(rows, seedRows, similar)
           lines == PartitionFiles(rows, seedRows, similar)
<1>1. ~ Malformed(rows)
  BY ResultBlocked
<1>2. /\ m.files = lines /\ m.files.gold = gold /\ m.files.staging = rows
      /\ m.files.task_bank = TaskBank(gold, seedRows)
      /\ m.raw_by_task = CountByTask(rows) /\ m.gold_by_task = CountByTask(gold)
      /\ m.lineage = Lineage(gold) /\ m.heldout_gate = HeldoutGate(rows, enabled)
      /\ m.coverage_shortfalls = Shortfalls(m.gold_by_task)
  BY <1>1, ResultIs
<1>3. /\ m.partition_complete /\ m.gold_integrity_ok /\ m.coverage_complete
      /\ m.task_card_coverage
      /\ Total(rows) = Total(gold) + Total(lines.negative) + Total(lines.reject)
      /\ \A r \in gold : "secret_detected" \notin r.marks
      /\ CoverageComplete(gold)
      /\ LineageComplete(gold) /\ Cardinality(CompleteSeeds(gold)) >= Minimum
      /\ HeldoutGate(rows, enabled) # "FAIL"
  BY <1>1, ResultGates
<1>4. /\ Collected(gold) /\ OneRowPerId(gold)
      /\ \A r \in gold : \E x \in rows : r.marks \subseteq x.marks
  BY GoldOfIs
<1>5. DOMAIN m.files = PartFiles
  BY FilesAre
<1>6. \A f \in PartFiles : DiskOf(m)[f] = m.files[f]
  BY <1>5 DEF DiskOf, PartFiles
<1>7. DiskOf(m).raw = m.files.staging
  BY <1>5 DEF DiskOf, PartFiles
<1>8. /\ DiskOf(m).gold = m.files.gold /\ DiskOf(m).task_bank = m.files.task_bank
      /\ \A f \in {"staging", "negative", "reject"} : DiskOf(m)[f] = m.files[f]
  BY <1>6 DEF PartFiles
<1> HIDE DEF gold, lines
<1>9. FlagsPass(m, Minimum)
  <2>1. /\ m.lineage.sufficient
        /\ m.lineage.sufficient <=> m.lineage.complete_chain_count >= Minimum
    BY <1>2, <1>3, LineageIs
  <2> QED
    BY <1>3, <2>1 DEF FlagsPass
<1>10. TaskBankPasses(m, DiskOf(m))
  <2>1. Cardinality(m.files.task_bank) = m.lineage.complete_chain_count
    BY <1>2, <1>4, GoldCounts, LineageIs
  <2> QED
    BY <1>8, <2>1 DEF TaskBankPasses, Total
<1>11. LineageSummaryPasses(m)
  <2>1. EdgeErrors(gold) = {} /\ ChainErrors(gold) = {}
    BY <1>3 DEF LineageComplete
  <2>2. Cardinality({}) = 0
    BY FS_EmptySet
  <2>3. /\ m.lineage.lineage_complete
        /\ m.lineage.edge_error_count = 0 /\ m.lineage.chain_error_count = 0
    BY <1>2, <1>3, <2>1, <2>2, LineageIs
  <2> QED
    BY <2>3 DEF LineageSummaryPasses
<1>12. GoldCountsPass(m)
  <2>1. \A t \in Tasks : m.gold_by_task[t] >= Minimum
    BY <1>2, <1>3, CountIs DEF CoverageComplete
  <2>2. m.coverage_shortfalls = {t \in Tasks : m.gold_by_task[t] < Minimum}
    BY <1>2 DEF Shortfalls
  <2> QED
    BY <1>2, <1>3, <2>1, <2>2 DEF GoldCountsPass
<1>13. SidecarsPass(m, DiskOf(m))
  BY <1>8 DEF SidecarsPass
<1>14. StatusPasses(m, StatusOf(m))
  <2>1. HeldoutGate(rows, enabled) = "PASS"
    BY <1>3 DEF HeldoutGate
  <2> QED
    BY <1>2, <2>1 DEF StatusPasses, StatusOf, SafeTerminalStates
<1>15. GoldFilesPass(m, DiskOf(m))
  <2>1. \A r \in gold : r.marks \cap {"schema", "secret_detected"} = {}
    BY <1>1, <1>3, <1>4 DEF Malformed
  <2> QED
    BY <1>2, <1>4, <1>8, <2>1, GoldCounts DEF GoldFilesPass, Total
<1>16. LineageRecomputed(m, DiskOf(m))
  BY <1>2, <1>8 DEF LineageRecomputed
<1>17. RawCountsPass(m, DiskOf(m))
  BY <1>2, <1>7 DEF RawCountsPass
<1> QED
  BY <1>9, <1>10, <1>11, <1>12, <1>13, <1>14, <1>15, <1>16, <1>17 DEF Unblocked

\* A row less in any file that is bound, or in the raw files, blocks.
LEMMA LostRowBlocks ==
  ASSUME NEW rows, NEW seedRows, NEW similar, NEW enabled, Collected(rows),
         NEW m, m = PartitionResult(rows, seedRows, similar, enabled),
         NEW f \in (DOMAIN DiskOf(m)) \ {"oracle_label_only"}, NEW r \in DiskOf(m)[f]
  PROVE  ~ Unblocked(m, [DiskOf(m) EXCEPT ![f] = @ \ {r}], StatusOf(m), Minimum)
<1> DEFINE disk == [DiskOf(m) EXCEPT ![f] = @ \ {r}]
<1> SUFFICES ASSUME Unblocked(m, disk, StatusOf(m), Minimum) PROVE FALSE
  OBVIOUS
<1>1. DOMAIN m.files = PartFiles
  BY FilesAre
<1>2. /\ f \in {"gold", "negative", "reject", "staging", "task_bank", "raw"}
      /\ DOMAIN DiskOf(m) = PartFiles \cup {"raw"}
  BY <1>1 DEF DiskOf, PartFiles
<1>3. disk[f] = DiskOf(m)[f] \ {r}
  OBVIOUS
<1>4. \A g \in PartFiles : DiskOf(m)[g] = m.files[g]
  BY <1>1 DEF DiskOf, PartFiles
<1>5. DiskOf(m).raw = m.files.staging
  BY <1>1 DEF DiskOf, PartFiles
<1>6. m.training_ready
  BY DEF Unblocked, FlagsPass
<1>7. ~ Malformed(rows)
  BY <1>6, ResultBlocked
<1>8. m.files.staging = rows /\ m.raw_by_task = CountByTask(rows)
  BY <1>7, ResultIs
<1> HIDE DEF disk
<1>9. CASE f # "raw"
  <2>1. disk[f] = m.files[f]
    BY <1>2, <1>9 DEF Unblocked, TaskBankPasses, SidecarsPass, GoldFilesPass
  <2>2. DiskOf(m)[f] = m.files[f]
    BY <1>2, <1>4, <1>9 DEF PartFiles
  <2> QED
    BY <1>3, <2>1, <2>2
<1>10. CASE f = "raw"
  <2>1. CountByTask(rows) = CountByTask(rows \ {r})
    BY <1>3, <1>5, <1>8, <1>10 DEF Unblocked, RawCountsPass
  <2>2. r \in rows /\ r.task \in Tasks /\ IsFiniteSet(rows)
    BY <1>5, <1>8, <1>10 DEF Collected, RowLoaded
  <2>3. IsFiniteSet(OfTask(rows, r.task)) /\ r \in OfTask(rows, r.task)
    <3>1. OfTask(rows, r.task) \in SUBSET rows
      BY DEF OfTask
    <3> QED
      BY <2>2, <3>1, FS_Subset DEF OfTask
  <2>4. OfTask(rows \ {r}, r.task) = OfTask(rows, r.task) \ {r}
    BY DEF OfTask
  <2>5. /\ Cardinality(OfTask(rows, r.task) \ {r}) = Cardinality(OfTask(rows, r.task)) - 1
        /\ Cardinality(OfTask(rows, r.task)) \in Nat
    BY <2>3, FS_RemoveElement, FS_CardinalityType
  <2>6. CountByTask(rows)[r.task] = CountByTask(rows \ {r})[r.task]
    BY <2>1
  <2>7. Cardinality(OfTask(rows, r.task)) = Cardinality(OfTask(rows, r.task) \ {r})
    BY <2>2, <2>4, <2>6, CountIs
  <2> QED
    BY <2>5, <2>7
<1> QED
  BY <1>9, <1>10

LEMMA Agreed == MergeInv => ReadinessAgrees
<1> SUFFICES ASSUME MergeInv, parted # Missing PROVE ReadinessAgrees
  BY DEF ReadinessAgrees
<1>1. PICK rows, seedRows :
        /\ Collected(rows)
        /\ parted = PartitionResult(rows, seedRows, setting.similar, setting.heldout)
  BY DEF MergeInv, PartedOnce
<1>2. Unblocked(parted, DiskOf(parted), StatusOf(parted), Minimum)
        => parted.training_ready /\ setting.heldout
  <2> SUFFICES ASSUME Unblocked(parted, DiskOf(parted), StatusOf(parted), Minimum)
               PROVE  parted.training_ready /\ setting.heldout
    OBVIOUS
  <2>1. parted.training_ready /\ parted.heldout_gate = "PASS"
    BY DEF Unblocked, FlagsPass, StatusPasses
  <2>2. ~ Malformed(rows)
    BY <1>1, <2>1, ResultBlocked
  <2>3. parted.heldout_gate = HeldoutGate(rows, setting.heldout)
    BY <1>1, <2>2, ResultIs
  <2> QED
    BY <2>1, <2>3 DEF HeldoutGate
<1>3. parted.training_ready /\ setting.heldout
        => Unblocked(parted, DiskOf(parted), StatusOf(parted), Minimum)
  <2> SUFFICES ASSUME parted.training_ready, setting.heldout
               PROVE  Unblocked(parted, DiskOf(parted), StatusOf(parted), Minimum)
    OBVIOUS
  <2>1. HeldoutGate(rows, setting.heldout) # "DISABLED"
    BY DEF HeldoutGate
  <2> QED
    BY <1>1, <2>1, ReadyUnblocked
<1>4. \A f \in (DOMAIN DiskOf(parted)) \ {"oracle_label_only"} : \A r \in DiskOf(parted)[f] :
        ~ Unblocked(parted, [DiskOf(parted) EXCEPT ![f] = @ \ {r}], StatusOf(parted), Minimum)
  BY <1>1, LostRowBlocks
<1>5. /\ Unblocked(parted, DiskOf(parted), StatusOf(parted), Minimum)
            <=> (parted.training_ready /\ setting.heldout)
      /\ \A f \in (DOMAIN DiskOf(parted)) \ {"oracle_label_only"} : \A r \in DiskOf(parted)[f] :
        ~ Unblocked(parted, [DiskOf(parted) EXCEPT ![f] = @ \ {r}], StatusOf(parted), Minimum)
  BY <1>2, <1>3, <1>4
<1> QED
  BY <1>5, Zenon DEF ReadinessAgrees, DiskOf, StatusOf

\* automation.py and snapshot.py take one decision twice: whatever was collected, what the partition
\* calls training_ready is what evaluate_readiness does not block, given the held-out gate; and a
\* row lost from a file since then blocks.
THEOREM ReadinessIsOne == MergeSpec => []ReadinessAgrees
  BY Agreed, MergeInvariant, PTL
===============================================================================
