------------------------------ MODULE DurableLog ------------------------------
(***************************************************************************)
(* What an append-only JSONL store promises to the collection pipeline: a   *)
(* record becomes readable, it may then be acknowledged, and as long as the *)
(* log can be read at all it holds every acknowledged record.  A record     *)
(* that was never acknowledged may be lost by a crash, and a log that is    *)
(* damaged says so: reading it fails.                                       *)
(*                                                                          *)
(* One record escapes the promise: when its write came up short, it stands  *)
(* in the unterminated last line, is acknowledged all the same and is       *)
(* perhaps not readable.                                                    *)
(***************************************************************************)
CONSTANT Records

VARIABLES readable,   \* records a reader opening the log would obtain
          tail,       \* records of the unterminated last line, readable or not
          short,      \* records one of whose writes came up short
          acked,      \* records whose append returned True
          damaged     \* reading the log fails

vars == <<readable, tail, short, acked, damaged>>

Init ==
  /\ readable = {} /\ tail = {} /\ short = {} /\ acked = {}
  /\ damaged = FALSE

Kept == readable \cup (short \cap tail)

Publish(r) ==
  /\ ~damaged
  /\ tail = {}
  /\ readable' = readable \cup {r}
  /\ UNCHANGED <<tail, short, acked, damaged>>

(* A short write joins the last line, which then says something or nothing.  *)
Cut(r) ==
  /\ ~damaged
  /\ tail' = tail \cup {r}
  /\ short' = short \cup {r}
  /\ readable' \in SUBSET (readable \cup {r})
  /\ readable \ tail \subseteq readable'
  /\ UNCHANGED <<acked, damaged>>

Acknowledge(r) ==
  /\ damaged \/ r \in Kept
  /\ acked' = acked \cup {r}
  /\ UNCHANGED <<readable, tail, short, damaged>>

(* A line written after an unterminated one, whole or short.                 *)
Damage ==
  /\ damaged' = TRUE /\ readable' = {} /\ tail' = {}
  /\ short' \in {short} \cup {short \cup {r} : r \in Records}
  /\ UNCHANGED acked

(* A crash may lose what was not acknowledged; if that includes the damage,  *)
(* nothing that was acknowledged is missing but what a short write lost.     *)
LoseUnacknowledged ==
  /\ damaged' = FALSE
  /\ readable' \in SUBSET Records /\ tail' \in SUBSET Records
  /\ damaged \/ readable' \cup tail' \subseteq readable \cup tail
  /\ acked \subseteq Kept'
  /\ acked \cap readable \subseteq readable'
  /\ UNCHANGED <<short, acked>>

Next ==
  \/ \E r \in Records : Publish(r) \/ Cut(r) \/ Acknowledge(r)
  \/ Damage
  \/ LoseUnacknowledged

Spec == Init /\ [][Next]_vars
===============================================================================
