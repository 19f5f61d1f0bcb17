------------------------------- MODULE UndoLog -------------------------------
(* What a store with a rollback journal promises: each target holds one       *)
(* content, every installation can be undone, and undoing goes back through   *)
(* the earlier contents one by one, however often commands die in between.    *)
EXTENDS Naturals

CONSTANTS Targets, Contents, Ids, Absent

VARIABLES content,  \* per target: what is installed, or Absent
          undo      \* per target: the installations that can be undone

vars == <<content, undo>>

(* An installation is recorded with what was there before it and with those   *)
(* of the installations that can be undone that are older.                    *)
IdsOf(entries) == {e.id : e \in entries}

Init ==
  /\ content = [t \in Targets |-> Absent]
  /\ undo = [t \in Targets |-> {}]

Install(t, id, s) ==
  /\ content[t] # s /\ id \notin IdsOf(undo[t])
  /\ content' = [content EXCEPT ![t] = s]
  /\ undo' = [undo EXCEPT ![t] = @ \cup {[id |-> id, before |-> content[t], older |-> IdsOf(@)]}]

(* Only the installation that all others are older than is undone.            *)
Undo(t, e) ==
  /\ e.older = IdsOf(undo[t] \ {e})
  /\ content' = [content EXCEPT ![t] = e.before]
  /\ undo' = [undo EXCEPT ![t] = @ \ {e}]

Next == \E t \in Targets :
          \/ \E id \in Ids, s \in Contents : Install(t, id, s)
          \/ \E e \in undo[t] : Undo(t, e)

Spec == Init /\ [][Next]_vars
==============================================================================
