---------------------------- MODULE SnapshotStack ----------------------------
(***************************************************************************)
(* What a chainbase index with undo sessions promises its callers: a table *)
(* of objects, and a stack of saved states.  Opening a session saves the   *)
(* table and the id counter; undo brings both back exactly; squash merges  *)
(* the newest session into the one below without touching the table;       *)
(* commit forgets the oldest saved states.  Session i of n carries the     *)
(* revision rev - n + i, so a revision number says which states can still  *)
(* be restored.                                                            *)
(***************************************************************************)
EXTENDS Integers, Sequences

CONSTANTS Id,       \* object ids
          Val,      \* object contents
          Absent    \* marks an id with no object

VARIABLES table,    \* the objects: Id -> Val or Absent
          next,     \* the id the next object gets
          saved,    \* the restorable states, oldest first
          rev       \* the revision of the newest session

vars == <<table, next, saved, rev>>

Init ==
  /\ table = [i \in Id |-> Absent]
  /\ next = 0
  /\ saved = << >>
  /\ rev = 0

(* One object is created under the next id, changed, or removed.           *)
Write ==
  \E i \in Id, v \in Val \cup {Absent} :
     /\ table' = [table EXCEPT ![i] = v]
     /\ next' = IF i = next THEN next + 1 ELSE next
     /\ UNCHANGED <<saved, rev>>

Begin ==
  /\ saved' = Append(saved, [table |-> table, next |-> next])
  /\ rev' = rev + 1
  /\ UNCHANGED <<table, next>>

Undo ==
  /\ saved # << >>
  /\ table' = saved[Len(saved)].table
  /\ next' = saved[Len(saved)].next
  /\ saved' = SubSeq(saved, 1, Len(saved) - 1)
  /\ rev' = rev - 1

Squash ==
  /\ saved # << >>
  /\ saved' = SubSeq(saved, 1, Len(saved) - 1)
  /\ rev' = rev - 1
  /\ UNCHANGED <<table, next>>

(* The oldest k saved states, those of the sessions up to revision         *)
(* rev - Len(saved) + k, are given up; every later one is kept.            *)
Commit ==
  \E k \in 1 .. Len(saved) :
     /\ saved' = SubSeq(saved, k + 1, Len(saved))
     /\ UNCHANGED <<table, next, rev>>

SetRevision ==
  /\ saved = << >>
  /\ rev' \in Nat
  /\ UNCHANGED <<table, next, saved>>

Next == Write \/ Begin \/ Undo \/ Squash \/ Commit \/ SetRevision

Spec == Init /\ [][Next]_vars
=============================================================================
