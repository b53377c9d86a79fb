------------------------------ MODULE UndoIndex ------------------------------
(***************************************************************************)
(* chainbase::generic_index: the table of objects of one type, and the     *)
(* stack of undo states that lets a session be undone, squashed into the   *)
(* session below it, or committed.  An undo state records differences      *)
(* only: the values objects had before they were first changed in the      *)
(* session, the objects removed in it, and the ids created in it.          *)
(*                                                                         *)
(* A std::map from id to value is a function from Id whose missing keys    *)
(* are mapped to Absent.  Secondary indices are left out: not violating    *)
(* their uniqueness is the documented precondition of modify.              *)
(*                                                                         *)
(* snap is a history variable: the table and the id counter at the moment  *)
(* each open session was started.  No action's guard reads it.             *)
(***************************************************************************)
EXTENDS Integers, Sequences

CONSTANTS Val,          \* object contents
          Absent,       \* no object under this id
          MaxId,        \* bound: ids are 0 .. MaxId
          MaxDepth,     \* bound: open sessions at a time
          MaxRevision   \* bound: revisions are 0 .. MaxRevision

ASSUME ValAssumption == Absent \notin Val

ASSUME BoundAssumption ==
  /\ MaxId \in Nat
  /\ MaxDepth \in Nat
  /\ MaxRevision \in Nat

VARIABLES indices,      \* _indices
          next_id,      \* _next_id
          revision,     \* _revision
          stack,        \* _stack, back of the deque last
          mode,         \* "unwinding" inside the loop of undo_all, else "ready"
          snap          \* history: the state each open session started from

vars == <<indices, next_id, revision, stack, mode, snap>>

Id == 0 .. MaxId
Table == [Id -> Val \cup {Absent}]
Empty == [i \in Id |-> Absent]

undo_state ==
  [old_values : Table, removed_values : Table, new_ids : SUBSET Id,
   old_next_id : 0 .. MaxId + 1, revision : Nat \ {0}]

Depth == Len(stack)
Top == stack[Depth]
Front(s) == SubSeq(s, 1, Len(s) - 1)

(* std::map::emplace: an existing entry stays.                             *)
Emplace(old, new) == IF old = Absent THEN new ELSE old

Init ==
  /\ indices = Empty
  /\ next_id = 0
  /\ revision = 0
  /\ stack = << >>
  /\ mode = "ready"
  /\ snap = << >>

-----------------------------------------------------------------------------
(* What a change to object i of value v records in the newest session f.   *)

on_create(f, i) == [f EXCEPT !.new_ids = @ \cup {i}]

on_modify(f, i, v) ==
  IF i \in f.new_ids \/ f.old_values[i] # Absent
  THEN f
  ELSE [f EXCEPT !.old_values[i] = v]

on_remove(f, i, v) ==
  IF i \in f.new_ids
  THEN [f EXCEPT !.new_ids = @ \ {i}]
  ELSE IF f.old_values[i] # Absent
  THEN [f EXCEPT !.removed_values[i] = Emplace(@, f.old_values[i]),
                 !.old_values[i] = Absent]
  ELSE [f EXCEPT !.removed_values[i] = Emplace(@, v)]

(* The stack once the newest session, if there is one, has become f.       *)
WithTop(f) == IF stack = << >> THEN stack ELSE [stack EXCEPT ![Depth] = f]

emplace(v) ==
  /\ mode = "ready"
  /\ next_id \in Id
  /\ indices' = [indices EXCEPT ![next_id] = v]
  /\ next_id' = next_id + 1
  /\ stack' = WithTop(on_create(Top, next_id))
  /\ UNCHANGED <<revision, mode, snap>>

modify(i, v) ==
  /\ mode = "ready"
  /\ indices[i] # Absent
  /\ indices' = [indices EXCEPT ![i] = v]
  /\ stack' = WithTop(on_modify(Top, i, indices[i]))
  /\ UNCHANGED <<next_id, revision, mode, snap>>

remove(i) ==
  /\ mode = "ready"
  /\ indices[i] # Absent
  /\ indices' = [indices EXCEPT ![i] = Absent]
  /\ stack' = WithTop(on_remove(Top, i, indices[i]))
  /\ UNCHANGED <<next_id, revision, mode, snap>>

-----------------------------------------------------------------------------
(* Sessions.  A session object that is pushed leaves its undo state on the *)
(* stack; one that goes out of scope calls undo.                           *)

start_undo_session ==
  /\ mode = "ready"
  /\ Depth < MaxDepth
  /\ revision < MaxRevision
  /\ stack' = Append(stack, [old_values |-> Empty, removed_values |-> Empty,
                             new_ids |-> {}, old_next_id |-> next_id,
                             revision |-> revision + 1])
  /\ revision' = revision + 1
  /\ snap' = Append(snap, [table |-> indices, next |-> next_id])
  /\ UNCHANGED <<indices, next_id, mode>>

(* Faulty variant of Reverted: removed objects are not put back.           *)
Reverted_without_removed(f) ==
  [i \in Id |->
     IF f.old_values[i] # Absent THEN f.old_values[i]
     ELSE IF i \in f.new_ids THEN Absent
     ELSE indices[i]]

(* The table with the differences of undo state f taken back: new objects  *)
(* erased, then old values restored, then removed objects put back.        *)
Reverted(f) ==
  [i \in Id |->
     IF f.removed_values[i] # Absent THEN f.removed_values[i]
     ELSE IF f.old_values[i] # Absent THEN f.old_values[i]
     ELSE IF i \in f.new_ids THEN Absent
     ELSE indices[i]]

(* Faulty variant of PopUndone: the id counter of the oldest session is    *)
(* restored instead of the newest one's.                                   *)
PopUndone_oldest_id ==
  /\ indices' = Reverted(Top)
  /\ next_id' = stack[1].old_next_id
  /\ stack' = Front(stack)
  /\ snap' = Front(snap)
  /\ revision' = revision - 1

PopUndone ==
  /\ indices' = Reverted(Top)
  /\ next_id' = Top.old_next_id
  /\ stack' = Front(stack)
  /\ snap' = Front(snap)
  /\ revision' = revision - 1

undo ==
  /\ mode = "ready"
  /\ stack # << >>
  /\ PopUndone
  /\ UNCHANGED mode

(* undo_all: nothing else happens between the turns of its loop.           *)
undo_all ==
  /\ stack # << >>
  /\ PopUndone
  /\ mode' = IF Depth > 1 THEN "unwinding" ELSE "ready"

(* Faulty variant of Merged: an object new in A and removed in B is kept   *)
(* as a removal instead of vanishing.                                      *)
Merged_keeps_removal(A, B) ==
  LET old == [i \in Id |-> IF i \in A.new_ids THEN A.old_values[i]
                           ELSE Emplace(A.old_values[i], B.old_values[i])]
      gone == {i \in Id : B.removed_values[i] # Absent}
  IN [A EXCEPT
        !.new_ids = (A.new_ids \cup B.new_ids) \ gone,
        !.old_values = [i \in Id |-> IF i \in gone THEN Absent ELSE old[i]],
        !.removed_values =
           [i \in Id |-> IF i \in gone
                         THEN Emplace(A.removed_values[i],
                                      Emplace(old[i], B.removed_values[i]))
                         ELSE A.removed_values[i]]]

(* The undo state that takes back B and then A.  Values B overwrote are    *)
(* taken over unless A already knows the object, then B's new ids, then    *)
(* B's removals, which cancel an object that is new in A or turn a change  *)
(* recorded in A into a removal.                                           *)
Merged(A, B) ==
  LET old == [i \in Id |-> IF i \in A.new_ids THEN A.old_values[i]
                           ELSE Emplace(A.old_values[i], B.old_values[i])]
      new == A.new_ids \cup B.new_ids
      gone == {i \in Id : B.removed_values[i] # Absent}
  IN [A EXCEPT
        !.new_ids = new \ gone,
        !.old_values = [i \in Id |-> IF i \in gone \ new THEN Absent ELSE old[i]],
        !.removed_values =
           [i \in Id |-> IF i \in gone \ new
                         THEN Emplace(A.removed_values[i],
                                      Emplace(old[i], B.removed_values[i]))
                         ELSE A.removed_values[i]]]

squash ==
  /\ mode = "ready"
  /\ stack # << >>
  /\ stack' = IF Depth = 1
              THEN << >>
              ELSE [Front(stack) EXCEPT ![Depth - 1] = Merged(stack[Depth - 1], Top)]
  /\ revision' = revision - 1
  /\ snap' = Front(snap)
  /\ UNCHANGED <<indices, next_id, mode>>

(* Undo states are popped from the front while their revision is at most r.*)
commit(r) ==
  /\ mode = "ready"
  /\ \E k \in 1 .. Depth :
        /\ \A i \in 1 .. k : stack[i].revision <= r
        /\ k < Depth => stack[k + 1].revision > r
        /\ stack' = SubSeq(stack, k + 1, Depth)
        /\ snap' = SubSeq(snap, k + 1, Depth)
  /\ UNCHANGED <<indices, next_id, revision, mode>>

set_revision(r) ==
  /\ mode = "ready"
  /\ stack = << >>
  /\ revision' = r
  /\ UNCHANGED <<indices, next_id, stack, mode, snap>>

Next ==
  \/ \E v \in Val : emplace(v)
  \/ \E i \in Id, v \in Val : modify(i, v)
  \/ \E i \in Id : remove(i)
  \/ start_undo_session
  \/ undo
  \/ undo_all
  \/ squash
  \/ \E r \in 0 .. MaxRevision : commit(r)
  \/ \E r \in 0 .. MaxRevision : set_revision(r)

Spec == Init /\ [][Next]_vars

-----------------------------------------------------------------------------
(* Properties.                                                             *)

(* The state a session can bring back.                                     *)
Saved == [table : Table, next : 0 .. MaxId + 1]

(* Types of the index and its undo stack; one history entry per session.   *)
TypeOK ==
  /\ indices \in Table
  /\ next_id \in 0 .. MaxId + 1
  /\ revision \in Nat
  /\ stack \in Seq(undo_state)
  /\ mode \in {"ready", "unwinding"}
  /\ snap \in Seq(Saved)
  /\ Len(snap) = Len(stack)

(* An undo state has at most one relation to an object: it created it,     *)
(* changed it or removed it (the comment in squash).                       *)
OneKind(f) ==
  \A i \in Id :
     /\ i \in f.new_ids => f.old_values[i] = Absent /\ f.removed_values[i] = Absent
     /\ f.old_values[i] # Absent => f.removed_values[i] = Absent

(* Undo state f is the exact difference between the tables before and after. *)
Difference(before, f, after) ==
  \A i \in Id :
     /\ i \in f.new_ids => before[i] = Absent /\ after[i] # Absent
     /\ f.old_values[i] # Absent => before[i] = f.old_values[i] /\ after[i] # Absent
     /\ f.removed_values[i] # Absent => before[i] = f.removed_values[i] /\ after[i] = Absent
     /\ (i \notin f.new_ids /\ f.old_values[i] = Absent /\ f.removed_values[i] = Absent)
           => before[i] = after[i]

(* The table that session k left behind: where session k + 1 started, or   *)
(* the present one for the newest session.                                 *)
After(k) == IF k = Depth THEN indices ELSE snap[k + 1].table

(* Every open session can be taken back exactly, now or after the sessions *)
(* above it: its undo state is the difference between the table it started *)
(* from and the table the next session started from.                       *)
FramesExact ==
  \A k \in 1 .. Depth :
     /\ OneKind(stack[k])
     /\ Difference(snap[k].table, stack[k], After(k))
     /\ stack[k].old_next_id = snap[k].next

(* No id at or above the counter is in use, in the present table or in a   *)
(* restorable one, and counters only grow from session to session, so      *)
(* emplace never collides and undo never brings an object back under an id *)
(* that was handed out again.                                              *)
IdsFresh ==
  /\ \A i \in Id : i >= next_id => indices[i] = Absent
  /\ \A k \in 1 .. Depth :
       /\ \A i \in Id : i >= snap[k].next => snap[k].table[i] = Absent
       /\ \A i \in stack[k].new_ids : i >= snap[k].next
       /\ snap[k].next <= IF k = Depth THEN next_id ELSE snap[k + 1].next

(* The sessions' revisions are consecutive and end at the index's own, so  *)
(* commit and the controller can address a state by a block number.        *)
RevisionsConsecutive ==
  \A k \in 1 .. Depth : stack[k].revision = revision - Depth + k

(* The combinations that squash marks N/A and asserts against never occur  *)
(* in neighbouring undo states: an id created again, or an object touched  *)
(* after its removal.                                                      *)
NoIllegalMerge ==
  \A k \in 1 .. Depth - 1 : \A i \in Id :
     LET A == stack[k]  B == stack[k + 1] IN
     /\ i \in B.new_ids =>
          i \notin A.new_ids /\ A.old_values[i] = Absent /\ A.removed_values[i] = Absent
     /\ A.removed_values[i] # Absent =>
          B.old_values[i] = Absent /\ B.removed_values[i] = Absent

(* The index implements the stack of snapshots: undo restores the table    *)
(* and the counter of the session's start, squash and commit leave the     *)
(* table alone and forget only the states they should.                     *)
Snapshots == INSTANCE SnapshotStack
               WITH table <- indices, next <- next_id, saved <- snap, rev <- revision
ImplementsSnapshots == Snapshots!Spec
=============================================================================
