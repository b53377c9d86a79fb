-------------------------- MODULE UndoIndex_proofs --------------------------
(***************************************************************************)
(* Proofs about UndoIndex for every set of values and every bound: the     *)
(* undo states on the stack are always exact, so undo, squash and commit   *)
(* do what SnapshotStack promises.                                         *)
(***************************************************************************)
EXTENDS UndoIndex, SequenceTheorems, TLAPS

-----------------------------------------------------------------------------
(* Sequences.                                                              *)

(* Dropping the last element keeps the others where they are.              *)
LEMMA FrontFacts ==
  ASSUME NEW S, NEW s \in Seq(S), s # << >>
  PROVE  /\ Front(s) \in Seq(S)
         /\ Len(Front(s)) = Len(s) - 1
         /\ \A i \in 1 .. Len(s) - 1 : Front(s)[i] = s[i]
<1>1. Len(s) \in Nat \ {0}
  BY EmptySeq
<1>2. /\ 1 \in 1 .. Len(s) + 1
      /\ Len(s) - 1 \in 1 - 1 .. Len(s)
      /\ (Len(s) - 1) - 1 + 1 = Len(s) - 1
  BY <1>1
<1>3. /\ SubSeq(s, 1, Len(s) - 1) \in Seq(S)
      /\ Len(SubSeq(s, 1, Len(s) - 1)) = Len(s) - 1
      /\ \A i \in 1 .. Len(s) - 1 : SubSeq(s, 1, Len(s) - 1)[i] = s[1 + i - 1]
  BY <1>1, <1>2, SubSeqProperties
<1>4. QED
  BY <1>1, <1>3 DEF Front

(* Replacing one element keeps the length and the others.                  *)
LEMMA ReplaceFacts ==
  ASSUME NEW S, NEW s \in Seq(S), NEW k \in 1 .. Len(s), NEW e \in S
  PROVE  /\ [s EXCEPT ![k] = e] \in Seq(S)
         /\ Len([s EXCEPT ![k] = e]) = Len(s)
         /\ [s EXCEPT ![k] = e][k] = e
         /\ \A i \in 1 .. Len(s) : i # k => [s EXCEPT ![k] = e][i] = s[i]
OBVIOUS

(* Dropping a prefix shifts the rest.                                      *)
LEMMA SuffixFacts ==
  ASSUME NEW S, NEW s \in Seq(S), NEW k \in 1 .. Len(s)
  PROVE  /\ SubSeq(s, k + 1, Len(s)) \in Seq(S)
         /\ Len(SubSeq(s, k + 1, Len(s))) = Len(s) - k
         /\ \A i \in 1 .. Len(s) - k : SubSeq(s, k + 1, Len(s))[i] = s[k + i]
OBVIOUS

-----------------------------------------------------------------------------
(* One undo state: recording a change keeps it the exact difference.       *)

(* on_create records an id that neither table knows.                       *)
LEMMA CreateExact ==
  ASSUME NEW f \in undo_state, NEW before \in Table, NEW after \in Table,
         NEW i \in Id, NEW v \in Val,
         OneKind(f), Difference(before, f, after),
         before[i] = Absent, after[i] = Absent
  PROVE  /\ on_create(f, i) \in undo_state
         /\ OneKind(on_create(f, i))
         /\ Difference(before, on_create(f, i), [after EXCEPT ![i] = v])
BY ValAssumption DEF on_create, undo_state, OneKind, Difference, Table

(* on_modify records the value an object had, once.                        *)
LEMMA ModifyExact ==
  ASSUME NEW f \in undo_state, NEW before \in Table, NEW after \in Table,
         NEW i \in Id, NEW v \in Val,
         OneKind(f), Difference(before, f, after), after[i] # Absent
  PROVE  /\ on_modify(f, i, after[i]) \in undo_state
         /\ OneKind(on_modify(f, i, after[i]))
         /\ Difference(before, on_modify(f, i, after[i]), [after EXCEPT ![i] = v])
BY ValAssumption DEF on_modify, undo_state, OneKind, Difference, Table

(* on_remove forgets an object of the session, and records an older one.   *)
LEMMA RemoveExact ==
  ASSUME NEW f \in undo_state, NEW before \in Table, NEW after \in Table,
         NEW i \in Id,
         OneKind(f), Difference(before, f, after), after[i] # Absent
  PROVE  /\ on_remove(f, i, after[i]) \in undo_state
         /\ OneKind(on_remove(f, i, after[i]))
         /\ Difference(before, on_remove(f, i, after[i]), [after EXCEPT ![i] = Absent])
BY ValAssumption DEF on_remove, Emplace, undo_state, OneKind, Difference, Table

(* Merging two neighbouring exact undo states gives the exact difference   *)
(* across both, provided no id created in B existed before A: the type C   *)
(* and N/A entries of the table in squash.                                 *)
LEMMA MergeExact ==
  ASSUME NEW A \in undo_state, NEW B \in undo_state,
         NEW before \in Table, NEW mid \in Table, NEW after \in Table,
         OneKind(A), OneKind(B),
         Difference(before, A, mid), Difference(mid, B, after),
         \A i \in B.new_ids : before[i] = Absent
  PROVE  /\ Merged(A, B) \in undo_state
         /\ OneKind(Merged(A, B))
         /\ Difference(before, Merged(A, B), after)
         /\ Merged(A, B).new_ids \subseteq A.new_ids \cup B.new_ids
         /\ Merged(A, B).old_next_id = A.old_next_id
         /\ Merged(A, B).revision = A.revision
<1>1. Merged(A, B) \in undo_state
  BY DEF Merged, Emplace, undo_state, Table
<1>2. OneKind(Merged(A, B))
  BY DEF Merged, Emplace, undo_state, OneKind, Difference, Table
<1>3. Difference(before, Merged(A, B), after)
  BY DEF Merged, Emplace, undo_state, OneKind, Difference, Table
<1>4. QED
  BY <1>1, <1>2, <1>3 DEF Merged, undo_state

(* Taking an exact undo state back gives the table the session began with. *)
LEMMA RevertExact ==
  ASSUME NEW f \in undo_state, NEW before \in Table, indices \in Table,
         Difference(before, f, indices)
  PROVE  Reverted(f) = before
BY DEF Reverted, Difference, undo_state, Table

-----------------------------------------------------------------------------
(* The inductive invariant, session by session: session k has undo state   *)
(* f, started in b, and was followed by the table t and the counter n.     *)
(* Exactness alone is not inductive: merging needs that an id created in a *)
(* session is not one a session below removed, hence the freshness of ids, *)
(* and the type of revision needs the revisions to be consecutive.         *)
SessionOK(f, b, t, n, r) ==
  /\ OneKind(f)
  /\ Difference(b.table, f, t)
  /\ f.old_next_id = b.next
  /\ \A i \in Id : i >= b.next => b.table[i] = Absent
  /\ \A i \in f.new_ids : i >= b.next
  /\ b.next <= n
  /\ f.revision = r

(* The counter that followed session k.                                    *)
AfterNext(k) == IF k = Depth THEN next_id ELSE snap[k + 1].next

IInv ==
  /\ TypeOK
  /\ \A i \in Id : i >= next_id => indices[i] = Absent
  /\ \A k \in 1 .. Depth :
       SessionOK(stack[k], snap[k], After(k), AfterNext(k), revision - Depth + k)

(* The types of single sessions.                                           *)
LEMMA ElementTypes ==
  ASSUME IInv
  PROVE  /\ Depth \in Nat
         /\ \A k \in 1 .. Depth : stack[k] \in undo_state /\ snap[k] \in Saved
         /\ stack # << >> => Depth > 0
<1>1. stack \in Seq(undo_state) /\ snap \in Seq(Saved) /\ Len(snap) = Len(stack)
  BY DEF IInv, TypeOK
<1>2. QED
  BY <1>1, EmptySeq, ElementOfSeq, LenProperties DEF Depth

(* IInv implies the invariants that the runs check.                        *)
LEMMA IInvImplies ==
  IInv => FramesExact /\ IdsFresh /\ RevisionsConsecutive /\ NoIllegalMerge
<1> SUFFICES ASSUME IInv PROVE FramesExact /\ IdsFresh /\ RevisionsConsecutive /\ NoIllegalMerge
  OBVIOUS
<1>1. FramesExact /\ IdsFresh /\ RevisionsConsecutive
  BY DEF IInv, FramesExact, IdsFresh, RevisionsConsecutive, SessionOK, AfterNext
<1>2. NoIllegalMerge
  <2> SUFFICES ASSUME NEW k \in 1 .. Depth - 1, NEW i \in Id
               PROVE  /\ i \in stack[k + 1].new_ids =>
                          /\ i \notin stack[k].new_ids
                          /\ stack[k].old_values[i] = Absent
                          /\ stack[k].removed_values[i] = Absent
                      /\ stack[k].removed_values[i] # Absent =>
                          /\ stack[k + 1].old_values[i] = Absent
                          /\ stack[k + 1].removed_values[i] = Absent
    BY DEF NoIllegalMerge
  <2>1. /\ Depth \in Nat /\ k \in 1 .. Depth /\ k + 1 \in 1 .. Depth /\ k # Depth
        /\ snap[k] \in Saved /\ snap[k + 1] \in Saved
        /\ stack[k] \in undo_state /\ stack[k + 1] \in undo_state
    BY ElementTypes
  <2>2. /\ SessionOK(stack[k], snap[k], After(k), AfterNext(k), revision - Depth + k)
        /\ SessionOK(stack[k + 1], snap[k + 1], After(k + 1), AfterNext(k + 1), revision - Depth + (k + 1))
    BY <2>1 DEF IInv
  <2>3. /\ Difference(snap[k].table, stack[k], snap[k + 1].table)
        /\ Difference(snap[k + 1].table, stack[k + 1], After(k + 1))
        /\ \A j \in Id : j >= snap[k].next => snap[k].table[j] = Absent
        /\ \A j \in stack[k + 1].new_ids : j >= snap[k + 1].next
        /\ snap[k].next <= snap[k + 1].next
    BY <2>1, <2>2 DEF SessionOK, After, AfterNext
  <2>4. i \in stack[k + 1].new_ids => snap[k].table[i] = Absent
    BY <2>1, <2>3, BoundAssumption DEF Id, Saved, undo_state
  <2>5. QED
    BY <2>1, <2>3, <2>4 DEF Difference
<1>3. QED
  BY <1>1, <1>2

(* Initially there is no session and no object.                            *)
LEMMA InitIInv == Init => IInv
<1> SUFFICES ASSUME Init PROVE IInv
  OBVIOUS
<1>1. Depth = 0
  BY DEF Init, Depth
<1>2. indices \in Table /\ \A i \in Id : indices[i] = Absent
  BY DEF Init, Empty, Table
<1>3. TypeOK
  <2>1. << >> \in Seq(undo_state) /\ << >> \in Seq(Saved)
    BY EmptySeq
  <2>2. QED
    BY <1>2, <2>1, BoundAssumption DEF Init, TypeOK
<1>4. QED
  BY <1>1, <1>2, <1>3 DEF IInv

-----------------------------------------------------------------------------
(* Preservation.                                                           *)

(* A change of the table that the newest session, if any, records exactly. *)
LEMMA RecordedChange ==
  ASSUME IInv,
         NEW f \in undo_state, indices' \in Table, next_id' \in 0 .. MaxId + 1,
         next_id <= next_id',
         \A i \in Id : i >= next_id' => indices'[i] = Absent,
         stack' = WithTop(f),
         stack # << >> =>
           SessionOK(f, snap[Depth], indices', next_id', revision),
         UNCHANGED <<revision, mode, snap>>
  PROVE  IInv'
<1>1. CASE stack = << >>
  BY <1>1 DEF IInv, TypeOK, WithTop, Depth
<1>2. CASE stack # << >>
  <2>1. /\ Depth \in Nat \ {0}
        /\ stack \in Seq(undo_state)
    BY <1>2, EmptySeq DEF IInv, TypeOK, Depth
  <2>2. /\ stack' \in Seq(undo_state)
        /\ Depth' = Depth
        /\ stack'[Depth] = f
        /\ \A k \in 1 .. Depth : k # Depth => stack'[k] = stack[k]
    BY <1>2, <2>1, ReplaceFacts DEF WithTop, Depth
  <2>3. TypeOK'
    BY <2>2 DEF IInv, TypeOK, Depth
  <2>4. ASSUME NEW k \in 1 .. Depth
        PROVE  SessionOK(stack[k], snap[k], After(k), AfterNext(k), revision - Depth + k)'
    <3>1. CASE k = Depth
      <4>1. After(k)' = indices' /\ AfterNext(k)' = next_id'
        BY <2>2, <3>1 DEF After, AfterNext
      <4>2. (revision - Depth + k)' = revision
        BY <2>1, <2>2, <3>1 DEF IInv, TypeOK
      <4>3. QED
        BY <1>2, <2>2, <3>1, <4>1, <4>2 DEF SessionOK
    <3>2. CASE k # Depth
      <4>1. After(k)' = After(k) /\ AfterNext(k)' = AfterNext(k)
        BY <2>1, <2>2, <3>2 DEF After, AfterNext
      <4>2. stack'[k] = stack[k] /\ snap'[k] = snap[k] /\ (revision - Depth + k)' = revision - Depth + k
        BY <2>1, <2>2, <3>2
      <4>3. QED
        BY <2>1, <3>2, <4>1, <4>2 DEF SessionOK, IInv
    <3>3. QED
      BY <3>1, <3>2
  <2>5. QED
    BY <2>2, <2>3, <2>4 DEF IInv
<1>3. QED
  BY <1>1, <1>2

(* emplace: the id handed out is in no restorable table.                   *)
LEMMA EmplaceIInv ==
  ASSUME IInv, NEW v \in Val, emplace(v)
  PROVE  IInv'
<1>1. /\ next_id \in Id /\ next_id \in Int /\ indices \in Table
      /\ indices[next_id] = Absent
  BY DEF IInv, TypeOK, emplace, Id
<1>2. /\ indices' = [indices EXCEPT ![next_id] = v]
      /\ indices' \in Table
      /\ next_id' = next_id + 1
      /\ next_id' \in 0 .. MaxId + 1
      /\ UNCHANGED <<revision, mode, snap>>
  BY <1>1, BoundAssumption DEF emplace, Table, Id
<1>3. \A i \in Id : i >= next_id' => indices'[i] = Absent
  BY <1>1, <1>2 DEF IInv, Id, Table
<1>4. CASE stack = << >>
  BY <1>1, <1>2, <1>3, <1>4 DEF emplace, WithTop, IInv, TypeOK, Depth
<1>5. CASE stack # << >>
  <2> DEFINE f == Top  b == snap[Depth]
  <2>1. /\ Depth \in Nat /\ Depth \in 1 .. Depth /\ f \in undo_state /\ b \in Saved
        /\ SessionOK(f, b, indices, next_id, revision)
    BY <1>5, ElementTypes DEF IInv, Top, After, AfterNext, TypeOK
  <2>2. b.table[next_id] = Absent
    BY <1>1, <2>1, BoundAssumption DEF SessionOK, Saved
  <2>3. /\ on_create(f, next_id) \in undo_state
        /\ OneKind(on_create(f, next_id))
        /\ Difference(b.table, on_create(f, next_id), indices')
    BY <1>1, <1>2, <2>1, <2>2, CreateExact DEF SessionOK, Saved
  <2>4. SessionOK(on_create(f, next_id), b, indices', next_id', revision)
    BY <1>1, <1>2, <2>1, <2>3 DEF SessionOK, Saved, on_create, undo_state
  <2>5. next_id <= next_id'
    BY <1>1, <1>2
  <2>6. QED
    BY <1>1, <1>2, <1>3, <2>3, <2>4, <2>5, RecordedChange DEF emplace, Top
<1>6. QED
  BY <1>4, <1>5

(* modify: the newest session knows the object or records its value.       *)
LEMMA ModifyIInv ==
  ASSUME IInv, NEW i \in Id, NEW v \in Val, modify(i, v)
  PROVE  IInv'
<1>1. /\ indices \in Table /\ indices[i] # Absent
      /\ next_id \in 0 .. MaxId + 1
      /\ indices' = [indices EXCEPT ![i] = v]
      /\ indices' \in Table
      /\ UNCHANGED <<next_id, revision, mode, snap>>
  BY DEF IInv, TypeOK, modify, Table
<1>2. \A j \in Id : j >= next_id' => indices'[j] = Absent
  BY <1>1 DEF IInv, Table
<1>3. CASE stack = << >>
  BY <1>1, <1>2, <1>3 DEF modify, WithTop, IInv, TypeOK, Depth
<1>4. CASE stack # << >>
  <2> DEFINE f == Top  b == snap[Depth]
  <2>1. /\ Depth \in Nat /\ Depth \in 1 .. Depth /\ f \in undo_state /\ b \in Saved
        /\ SessionOK(f, b, indices, next_id, revision)
    BY <1>4, ElementTypes DEF IInv, Top, After, AfterNext, TypeOK
  <2>2. /\ on_modify(f, i, indices[i]) \in undo_state
        /\ OneKind(on_modify(f, i, indices[i]))
        /\ Difference(b.table, on_modify(f, i, indices[i]), indices')
    BY <1>1, <2>1, ModifyExact DEF SessionOK, Saved
  <2>3. SessionOK(on_modify(f, i, indices[i]), b, indices', next_id', revision)
    BY <1>1, <2>1, <2>2 DEF SessionOK, on_modify, undo_state
  <2>4. next_id <= next_id'
    BY <1>1
  <2>5. QED
    BY <1>1, <1>2, <2>2, <2>3, <2>4, RecordedChange DEF modify, Top
<1>5. QED
  BY <1>3, <1>4

(* remove: an object of the session is forgotten, an older one recorded.   *)
LEMMA RemoveIInv ==
  ASSUME IInv, NEW i \in Id, remove(i)
  PROVE  IInv'
<1>1. /\ indices \in Table /\ indices[i] # Absent
      /\ next_id \in 0 .. MaxId + 1
      /\ indices' = [indices EXCEPT ![i] = Absent]
      /\ indices' \in Table
      /\ UNCHANGED <<next_id, revision, mode, snap>>
  BY DEF IInv, TypeOK, remove, Table
<1>2. \A j \in Id : j >= next_id' => indices'[j] = Absent
  BY <1>1 DEF IInv, Table
<1>3. CASE stack = << >>
  BY <1>1, <1>2, <1>3 DEF remove, WithTop, IInv, TypeOK, Depth
<1>4. CASE stack # << >>
  <2> DEFINE f == Top  b == snap[Depth]
  <2>1. /\ Depth \in Nat /\ Depth \in 1 .. Depth /\ f \in undo_state /\ b \in Saved
        /\ SessionOK(f, b, indices, next_id, revision)
    BY <1>4, ElementTypes DEF IInv, Top, After, AfterNext, TypeOK
  <2>2. /\ on_remove(f, i, indices[i]) \in undo_state
        /\ OneKind(on_remove(f, i, indices[i]))
        /\ Difference(b.table, on_remove(f, i, indices[i]), indices')
    BY <1>1, <2>1, RemoveExact DEF SessionOK, Saved
  <2>3. SessionOK(on_remove(f, i, indices[i]), b, indices', next_id', revision)
    BY <1>1, <2>1, <2>2 DEF SessionOK, on_remove, undo_state
  <2>4. next_id <= next_id'
    BY <1>1
  <2>5. QED
    BY <1>1, <1>2, <2>2, <2>3, <2>4, RecordedChange DEF remove, Top
<1>5. QED
  BY <1>3, <1>4

(* start_undo_session: the empty undo state is the difference between the  *)
(* table and itself.                                                       *)
LEMMA StartIInv ==
  ASSUME IInv, start_undo_session
  PROVE  IInv'
<1> DEFINE f == [old_values |-> Empty, removed_values |-> Empty,
                 new_ids |-> {}, old_next_id |-> next_id, revision |-> revision + 1]
           b == [table |-> indices, next |-> next_id]
<1>1. /\ Depth \in Nat /\ revision \in Nat /\ next_id \in 0 .. MaxId + 1 /\ indices \in Table
      /\ stack \in Seq(undo_state) /\ snap \in Seq(Saved) /\ Len(snap) = Depth
  BY ElementTypes DEF IInv, TypeOK, Depth
<1>2. /\ Empty \in Table /\ \A i \in Id : Empty[i] = Absent
  BY DEF Empty, Table
<1>3. f \in undo_state /\ b \in Saved
  BY <1>1, <1>2 DEF undo_state, Saved
<1>4. /\ stack' = Append(stack, f) /\ snap' = Append(snap, b)
      /\ revision' = revision + 1 /\ UNCHANGED <<indices, next_id, mode>>
  BY DEF start_undo_session
<1>5. /\ stack' \in Seq(undo_state) /\ snap' \in Seq(Saved)
      /\ Depth' = Depth + 1 /\ Len(snap') = Depth + 1
      /\ stack'[Depth + 1] = f /\ snap'[Depth + 1] = b
      /\ \A k \in 1 .. Depth : stack'[k] = stack[k] /\ snap'[k] = snap[k]
  BY <1>1, <1>3, <1>4 DEF Depth
<1>6. TypeOK'
  BY <1>1, <1>4, <1>5 DEF IInv, TypeOK, Depth
<1>7. ASSUME NEW k \in 1 .. Depth + 1
      PROVE  SessionOK(stack[k], snap[k], After(k), AfterNext(k), revision - Depth + k)'
  <2>1. CASE k = Depth + 1
    <3>1. After(k)' = indices /\ AfterNext(k)' = next_id /\ (revision - Depth + k)' = revision + 1
      BY <1>1, <1>4, <1>5, <2>1 DEF After, AfterNext
    <3>2. OneKind(f) /\ Difference(indices, f, indices)
      BY <1>2 DEF OneKind, Difference
    <3>3. SessionOK(f, b, indices, next_id, revision + 1)
      BY <1>1, <3>2 DEF SessionOK, IInv
    <3>4. QED
      BY <1>5, <2>1, <3>1, <3>3 DEF SessionOK
  <2>2. CASE k \in 1 .. Depth
    <3>1. /\ After(k)' = After(k) /\ AfterNext(k)' = AfterNext(k)
          /\ (revision - Depth + k)' = revision - Depth + k
      <4>1. k # Depth + 1 /\ (k # Depth => k + 1 \in 1 .. Depth)
        BY <1>1, <2>2
      <4>2. snap'[k + 1] = IF k = Depth THEN b ELSE snap[k + 1]
        BY <1>5, <4>1
      <4>3. After(k)' = snap'[k + 1].table /\ AfterNext(k)' = snap'[k + 1].next
        BY <1>5, <4>1 DEF After, AfterNext
      <4>4. After(k)' = After(k) /\ AfterNext(k)' = AfterNext(k)
        BY <4>2, <4>3 DEF After, AfterNext
      <4>5. (revision - Depth + k)' = revision - Depth + k
        BY <1>1, <1>4, <1>5, <2>2
      <4>6. QED
        BY <4>4, <4>5
    <3>2. QED
      BY <1>5, <2>2, <3>1 DEF SessionOK, IInv
  <2>3. QED
    BY <1>1, <2>1, <2>2
<1>8. QED
  BY <1>4, <1>5, <1>6, <1>7 DEF IInv

(* Popping an undo state restores the start of its session, which the      *)
(* session below was followed by.                                          *)
LEMMA PopIInv ==
  ASSUME IInv, stack # << >>, PopUndone, mode' \in {"ready", "unwinding"}
  PROVE  /\ IInv'
         /\ indices' = snap[Depth].table
         /\ next_id' = snap[Depth].next
<1>1. /\ Depth \in Nat /\ Depth > 0 /\ revision \in Nat /\ indices \in Table
      /\ stack \in Seq(undo_state) /\ snap \in Seq(Saved) /\ Len(snap) = Depth
      /\ Top \in undo_state /\ snap[Depth] \in Saved /\ snap # << >>
  BY ElementTypes DEF IInv, TypeOK, Depth, Top
<1>2. SessionOK(Top, snap[Depth], indices, next_id, revision)
  BY <1>1 DEF IInv, Top, After, AfterNext
<1>3. /\ indices' = snap[Depth].table
      /\ next_id' = snap[Depth].next
  BY <1>1, <1>2, RevertExact DEF PopUndone, SessionOK, Saved
<1>4. /\ stack' \in Seq(undo_state) /\ snap' \in Seq(Saved)
      /\ Depth' = Depth - 1 /\ Len(snap') = Depth - 1
      /\ \A k \in 1 .. Depth - 1 : stack'[k] = stack[k] /\ snap'[k] = snap[k]
  BY <1>1, FrontFacts DEF PopUndone, Depth
<1>5. revision' = revision - 1 /\ revision' \in Nat
  BY <1>1, <1>2 DEF PopUndone, SessionOK, undo_state
<1>6. TypeOK'
  BY <1>1, <1>3, <1>4, <1>5 DEF TypeOK, Saved, Depth
<1>7. \A i \in Id : i >= next_id' => indices'[i] = Absent
  BY <1>2, <1>3 DEF SessionOK
<1>8. ASSUME NEW k \in 1 .. Depth - 1
      PROVE  SessionOK(stack[k], snap[k], After(k), AfterNext(k), revision - Depth + k)'
  <2>1. /\ k \in 1 .. Depth /\ k # Depth
        /\ k # Depth - 1 => k + 1 \in 1 .. Depth - 1
        /\ k = Depth - 1 => k + 1 = Depth
    BY <1>1
  <2>2. After(k) = snap[k + 1].table /\ AfterNext(k) = snap[k + 1].next
    BY <2>1 DEF After, AfterNext
  <2>3. After(k)' = snap[k + 1].table /\ AfterNext(k)' = snap[k + 1].next
    BY <1>1, <1>3, <1>4, <2>1 DEF After, AfterNext
  <2>4. (revision - Depth + k)' = revision - Depth + k
    BY <1>1, <1>4, <1>5
  <2>5. QED
    BY <1>4, <2>1, <2>2, <2>3, <2>4 DEF SessionOK, IInv
<1>9. QED
  BY <1>3, <1>4, <1>6, <1>7, <1>8 DEF IInv

(* squash: the merged undo state spans both sessions.                      *)
LEMMA SquashIInv ==
  ASSUME IInv, squash
  PROVE  IInv'
<1>1. /\ Depth \in Nat /\ Depth > 0 /\ revision \in Nat /\ indices \in Table
      /\ stack \in Seq(undo_state) /\ snap \in Seq(Saved) /\ Len(snap) = Depth
      /\ Top \in undo_state /\ snap[Depth] \in Saved /\ snap # << >> /\ stack # << >>
  BY ElementTypes DEF IInv, TypeOK, Depth, Top, squash
<1>2. SessionOK(Top, snap[Depth], indices, next_id, revision)
  BY <1>1 DEF IInv, Top, After, AfterNext
<1>3. /\ revision' = revision - 1 /\ revision' \in Nat
      /\ UNCHANGED <<indices, next_id, mode>>
  BY <1>1, <1>2 DEF squash, SessionOK, undo_state
<1>4. /\ snap' \in Seq(Saved) /\ Len(snap') = Depth - 1
      /\ \A k \in 1 .. Depth - 1 : snap'[k] = snap[k]
  BY <1>1, FrontFacts DEF squash
<1>5. CASE Depth = 1
  <2>1. stack' = << >> /\ Depth' = 0
    BY <1>5 DEF squash, Depth
  <2>2. TypeOK'
    BY <1>3, <1>4, <1>5, <2>1, EmptySeq DEF IInv, TypeOK
  <2>3. QED
    BY <1>3, <2>1, <2>2 DEF IInv
<1>6. CASE Depth > 1
  <2> DEFINE d == Depth - 1
             m == Merged(stack[d], Top)
  <2>1. /\ d \in 1 .. Depth /\ d # Depth /\ d + 1 = Depth
        /\ stack[d] \in undo_state /\ snap[d] \in Saved
    BY <1>1, <1>6, ElementTypes
  <2>2. SessionOK(stack[d], snap[d], snap[Depth].table, snap[Depth].next, revision - 1)
    <3>1. SessionOK(stack[d], snap[d], After(d), AfterNext(d), revision - Depth + d)
      BY <2>1 DEF IInv
    <3>2. /\ After(d) = snap[Depth].table /\ AfterNext(d) = snap[Depth].next
          /\ revision - Depth + d = revision - 1
      BY <1>1, <2>1 DEF After, AfterNext
    <3>3. QED
      BY <3>1, <3>2
  <2>3. \A i \in Top.new_ids : i >= snap[d].next /\ snap[d].table[i] = Absent
    <3>1. /\ snap[d].next \in 0 .. MaxId + 1 /\ snap[Depth].next \in 0 .. MaxId + 1
          /\ Top.new_ids \subseteq Id
      BY <1>1, <2>1 DEF Saved, undo_state
    <3>2. /\ snap[d].next <= snap[Depth].next
          /\ \A i \in Id : i >= snap[d].next => snap[d].table[i] = Absent
          /\ \A i \in Top.new_ids : i >= snap[Depth].next
      BY <1>2, <2>2 DEF SessionOK
    <3>3. QED
      BY <3>1, <3>2, BoundAssumption DEF Id
  <2>4. /\ m \in undo_state /\ OneKind(m)
        /\ Difference(snap[d].table, m, indices)
        /\ m.new_ids \subseteq stack[d].new_ids \cup Top.new_ids
        /\ m.old_next_id = stack[d].old_next_id
        /\ m.revision = stack[d].revision
    BY <1>1, <1>2, <2>1, <2>2, <2>3, MergeExact DEF SessionOK, Saved
  <2>5. SessionOK(m, snap[d], indices, next_id, revision - 1)
    <3>1. snap[d].next <= next_id
      BY <1>1, <1>2, <2>1, <2>2 DEF SessionOK, Saved, IInv, TypeOK
    <3>2. QED
      BY <2>2, <2>3, <2>4, <3>1 DEF SessionOK
  <2>6. /\ stack' = [Front(stack) EXCEPT ![d] = m]
        /\ Front(stack) \in Seq(undo_state) /\ Len(Front(stack)) = d
        /\ \A k \in 1 .. d : Front(stack)[k] = stack[k]
    <3>1. /\ Front(stack) \in Seq(undo_state) /\ Len(Front(stack)) = d
          /\ \A k \in 1 .. d : Front(stack)[k] = stack[k]
      BY <1>1, FrontFacts DEF Depth
    <3>2. stack' = [Front(stack) EXCEPT ![d] = m]
      BY <1>1, <1>6 DEF squash
    <3>3. QED
      BY <3>1, <3>2
  <2>7. /\ stack' \in Seq(undo_state) /\ Depth' = d /\ stack'[d] = m
        /\ \A k \in 1 .. d : k # d => stack'[k] = stack[k]
    <3>1. d \in 1 .. Len(Front(stack))
      BY <1>1, <1>6, <2>6
    <3>2. QED
      BY <2>4, <2>6, <3>1, ReplaceFacts DEF Depth
  <2>8. TypeOK'
    BY <1>1, <1>3, <1>4, <2>7 DEF IInv, TypeOK, Depth
  <2>9. ASSUME NEW k \in 1 .. d
        PROVE  SessionOK(stack[k], snap[k], After(k), AfterNext(k), revision - Depth + k)'
    <3>1. CASE k = d
      <4>1. /\ After(k)' = indices /\ AfterNext(k)' = next_id
            /\ (revision - Depth + k)' = revision - 1
        BY <1>1, <1>3, <2>7, <3>1 DEF After, AfterNext
      <4>2. QED
        BY <1>4, <2>5, <2>7, <3>1, <4>1 DEF SessionOK
    <3>2. CASE k # d
      <4>1. k \in 1 .. Depth /\ k # Depth /\ k + 1 \in 1 .. d
        BY <1>1, <3>2
      <4>2. /\ After(k)' = After(k) /\ AfterNext(k)' = AfterNext(k)
        BY <1>4, <2>7, <3>2, <4>1 DEF After, AfterNext
      <4>3. (revision - Depth + k)' = revision - Depth + k
        BY <1>1, <1>3, <2>7
      <4>4. QED
        BY <1>4, <2>7, <3>2, <4>1, <4>2, <4>3 DEF SessionOK, IInv
    <3>3. QED
      BY <3>1, <3>2
  <2>10. QED
    BY <1>3, <2>7, <2>8, <2>9 DEF IInv
<1>7. QED
  BY <1>1, <1>5, <1>6

(* commit: the sessions that stay keep their undo states and revisions.    *)
LEMMA CommitIInv ==
  ASSUME IInv, NEW r \in 0 .. MaxRevision, commit(r)
  PROVE  IInv'
<1>1. /\ Depth \in Nat /\ revision \in Nat
      /\ stack \in Seq(undo_state) /\ snap \in Seq(Saved) /\ Len(snap) = Depth
  BY ElementTypes DEF IInv, TypeOK, Depth
<1>2. PICK n \in 1 .. Depth : /\ stack' = SubSeq(stack, n + 1, Depth)
                              /\ snap' = SubSeq(snap, n + 1, Depth)
  BY DEF commit
<1>3. /\ stack' \in Seq(undo_state) /\ Depth' = Depth - n
      /\ \A i \in 1 .. Depth - n : stack'[i] = stack[n + i]
  BY <1>1, <1>2, SuffixFacts DEF Depth
<1>4. /\ snap' \in Seq(Saved) /\ Len(snap') = Depth - n
      /\ \A i \in 1 .. Depth - n : snap'[i] = snap[n + i]
  BY <1>1, <1>2, SuffixFacts
<1>5. UNCHANGED <<indices, next_id, revision, mode>>
  BY DEF commit
<1>6. TypeOK'
  BY <1>3, <1>4, <1>5 DEF IInv, TypeOK, Depth
<1>7. ASSUME NEW k \in 1 .. Depth - n
      PROVE  SessionOK(stack[k], snap[k], After(k), AfterNext(k), revision - Depth + k)'
  <2>1. /\ n + k \in 1 .. Depth /\ (k = Depth - n <=> n + k = Depth)
        /\ k # Depth - n => k + 1 \in 1 .. Depth - n /\ n + (k + 1) = (n + k) + 1
        /\ (revision - Depth + k)' = revision - Depth + (n + k)
    BY <1>1, <1>3, <1>5
  <2>2. After(k)' = After(n + k) /\ AfterNext(k)' = AfterNext(n + k)
    BY <1>3, <1>4, <1>5, <2>1 DEF After, AfterNext
  <2>3. QED
    BY <1>3, <1>4, <2>1, <2>2 DEF SessionOK, IInv
<1>8. QED
  BY <1>3, <1>5, <1>6, <1>7 DEF IInv

(* Every step preserves IInv: one case per operation of the index.         *)
LEMMA NextIInv == IInv /\ [Next]_vars => IInv'
<1> SUFFICES ASSUME IInv, [Next]_vars PROVE IInv'
  OBVIOUS
<1>1. ASSUME NEW v \in Val, emplace(v) PROVE IInv'
  BY <1>1, EmplaceIInv
<1>2. ASSUME NEW i \in Id, NEW v \in Val, modify(i, v) PROVE IInv'
  BY <1>2, ModifyIInv
<1>3. ASSUME NEW i \in Id, remove(i) PROVE IInv'
  BY <1>3, RemoveIInv
<1>4. CASE start_undo_session
  BY <1>4, StartIInv
<1>5. CASE undo
  BY <1>5, PopIInv DEF undo
<1>6. CASE undo_all
  BY <1>6, PopIInv DEF undo_all
<1>7. CASE squash
  BY <1>7, SquashIInv
<1>8. ASSUME NEW r \in 0 .. MaxRevision, commit(r) PROVE IInv'
  BY <1>8, CommitIInv
<1>9. ASSUME NEW r \in 0 .. MaxRevision, set_revision(r) PROVE IInv'
  BY <1>9, BoundAssumption DEF set_revision, IInv, TypeOK, Depth
<1>10. CASE UNCHANGED vars
  BY <1>10 DEF vars, IInv, TypeOK, Depth, After, AfterNext, SessionOK
<1>11. QED
  BY <1>1, <1>2, <1>3, <1>4, <1>5, <1>6, <1>7, <1>8, <1>9, <1>10 DEF Next

-----------------------------------------------------------------------------
(* The theorems.                                                           *)

(* The types of generic_index's members hold in every reachable state.     *)
THEOREM TypeCorrect == Spec => []TypeOK
<1>1. IInv => TypeOK
  BY DEF IInv
<1>2. QED
  BY <1>1, InitIInv, NextIInv, PTL DEF Spec

(* Whatever sequence of creations, changes, removals, nested sessions,     *)
(* undos, squashes and commits went before, every undo state on the stack  *)
(* is the exact difference made by its session.                            *)
THEOREM UndoStatesExact == Spec => []FramesExact
BY IInvImplies, InitIInv, NextIInv, PTL DEF Spec

(* The ids handed out by emplace are free now and after any undo.          *)
THEOREM FreshIds == Spec => []IdsFresh
BY IInvImplies, InitIInv, NextIInv, PTL DEF Spec

(* The revisions on the undo stack are consecutive and end at revision().  *)
THEOREM ConsecutiveRevisions == Spec => []RevisionsConsecutive
BY IInvImplies, InitIInv, NextIInv, PTL DEF Spec

(* The N/A entries of the table in squash never occur: its asserts hold.   *)
THEOREM SquashAssertsHold == Spec => []NoIllegalMerge
BY IInvImplies, InitIInv, NextIInv, PTL DEF Spec

(* A step of the index is a step, or a stutter, of the stack of snapshots. *)
LEMMA StepRefines ==
  ASSUME IInv, [Next]_vars
  PROVE  [Snapshots!Next]_(Snapshots!vars)
<1>1. /\ indices \in Table /\ next_id \in 0 .. MaxId + 1 /\ revision \in Nat
      /\ Depth \in Nat /\ Len(snap) = Depth /\ snap \in Seq(Saved)
      /\ stack # << >> => Depth > 0 /\ snap # << >>
  BY ElementTypes DEF IInv, TypeOK, Depth
<1>2. ASSUME NEW v \in Val, emplace(v) PROVE Snapshots!Write
  BY <1>2 DEF emplace, Snapshots!Write
<1>3. ASSUME NEW i \in Id, NEW v \in Val, modify(i, v) PROVE Snapshots!Write
  <2>1. i # next_id
    BY <1>1, <1>3 DEF modify, IInv, Id
  <2>2. QED
    BY <1>3, <2>1 DEF modify, Snapshots!Write
<1>4. ASSUME NEW i \in Id, remove(i) PROVE Snapshots!Write
  <2>1. i # next_id
    BY <1>1, <1>4 DEF remove, IInv, Id
  <2>2. QED
    BY <1>4, <2>1 DEF remove, Snapshots!Write
<1>5. CASE start_undo_session
  BY <1>5 DEF start_undo_session, Snapshots!Next, Snapshots!Begin
<1>6. ASSUME stack # << >>, PopUndone, mode' \in {"ready", "unwinding"}
      PROVE  Snapshots!Undo
  <2>1. indices' = snap[Depth].table /\ next_id' = snap[Depth].next
    BY <1>6, PopIInv
  <2>2. QED
    BY <1>1, <1>6, <2>1 DEF PopUndone, Front, Snapshots!Undo
<1>7. CASE squash
  BY <1>1, <1>7 DEF squash, Front, Snapshots!Next, Snapshots!Squash
<1>8. ASSUME NEW r \in 0 .. MaxRevision, commit(r) PROVE Snapshots!Commit
  BY <1>1, <1>8 DEF commit, Snapshots!Commit
<1>9. ASSUME NEW r \in 0 .. MaxRevision, set_revision(r) PROVE Snapshots!SetRevision
  <2>1. snap = << >>
    BY <1>1, <1>9, EmptySeq DEF set_revision, Depth
  <2>2. QED
    BY <1>9, <2>1, BoundAssumption DEF set_revision, Snapshots!SetRevision
<1>10. CASE UNCHANGED vars
  BY <1>10 DEF vars, Snapshots!vars
<1>11. CASE undo \/ undo_all
  BY <1>6, <1>11 DEF undo, undo_all, IInv, TypeOK, Snapshots!Next
<1>12. QED
  BY <1>2, <1>3, <1>4, <1>5, <1>7, <1>8, <1>9, <1>10, <1>11 DEF Next, Snapshots!Next

(* generic_index implements SnapshotStack: undo brings back exactly the    *)
(* table and the id counter from the start of the session, and squash and  *)
(* commit change only which states can be brought back.                    *)
THEOREM Refinement == Spec => ImplementsSnapshots
<1>1. Init => Snapshots!Init
  BY DEF Init, Snapshots!Init, Empty
<1>2. QED
  BY <1>1, InitIInv, NextIInv, StepRefines, PTL DEF Spec, ImplementsSnapshots, Snapshots!Spec
====
