----------------------- MODULE UnappliedQueue_proofs -----------------------
(***************************************************************************)
(* Proofs about UnappliedQueue, for any transactions, expirations, process *)
(* mode and length of the chain: what was accepted is never lost, and what *)
(* the chain holds never waits to be applied again.                        *)
(***************************************************************************)
EXTENDS UnappliedQueue, Integers, TLAPS

(* What is queued to be applied again.                                     *)
Waiting(q) == QueuedAs(q, "forked") \cup QueuedAs(q, "aborted")

(* The pending block holds nothing that the chain holds: without it an     *)
(* aborted block would queue transactions of the chain.                    *)
PendingFresh == pending.trxs \cap TrxsOf(chain) = {}

(* The inductive invariant.  No transaction is in two blocks of the chain, *)
(* so that popping blocks leaves none of theirs behind.                    *)
QueueInv == TypeOK /\ NothingLost /\ QueueFresh /\ PendingFresh /\ Valid(chain)

Queues == [Trx -> Type]

-----------------------------------------------------------------------------
(* The operations of the queue.                                            *)

LEMMA InsertFacts ==
  ASSUME NEW q \in Queues, NEW type \in {"forked", "aborted"}, NEW S \in SUBSET Trx
  PROVE  /\ Insert(q, type, S) \in Queues
         /\ Queued(Insert(q, type, S)) = Queued(q) \cup S
         /\ Waiting(Insert(q, type, S)) \subseteq Waiting(q) \cup S
BY DEF Insert, Queues, Queued, QueuedAs, Waiting, Type

LEMMA EraseFacts ==
  ASSUME NEW q \in Queues, NEW S \in SUBSET Trx
  PROVE  /\ erase(q, S) \in Queues
         /\ Queued(erase(q, S)) = Queued(q) \ S
         /\ Waiting(erase(q, S)) = Waiting(q) \ S
BY DEF erase, Queues, Queued, QueuedAs, Waiting, Type

LEMMA ClearFacts ==
  ASSUME NEW q \in Queues, NEW S \in SUBSET Trx
  PROVE  /\ clear_applied(q, S) \in Queues
         /\ Queued(q) \ S \subseteq Queued(clear_applied(q, S))
         /\ Waiting(clear_applied(q, S)) = Waiting(q) \ S
<1> DEFINE E == S \ QueuedAs(q, "persisted")
<1>1. clear_applied(q, S) = erase(q, E) /\ E \in SUBSET Trx
  BY DEF clear_applied
<1>2. Waiting(q) \ E = Waiting(q) \ S
  BY DEF Waiting, QueuedAs
<1>3. QED
  BY <1>1, <1>2, EraseFacts

LEMMA PersistFacts ==
  ASSUME NEW q \in Queues, NEW t \in Trx
  PROVE  /\ add_persisted(q, t) \in Queues
         /\ Queued(q) \subseteq Queued(add_persisted(q, t))
         /\ Waiting(add_persisted(q, t)) \subseteq Waiting(q)
BY DEF add_persisted, Queues, Queued, QueuedAs, Waiting, Type

LEMMA AbortedFacts ==
  ASSUME TypeOK
  PROVE  /\ Aborted \in Queues
         /\ Mode = "speculative_producer" => Queued(Aborted) = Queued(queue) \cup pending.trxs
         /\ Waiting(Aborted) \subseteq Waiting(queue) \cup pending.trxs
<1>1. queue \in Queues /\ pending.trxs \in SUBSET Trx
  BY DEF TypeOK, Queues, BlockType
<1>2. QED
  BY <1>1, InsertFacts DEF Aborted, add_aborted

-----------------------------------------------------------------------------
(* The transactions of a chain.                                            *)

LEMMA InTrxsOf ==
  ASSUME NEW s \in Seq(BlockType), NEW x
  PROVE  x \in TrxsOf(s) <=> \E i \in 1..Len(s) : x \in s[i].trxs
<1>1. DOMAIN s = 1..Len(s)
  OBVIOUS
<1>2. QED
  BY <1>1 DEF TrxsOf

LEMMA TrxsOfType ==
  ASSUME NEW s \in Seq(BlockType)
  PROVE  TrxsOf(s) \in SUBSET Trx
<1>1. \A i \in 1..Len(s) : s[i] \in BlockType
  OBVIOUS
<1>2. \A i \in 1..Len(s) : s[i].trxs \subseteq Trx
  BY <1>1 DEF BlockType
<1>3. QED
  BY <1>2, InTrxsOf

LEMMA TrxsOfAppend ==
  ASSUME NEW s \in Seq(BlockType), NEW b \in BlockType
  PROVE  TrxsOf(Append(s, b)) = TrxsOf(s) \cup b.trxs
<1>1. DOMAIN Append(s, b) = DOMAIN s \cup {Len(s) + 1}
  OBVIOUS
<1>2. Append(s, b)[Len(s) + 1] = b /\ \A i \in DOMAIN s : Append(s, b)[i] = s[i]
  OBVIOUS
<1>3. QED
  BY <1>1, <1>2 DEF TrxsOf

LEMMA TrxsOfConcat ==
  ASSUME NEW s \in Seq(BlockType), NEW t \in Seq(BlockType)
  PROVE  s \o t \in Seq(BlockType) /\ TrxsOf(s \o t) = TrxsOf(s) \cup TrxsOf(t)
<1>1. s \o t \in Seq(BlockType) /\ Len(s \o t) = Len(s) + Len(t) /\ Len(s) \in Nat /\ Len(t) \in Nat
  OBVIOUS
<1>2. ASSUME NEW i \in 1..Len(s) PROVE i \in 1..Len(s \o t) /\ (s \o t)[i] = s[i]
  BY <1>1
<1>3. ASSUME NEW i \in 1..Len(t)
      PROVE  Len(s) + i \in 1..Len(s \o t) /\ (s \o t)[Len(s) + i] = t[i]
  BY <1>1
<1>4. ASSUME NEW i \in 1..Len(s \o t), i \notin 1..Len(s)
      PROVE  i - Len(s) \in 1..Len(t) /\ (s \o t)[i] = t[i - Len(s)]
  BY <1>1, <1>4
<1>5. ASSUME NEW x \in TrxsOf(s) PROVE x \in TrxsOf(s \o t)
  <2>1. PICK i \in 1..Len(s) : x \in s[i].trxs
    BY InTrxsOf
  <2>2. QED
    BY <1>1, <1>2, <2>1, InTrxsOf
<1>6. ASSUME NEW x \in TrxsOf(t) PROVE x \in TrxsOf(s \o t)
  <2>1. PICK i \in 1..Len(t) : x \in t[i].trxs
    BY InTrxsOf
  <2>2. QED
    BY <1>1, <1>3, <2>1, InTrxsOf
<1>7. ASSUME NEW x \in TrxsOf(s \o t) PROVE x \in TrxsOf(s) \cup TrxsOf(t)
  <2>1. PICK i \in 1..Len(s \o t) : x \in (s \o t)[i].trxs
    BY <1>1, InTrxsOf
  <2>2. QED
    BY <1>2, <1>4, <2>1, InTrxsOf
<1>8. QED
  BY <1>1, <1>5, <1>6, <1>7

LEMMA ValidAppend ==
  ASSUME NEW s \in Seq(BlockType), NEW b \in BlockType, Valid(s), b.trxs \cap TrxsOf(s) = {}
  PROVE  Valid(Append(s, b))
<1>1. DOMAIN Append(s, b) = DOMAIN s \cup {Len(s) + 1}
  OBVIOUS
<1>2. Append(s, b)[Len(s) + 1] = b /\ \A i \in DOMAIN s : Append(s, b)[i] = s[i]
  OBVIOUS
<1>3. \A i \in DOMAIN s : s[i].trxs \cap b.trxs = {}
  BY DEF TrxsOf
<1>4. QED
  BY <1>1, <1>2, <1>3 DEF Valid

(* The chain is the base of a fork switch and the blocks it pops, and no   *)
(* transaction is in both.                                                 *)
LEMMA BaseAndPopped ==
  ASSUME chain \in Seq(BlockType), Valid(chain), NEW n \in 1..Len(chain)
  PROVE  /\ Base(n) \in Seq(BlockType) /\ Popped(n) \in Seq(BlockType)
         /\ TrxsOf(chain) = TrxsOf(Base(n)) \cup TrxsOf(Popped(n))
         /\ TrxsOf(Base(n)) \cap TrxsOf(Popped(n)) = {}
<1> DEFINE k == Len(chain) - n
<1>1. k \in Nat /\ k + n = Len(chain) /\ n \in Nat /\ n >= 1
  OBVIOUS
<1>2. /\ Base(n) \in Seq(BlockType) /\ Len(Base(n)) = k
      /\ \A i \in 1..k : Base(n)[i] = chain[i]
  <2>1. \A i \in 1..k : chain[i] \in BlockType
    BY <1>1
  <2>2. Base(n) = SubSeq(chain, 1, k)
    BY DEF Base
  <2> HIDE DEF k
  <2>3. Len(Base(n)) = k /\ \A i \in 1..k : Base(n)[i] = chain[i]
    BY <1>1, <2>2
  <2>4. Base(n) \in Seq(BlockType)
    BY <1>1, <2>1, <2>2
  <2>5. QED
    BY <2>3, <2>4
<1>3. /\ Popped(n) \in Seq(BlockType) /\ Len(Popped(n)) = n
      /\ \A i \in 1..n : Popped(n)[i] = chain[k + i]
  <2>1. \A i \in (k + 1)..Len(chain) : chain[i] \in BlockType
    BY <1>1
  <2>2. Len(chain) - n + 1 = k + 1 /\ Len(chain) = k + n
    BY <1>1
  <2>3. Popped(n) = SubSeq(chain, k + 1, k + n)
    BY <2>2 DEF Popped
  <2> HIDE DEF k
  <2>4. Len(Popped(n)) = n /\ \A i \in 1..n : Popped(n)[i] = chain[k + i]
    BY <1>1, <2>3
  <2>5. Popped(n) \in Seq(BlockType)
    BY <1>1, <2>1, <2>3
  <2>6. QED
    BY <2>4, <2>5
<1>4. ASSUME NEW x PROVE x \in TrxsOf(Base(n)) <=> \E i \in 1..k : x \in chain[i].trxs
  BY <1>2, InTrxsOf
<1>5. ASSUME NEW x PROVE x \in TrxsOf(Popped(n)) <=> \E i \in 1..n : x \in chain[k + i].trxs
  BY <1>3, InTrxsOf
<1>6. ASSUME NEW x PROVE x \in TrxsOf(chain) <=> \E i \in 1..(k + n) : x \in chain[i].trxs
  BY <1>1, InTrxsOf
<1> HIDE DEF k
<1>7. ASSUME NEW i \in 1..(k + n) PROVE i \in 1..k \/ (i - k \in 1..n /\ i = k + (i - k))
  BY <1>1
<1>8. \A i \in 1..k : i \in 1..(k + n)
  BY <1>1
<1>9. \A i \in 1..n : k + i \in 1..(k + n)
  BY <1>1
<1>10. TrxsOf(chain) = TrxsOf(Base(n)) \cup TrxsOf(Popped(n))
  BY <1>4, <1>5, <1>6, <1>7, <1>8, <1>9
<1>11. \A i \in 1..k, j \in 1..n : chain[i].trxs \cap chain[k + j].trxs = {}
  BY <1>1 DEF Valid
<1>12. TrxsOf(Base(n)) \cap TrxsOf(Popped(n)) = {}
  BY <1>4, <1>5, <1>11
<1>13. QED
  BY <1>2, <1>3, <1>10, <1>12

-----------------------------------------------------------------------------
(* Every handler preserves the invariant.                                  *)

Entry == [trx : Trx, persist : BOOLEAN]

LEMMA TypeFacts ==
  ASSUME TypeOK
  PROVE  /\ queue \in Queues /\ pending \in BlockType /\ pending.trxs \in SUBSET Trx
         /\ chain \in Seq(BlockType) /\ TrxsOf(chain) \in SUBSET Trx
         /\ incoming \in Seq(Entry) /\ Len(incoming) \in Nat /\ Len(incoming) <= MaxIncoming
         /\ NoBlock \in BlockType /\ NoBlock.trxs = {} /\ HeadTime \in Nat /\ now \in Nat
         /\ {MaxLen, MaxTime, MaxIncoming} \subseteq Nat
<1>1. /\ queue \in Queues /\ pending \in BlockType /\ chain \in Seq(BlockType)
      /\ incoming \in Seq(Entry) /\ Len(incoming) <= MaxIncoming
  BY DEF TypeOK, Queues, Entry
<1>2. pending.trxs \in SUBSET Trx /\ NoBlock \in BlockType /\ NoBlock.trxs = {}
  BY <1>1 DEF BlockType, NoBlock
<1>3. TrxsOf(chain) \in SUBSET Trx
  BY <1>1, TrxsOfType
<1>4. HeadTime \in Nat
  <2>1. CASE chain = <<>>
    BY <2>1 DEF HeadTime
  <2>2. CASE chain # <<>>
    <3>1. chain[Len(chain)] \in BlockType
      BY <1>1, <2>2
    <3>2. QED
      BY <2>2, <3>1 DEF HeadTime, BlockType
  <2>3. QED
    BY <2>1, <2>2
<1>5. now \in Nat /\ {MaxLen, MaxTime, MaxIncoming} \subseteq Nat
  BY QueueAssumption DEF TypeOK
<1>6. QED
  BY <1>1, <1>2, <1>3, <1>4, <1>5

LEMMA InitInv == ASSUME Init PROVE QueueInv
<1>1. queue \in [Trx -> Type] /\ pending \in BlockType /\ pending.trxs = {} /\ chain \in Seq(BlockType)
      /\ incoming \in Seq([trx : Trx, persist : BOOLEAN]) /\ Len(incoming) = 0
  BY DEF Init, Type, BlockType, NoBlock
<1>2. TrxsOf(chain) = {}
  BY DEF Init, TrxsOf
<1>3. TypeOK
  <2>1. now \in 0..MaxTime /\ limit \in 0..MaxIncoming /\ Len(incoming) <= MaxIncoming
    BY <1>1, QueueAssumption DEF Init
  <2>2. /\ producing \in BOOLEAN /\ pc \in {"idle", "start", "expire", "unapplied", "incoming"} /\ pc # "unapplied"
        /\ todo = {} /\ kept = {} /\ accepted = {} /\ gone = {}
    BY DEF Init
  <2>3. QED
    BY <1>1, <2>1, <2>2 DEF TypeOK
<1>4. QED
  BY <1>1, <1>2, <1>3 DEF QueueInv, Init, NothingLost, QueueFresh, PendingFresh, Valid

(* A step that keeps or queues what was pending and what was in the chain, *)
(* or lets it go.                                                          *)
LEMMA Safe ==
  ASSUME QueueInv, TypeOK', Valid(chain)',
         Mode = "speculative_producer" =>
            Queued(queue) \cup pending.trxs \cup TrxsOf(chain) \cup gone \cup (accepted' \ accepted)
              \subseteq Queued(queue') \cup pending'.trxs \cup TrxsOf(chain') \cup gone',
         Waiting(queue') \cap TrxsOf(chain') = {},
         pending'.trxs \cap TrxsOf(chain') = {}
  PROVE  QueueInv'
<1>1. NothingLost'
  BY DEF QueueInv, NothingLost
<1>2. QueueFresh' /\ PendingFresh'
  BY DEF QueueFresh, PendingFresh, Waiting
<1>3. QED
  BY <1>1, <1>2 DEF QueueInv

LEMMA AddIncomingFacts ==
  ASSUME NEW rest \in Seq(Entry), Len(rest) <= MaxIncoming, NEW e \in Entry, MaxIncoming \in Nat
  PROVE  AddIncoming(rest, e) \in Seq(Entry) /\ Len(AddIncoming(rest, e)) <= MaxIncoming
<1>1. CASE Len(rest) < MaxIncoming
  <2>1. AddIncoming(rest, e) = Append(rest, e)
    BY <1>1 DEF AddIncoming
  <2>2. Append(rest, e) \in Seq(Entry) /\ Len(Append(rest, e)) = Len(rest) + 1 /\ Len(rest) \in Nat
    OBVIOUS
  <2>3. QED
    BY <1>1, <2>1, <2>2
<1>2. CASE ~(Len(rest) < MaxIncoming)
  BY <1>2 DEF AddIncoming
<1>3. QED
  BY <1>1, <1>2

(* An incoming transaction that is applied is known to neither the chain   *)
(* nor the pending block.                                                  *)
LEMMA IncomingStep ==
  ASSUME QueueInv, NEW e \in Entry, NEW rest \in Seq(Entry), Len(rest) <= MaxIncoming,
         NEW stop \in BOOLEAN, Incoming(e, rest, stop), UNCHANGED <<producing, chain, now>>,
         pc' \in {"idle", "incoming"}, todo' = todo, limit' \in 0..MaxIncoming
  PROVE  QueueInv'
<1>1. TypeOK
  BY DEF QueueInv
<1>2. /\ queue \in Queues /\ pending \in BlockType /\ pending.trxs \in SUBSET Trx
      /\ chain \in Seq(BlockType) /\ MaxIncoming \in Nat
  BY <1>1, TypeFacts
<1>3. incoming' \in Seq(Entry) /\ Len(incoming') <= MaxIncoming
  BY <1>2, AddIncomingFacts DEF Incoming
<1>4. CASE UNCHANGED <<pending, queue, accepted, kept, gone>>
  <2>1. TypeOK'
    BY <1>1, <1>3, <1>4 DEF TypeOK, Entry
  <2>2. QED
    BY <1>4, <2>1 DEF QueueInv, NothingLost, QueueFresh, PendingFresh
<1>5. CASE /\ ~Known(e.trx)
           /\ pending' = [pending EXCEPT !.trxs = @ \cup {e.trx}]
           /\ queue' = IF e.persist THEN add_persisted(queue, e.trx) ELSE queue
           /\ accepted' = accepted \cup {e.trx}
           /\ kept' = IF e.persist THEN kept \cup {e.trx} ELSE kept
           /\ gone' = gone \ {e.trx}
  <2>1. e.trx \in Trx
    BY DEF Entry
  <2>2. pending' \in BlockType /\ pending'.trxs = pending.trxs \cup {e.trx}
    BY <1>2, <1>5, <2>1 DEF BlockType
  <2>3. /\ queue' \in Queues /\ Queued(queue) \subseteq Queued(queue')
        /\ Waiting(queue') \subseteq Waiting(queue)
    BY <1>2, <1>5, <2>1, PersistFacts
  <2>4. TypeOK'
    <3>1. kept' \subseteq accepted' /\ accepted' \subseteq Trx /\ gone' \subseteq Trx
      BY <1>1, <1>5, <2>1 DEF TypeOK
    <3>2. QED
      BY <1>1, <1>3, <2>2, <2>3, <3>1 DEF TypeOK, Entry, Queues
  <2>5. e.trx \notin TrxsOf(chain)
    BY <1>5 DEF Known
  <2>6. Waiting(queue) \cap TrxsOf(chain) = {} /\ pending.trxs \cap TrxsOf(chain) = {} /\ Valid(chain)
    BY DEF QueueInv, QueueFresh, PendingFresh, Waiting
  <2>7. QED
    BY <1>5, <2>2, <2>3, <2>4, <2>5, <2>6, Safe
<1>6. QED
  BY <1>4, <1>5 DEF Incoming

LEMMA OnIncomingTransactionStep == ASSUME QueueInv, OnIncomingTransaction PROVE QueueInv'
<1>1. PICK t \in Trx, persist \in BOOLEAN, stop \in BOOLEAN :
         Incoming([trx |-> t, persist |-> persist], incoming, stop)
  BY DEF OnIncomingTransaction
<1>2. [trx |-> t, persist |-> persist] \in Entry
  BY DEF Entry
<1>3. incoming \in Seq(Entry) /\ Len(incoming) <= MaxIncoming
  BY TypeFacts DEF QueueInv
<1>4. UNCHANGED <<producing, chain, now, todo>> /\ pc' = "idle" /\ limit' \in 0..MaxIncoming
  BY DEF OnIncomingTransaction, QueueInv, TypeOK
<1>5. QED
  BY <1>1, <1>2, <1>3, <1>4, IncomingStep

LEMMA ProcessIncomingStep == ASSUME QueueInv, ProcessIncoming PROVE QueueInv'
<1>1. PICK stop \in BOOLEAN : Incoming(incoming[1], Tail(incoming), stop) /\ pc' \in {"idle", "incoming"}
  BY DEF ProcessIncoming
<1>2. /\ incoming \in Seq(Entry) /\ Len(incoming) <= MaxIncoming /\ incoming # <<>>
      /\ MaxIncoming \in Nat
  BY TypeFacts DEF QueueInv, ProcessIncoming
<1>3. incoming[1] \in Entry /\ Tail(incoming) \in Seq(Entry) /\ Len(Tail(incoming)) <= MaxIncoming
  BY <1>2
<1>4. UNCHANGED <<producing, chain, now, todo>> /\ limit' \in 0..MaxIncoming
  BY <1>2 DEF ProcessIncoming, QueueInv, TypeOK
<1>5. QED
  BY <1>1, <1>3, <1>4, IncomingStep

(* A block arrives: the chain the controller ends with, and what is queued *)
(* of the pending block and of the blocks popped.                          *)
LEMMA OnIncomingBlockStep == ASSUME QueueInv, OnIncomingBlock PROVE QueueInv'
<1>1. TypeOK /\ Valid(chain) /\ Waiting(queue) \cap TrxsOf(chain) = {} /\ pending.trxs \cap TrxsOf(chain) = {}
  BY DEF QueueInv, QueueFresh, PendingFresh, Waiting
<1>2. /\ queue \in Queues /\ chain \in Seq(BlockType) /\ TrxsOf(chain) \in SUBSET Trx
      /\ NoBlock \in BlockType /\ NoBlock.trxs = {} /\ HeadTime \in Nat /\ pending.trxs \in SUBSET Trx
  BY <1>1, TypeFacts
<1>3. /\ pending' = NoBlock /\ UNCHANGED <<incoming, producing, now, accepted, kept, todo, limit>>
      /\ pc' = "start"
  BY DEF OnIncomingBlock, Reschedule
<1>4. /\ Aborted \in Queues
      /\ Mode = "speculative_producer" => Queued(Aborted) = Queued(queue) \cup pending.trxs
      /\ Waiting(Aborted) \subseteq Waiting(queue) \cup pending.trxs
  BY <1>1, AbortedFacts
<1>5. ASSUME chain' \in Seq(BlockType), Valid(chain'), queue' \in Queues, gone' \in SUBSET Trx, gone \subseteq gone',
             Mode = "speculative_producer" =>
                Queued(Aborted) \cup TrxsOf(chain) \subseteq Queued(queue') \cup TrxsOf(chain') \cup gone',
             Waiting(queue') \cap TrxsOf(chain') = {}
      PROVE  QueueInv'
  <2>1. TypeOK'
    BY <1>1, <1>2, <1>3, <1>5 DEF TypeOK, Queues
  <2>2. QED
    BY <1>2, <1>3, <1>4, <1>5, <2>1, Safe
<1>6. CASE BlockNotApplied
  BY <1>1, <1>2, <1>4, <1>5, <1>6 DEF BlockNotApplied, TypeOK
<1>7. CASE ApplyBlock
  <2>1. PICK b \in Foreign(HeadTime + 1) :
           /\ Valid(Append(chain, b)) /\ chain' = Append(chain, b)
           /\ queue' = clear_applied(Aborted, b.trxs) /\ gone' = gone
    BY <1>7 DEF ApplyBlock
  <2>2. b \in BlockType /\ b.trxs \in SUBSET Trx
    BY <1>2 DEF Foreign, BlockType
  <2>3. chain' \in Seq(BlockType) /\ TrxsOf(chain') = TrxsOf(chain) \cup b.trxs
    BY <1>2, <2>1, <2>2, TrxsOfAppend
  <2>4. /\ queue' \in Queues /\ Queued(Aborted) \ b.trxs \subseteq Queued(queue')
        /\ Waiting(queue') = Waiting(Aborted) \ b.trxs
    BY <1>4, <2>1, <2>2, ClearFacts
  <2>5. gone' \in SUBSET Trx
    BY <1>1, <2>1 DEF TypeOK
  <2>6. QED
    BY <1>1, <1>4, <1>5, <2>1, <2>3, <2>4, <2>5
<1>8. ASSUME NEW n \in 1..Len(chain), NEW new \in Branches(n), Valid(Base(n) \o new),
             SwitchForks(n, new) \/ \E k \in 0..n : SwitchFails(n, new, k)
      PROVE  QueueInv'
  <2>1. /\ Base(n) \in Seq(BlockType) /\ Popped(n) \in Seq(BlockType)
        /\ TrxsOf(chain) = TrxsOf(Base(n)) \cup TrxsOf(Popped(n))
        /\ TrxsOf(Base(n)) \cap TrxsOf(Popped(n)) = {}
    BY <1>1, <1>2, BaseAndPopped
  <2>2. new \in Seq(BlockType) /\ Len(new) = n + 1
    <3> DEFINE from == IF Base(n) = <<>> THEN 1 ELSE Base(n)[Len(Base(n))].time + 1
    <3>1. from \in Nat
      <4>1. CASE Base(n) = <<>>
        BY <4>1
      <4>2. CASE Base(n) # <<>>
        <5>1. Base(n)[Len(Base(n))] \in BlockType
          BY <2>1, <4>2
        <5>2. QED
          BY <4>2, <5>1 DEF BlockType
      <4>3. QED
        BY <4>1, <4>2
    <3>2. new \in [1..(n + 1) -> UNION {Foreign(from + i) : i \in 0..n}]
      BY <1>8 DEF Branches
    <3> HIDE DEF from
    <3>3. UNION {Foreign(from + i) : i \in 0..n} \subseteq BlockType
      BY <3>1 DEF Foreign, BlockType
    <3>4. new \in [1..(n + 1) -> BlockType]
      BY <3>2, <3>3
    <3>5. QED
      BY <3>4
  <2>3. TrxsOf(Popped(n)) \in SUBSET Trx /\ TrxsOf(new) \in SUBSET Trx
    BY <2>1, <2>2, TrxsOfType
  <2> DEFINE q == add_forked(Aborted, Popped(n))
  <2>4. /\ q \in Queues
        /\ Mode = "speculative_producer" => Queued(q) = Queued(Aborted) \cup TrxsOf(Popped(n))
        /\ Waiting(q) \subseteq Waiting(Aborted) \cup TrxsOf(Popped(n))
    BY <1>4, <2>3, InsertFacts DEF add_forked
  <2> HIDE DEF q
  <2>5. CASE SwitchForks(n, new)
    <3>1. chain' = Base(n) \o new /\ queue' = clear_applied(q, TrxsOf(new)) /\ gone' = gone
      BY <2>5 DEF SwitchForks, q
    <3>2. chain' \in Seq(BlockType) /\ TrxsOf(chain') = TrxsOf(Base(n)) \cup TrxsOf(new) /\ Valid(chain')
      BY <1>8, <2>1, <2>2, <3>1, TrxsOfConcat
    <3>3. /\ queue' \in Queues /\ Queued(q) \ TrxsOf(new) \subseteq Queued(queue')
          /\ Waiting(queue') = Waiting(q) \ TrxsOf(new)
      BY <2>3, <2>4, <3>1, ClearFacts
    <3>4. gone' \in SUBSET Trx /\ gone \subseteq gone'
      BY <1>1, <3>1 DEF TypeOK
    <3>5. Waiting(queue') \cap TrxsOf(chain') = {}
      BY <1>1, <1>4, <2>1, <2>4, <3>2, <3>3
    <3>6. Mode = "speculative_producer" =>
             Queued(Aborted) \cup TrxsOf(chain) \subseteq Queued(queue') \cup TrxsOf(chain') \cup gone'
      BY <2>1, <2>4, <3>2, <3>3
    <3>7. QED
      BY <1>5, <3>2, <3>3, <3>4, <3>5, <3>6
  <2>6. ASSUME NEW k \in 0..n, SwitchFails(n, new, k)
        PROVE  QueueInv'
    <3> DEFINE bad == TrxsOf(SubSeq(new, 1, k))
               q1 == clear_applied(q, bad)
    <3>1. chain' = chain /\ queue' = clear_applied(q1, TrxsOf(Popped(n))) /\ gone' = gone \cup (bad \ TrxsOf(chain))
      BY <2>6 DEF SwitchFails, q
    <3>2. bad \in SUBSET Trx
      <4>1. SubSeq(new, 1, k) \in Seq(BlockType)
        <5>1. \A i \in 1..k : new[i] \in BlockType
          BY <2>2
        <5>2. QED
          BY <5>1
      <4>2. QED
        BY <4>1, TrxsOfType
    <3> HIDE DEF bad
    <3>3. q1 \in Queues /\ Queued(q) \ bad \subseteq Queued(q1) /\ Waiting(q1) = Waiting(q) \ bad
      BY <2>4, <3>2, ClearFacts
    <3> HIDE DEF q1
    <3>4. /\ queue' \in Queues /\ Queued(q1) \ TrxsOf(Popped(n)) \subseteq Queued(queue')
          /\ Waiting(queue') = Waiting(q1) \ TrxsOf(Popped(n))
      BY <2>3, <3>1, <3>3, ClearFacts
    <3>5. gone' \in SUBSET Trx /\ gone \subseteq gone'
      BY <1>1, <3>1, <3>2 DEF TypeOK
    <3>6. Waiting(queue') \cap TrxsOf(chain') = {}
      BY <1>1, <1>4, <2>1, <2>4, <3>1, <3>3, <3>4
    <3>7. Mode = "speculative_producer" =>
             Queued(Aborted) \cup TrxsOf(chain) \subseteq Queued(queue') \cup TrxsOf(chain') \cup gone'
      BY <2>1, <2>4, <3>1, <3>3, <3>4
    <3>8. QED
      BY <1>1, <1>2, <1>5, <3>1, <3>4, <3>5, <3>6, <3>7
  <2>7. QED
    BY <1>8, <2>5, <2>6
<1>9. QED
  BY <1>6, <1>7, <1>8 DEF OnIncomingBlock

LEMMA ProduceBlockStep == ASSUME QueueInv, ProduceBlock PROVE QueueInv'
<1>1. TypeOK /\ Valid(chain) /\ Waiting(queue) \cap TrxsOf(chain) = {} /\ pending.trxs \cap TrxsOf(chain) = {}
  BY DEF QueueInv, QueueFresh, PendingFresh, Waiting
<1>2. /\ queue \in Queues /\ chain \in Seq(BlockType) /\ pending \in BlockType
      /\ NoBlock \in BlockType /\ NoBlock.trxs = {} /\ pending.trxs \in SUBSET Trx
  BY <1>1, TypeFacts
<1>3. /\ chain' = Append(chain, pending) /\ queue' = clear_applied(queue, pending.trxs) /\ pending' = NoBlock
      /\ UNCHANGED <<incoming, producing, now, accepted, kept, gone, todo, limit>> /\ pc' = "start"
  BY DEF ProduceBlock, Reschedule
<1>4. chain' \in Seq(BlockType) /\ Valid(chain') /\ TrxsOf(chain') = TrxsOf(chain) \cup pending.trxs
  BY <1>1, <1>2, <1>3, TrxsOfAppend, ValidAppend
<1>5. /\ queue' \in Queues /\ Queued(queue) \ pending.trxs \subseteq Queued(queue')
      /\ Waiting(queue') = Waiting(queue) \ pending.trxs
  BY <1>2, <1>3, ClearFacts
<1>6. TypeOK'
  BY <1>1, <1>2, <1>3, <1>4, <1>5 DEF TypeOK, Queues
<1>7. QED
  BY <1>1, <1>2, <1>3, <1>4, <1>5, <1>6, Safe

(* The pending block ends and its transactions are queued; a new one may   *)
(* have begun.                                                             *)
LEMMA AbortStep ==
  ASSUME QueueInv, queue' = Aborted, pending' \in BlockType, pending'.trxs = {},
         UNCHANGED <<incoming, chain, now, todo, accepted, kept, gone>>,
         producing' \in BOOLEAN, limit' \in 0..MaxIncoming, pc' \in {"idle", "start", "expire"}
  PROVE  QueueInv'
<1>1. TypeOK /\ Valid(chain) /\ Waiting(queue) \cap TrxsOf(chain) = {} /\ pending.trxs \cap TrxsOf(chain) = {}
  BY DEF QueueInv, QueueFresh, PendingFresh, Waiting
<1>2. /\ Aborted \in Queues
      /\ Mode = "speculative_producer" => Queued(Aborted) = Queued(queue) \cup pending.trxs
      /\ Waiting(Aborted) \subseteq Waiting(queue) \cup pending.trxs
  BY <1>1, AbortedFacts
<1>3. TypeOK'
  BY <1>1, <1>2 DEF TypeOK, Queues
<1>4. QED
  BY <1>1, <1>2, <1>3, Safe

LEMMA AbortPendingStep == ASSUME QueueInv, AbortPending PROVE QueueInv'
<1>1. TypeOK /\ NoBlock \in BlockType /\ NoBlock.trxs = {}
  BY TypeFacts DEF QueueInv
<1>2. QED
  BY <1>1, AbortStep DEF AbortPending, Reschedule, TypeOK

LEMMA BeginStep == ASSUME QueueInv, Begin PROVE QueueInv'
<1>1. /\ TypeOK /\ NoBlock \in BlockType /\ NoBlock.trxs = {} /\ HeadTime \in Nat /\ now \in Nat
      /\ Len(incoming) \in Nat /\ Len(incoming) <= MaxIncoming /\ MaxIncoming \in Nat
  BY TypeFacts DEF QueueInv
<1>2. /\ queue' = Aborted /\ producing' \in BOOLEAN /\ limit' = Len(incoming)
      /\ UNCHANGED <<incoming, chain, now, todo, accepted, kept, gone>>
      /\ pending' \in {NoBlock, [time |-> PendingTime, trxs |-> {}]} /\ pc' \in {"idle", "expire"}
  BY DEF Begin
<1>3. PendingTime \in Nat
  BY <1>1 DEF PendingTime
<1>4. pending' \in BlockType /\ pending'.trxs = {}
  BY <1>1, <1>2, <1>3 DEF BlockType
<1>5. limit' \in 0..MaxIncoming
  BY <1>1, <1>2
<1>6. QED
  BY <1>2, <1>4, <1>5, AbortStep

(* Steps that leave the queue, the pending block and the chain alone.      *)
LEMMA QuietStep ==
  ASSUME QueueInv, LoopTimer \/ Tick \/ Wait \/ UnappliedDone \/ StartDone \/ UNCHANGED vars
  PROVE  QueueInv'
<1>1. TypeOK /\ MaxTime \in Nat
  BY TypeFacts DEF QueueInv
<1>2. UNCHANGED <<queue, incoming, pending, chain, todo, limit, accepted, kept, gone>>
  BY DEF LoopTimer, Tick, Wait, UnappliedDone, StartDone, Reschedule, vars
<1>3. now' \in 0..MaxTime
  <2>1. now \in 0..MaxTime
    BY <1>1 DEF TypeOK
  <2>2. CASE Tick
    BY <1>1, <2>1, <2>2 DEF Tick
  <2>3. CASE ~Tick
    <3>1. now' = now
      BY <2>3 DEF LoopTimer, Wait, UnappliedDone, StartDone, vars
    <3>2. QED
      BY <2>1, <3>1
  <2>4. QED
    BY <2>2, <2>3
<1>4. producing' \in BOOLEAN
  <2>1. CASE Wait
    <3>1. producing' \in BOOLEAN \/ producing' \in {FALSE}
      BY <2>1 DEF Wait
    <3>2. QED
      BY <3>1
  <2>2. CASE ~Wait
    BY <1>1, <2>2 DEF LoopTimer, Tick, UnappliedDone, StartDone, vars, TypeOK
  <2>3. QED
    BY <2>1, <2>2
<1>5. /\ pc' \in {"idle", "start", "expire", "unapplied", "incoming"}
      /\ pc' = "unapplied" => pc = "unapplied"
  BY <1>1 DEF LoopTimer, Tick, Wait, UnappliedDone, StartDone, Reschedule, vars, TypeOK
<1>6. TypeOK'
  BY <1>1, <1>2, <1>3, <1>4, <1>5 DEF TypeOK
<1>7. QED
  BY <1>2, <1>6 DEF QueueInv, NothingLost, QueueFresh, PendingFresh

LEMMA RemoveExpiredStep == ASSUME QueueInv, RemoveExpired PROVE QueueInv'
<1>1. TypeOK /\ Valid(chain) /\ Waiting(queue) \cap TrxsOf(chain) = {} /\ pending.trxs \cap TrxsOf(chain) = {}
  BY DEF QueueInv, QueueFresh, PendingFresh, Waiting
<1>2. queue \in Queues
  BY <1>1, TypeFacts
<1>3. PICK S \in SUBSET Trx :
         queue' = erase(queue, S) /\ gone' = gone \cup S /\ pc' \in {"unapplied", "idle"}
  BY DEF RemoveExpired, Queued
<1>4. /\ UNCHANGED <<incoming, pending, producing, chain, now, limit, accepted, kept>>
      /\ todo' \subseteq Queued(queue')
  BY DEF RemoveExpired, Queued, QueuedAs
<1>5. queue' \in Queues /\ Queued(queue') = Queued(queue) \ S /\ Waiting(queue') = Waiting(queue) \ S
  BY <1>2, <1>3, EraseFacts
<1>6. TypeOK'
  <2>1. todo' \subseteq Trx /\ gone' \subseteq Trx
    BY <1>1, <1>3, <1>4 DEF TypeOK, Queued
  <2>2. QED
    BY <1>1, <1>3, <1>4, <1>5, <2>1 DEF TypeOK, Queues
<1>7. QED
  BY <1>1, <1>3, <1>4, <1>5, <1>6, Safe

LEMMA ProcessUnappliedStep == ASSUME QueueInv, ProcessUnapplied PROVE QueueInv'
<1>1. TypeOK /\ Valid(chain) /\ Waiting(queue) \cap TrxsOf(chain) = {} /\ pending.trxs \cap TrxsOf(chain) = {}
  BY DEF QueueInv, QueueFresh, PendingFresh, Waiting
<1>2. queue \in Queues /\ pending \in BlockType /\ pc = "unapplied" /\ todo \subseteq Queued(queue) /\ todo \subseteq Trx
  BY <1>1, TypeFacts DEF ProcessUnapplied, TypeOK
<1>3. UNCHANGED <<incoming, producing, chain, now, limit, accepted, kept>>
  BY DEF ProcessUnapplied
<1>4. PICK t \in todo :
         \/ /\ ~Known(t) /\ pending' = [pending EXCEPT !.trxs = @ \cup {t}]
            /\ queue' = erase(queue, {t}) /\ todo' = todo \ {t} /\ UNCHANGED <<pc, gone>>
         \/ /\ queue' = erase(queue, {t}) /\ gone' = IF Known(t) THEN gone ELSE gone \cup {t}
            /\ todo' = todo \ {t} /\ UNCHANGED <<pc, pending>>
         \/ /\ todo' \in {todo \ {t}, {}} /\ pc' \in {pc, "idle"} /\ UNCHANGED <<pending, queue, gone>>
  BY DEF ProcessUnapplied
<1>5. /\ erase(queue, {t}) \in Queues /\ Queued(erase(queue, {t})) = Queued(queue) \ {t}
      /\ Waiting(erase(queue, {t})) = Waiting(queue) \ {t} /\ t \in Trx
  BY <1>2, EraseFacts
<1>6. CASE /\ ~Known(t) /\ pending' = [pending EXCEPT !.trxs = @ \cup {t}]
           /\ queue' = erase(queue, {t}) /\ todo' = todo \ {t} /\ UNCHANGED <<pc, gone>>
  <2>1. pending' \in BlockType /\ pending'.trxs = pending.trxs \cup {t} /\ t \notin TrxsOf(chain)
    BY <1>2, <1>5, <1>6 DEF BlockType, Known
  <2>2. TypeOK'
    BY <1>1, <1>2, <1>3, <1>5, <1>6, <2>1 DEF TypeOK, Queues
  <2>3. QED
    BY <1>1, <1>3, <1>5, <1>6, <2>1, <2>2, Safe
<1>7. CASE /\ queue' = erase(queue, {t}) /\ gone' = IF Known(t) THEN gone ELSE gone \cup {t}
           /\ todo' = todo \ {t} /\ UNCHANGED <<pc, pending>>
  <2>1. t \in TrxsOf(chain) \cup pending.trxs \cup gone' /\ gone \subseteq gone' /\ gone' \subseteq Trx
    BY <1>1, <1>5, <1>7 DEF Known, TypeOK
  <2>2. TypeOK'
    BY <1>1, <1>2, <1>3, <1>5, <1>7, <2>1 DEF TypeOK, Queues
  <2>3. QED
    BY <1>1, <1>3, <1>5, <1>7, <2>1, <2>2, Safe
<1>8. CASE /\ todo' \in {todo \ {t}, {}} /\ pc' \in {pc, "idle"} /\ UNCHANGED <<pending, queue, gone>>
  <2>1. TypeOK'
    BY <1>1, <1>2, <1>3, <1>8 DEF TypeOK
  <2>2. QED
    BY <1>1, <1>3, <1>8, <2>1, Safe
<1>9. QED
  BY <1>4, <1>6, <1>7, <1>8

LEMMA NextInv == ASSUME QueueInv, [Next]_vars PROVE QueueInv'
BY OnIncomingTransactionStep, OnIncomingBlockStep, ProduceBlockStep, AbortPendingStep, BeginStep,
   QuietStep, RemoveExpiredStep, ProcessUnappliedStep, ProcessIncomingStep
DEF Next

-----------------------------------------------------------------------------
(* The theorems.                                                           *)

(* The invariant of the queue holds in every reachable state.              *)
THEOREM QueueInvariant == Spec => []QueueInv
BY InitInv, NextInv, PTL DEF Spec

(* The queue, the pending block and the chain keep their types.            *)
THEOREM TypeCorrect == Spec => []TypeOK
<1>1. QueueInv => TypeOK
  BY DEF QueueInv
<1>2. QED
  BY <1>1, QueueInvariant, PTL

(* A transaction that a producing node accepted is queued, pending or in   *)
(* the chain until it fails, expires or is discarded with a bad fork,      *)
(* whatever blocks are aborted, forked out and applied again.              *)
THEOREM AcceptedKept == Spec => []NothingLost
<1>1. QueueInv => NothingLost
  BY DEF QueueInv
<1>2. QED
  BY <1>1, QueueInvariant, PTL

(* Nothing that the chain holds waits to be applied again as forked or     *)
(* aborted.                                                                *)
THEOREM ChainNotQueued == Spec => []QueueFresh
<1>1. QueueInv => QueueFresh
  BY DEF QueueInv
<1>2. QED
  BY <1>1, QueueInvariant, PTL

=============================================================================
