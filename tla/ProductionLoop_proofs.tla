----------------------- MODULE ProductionLoop_proofs -----------------------
(***************************************************************************)
(* Proofs about ProductionLoop, for any number of producers, repetitions   *)
(* and local producers.  A watermark covers all blocks signed for its      *)
(* producer and stays below the block being produced; a timer is never     *)
(* later than the next turn that a local producer could take; and at most  *)
(* one handler in the queue is current.                                    *)
(***************************************************************************)
EXTENDS ProductionLoop, Integers, NaturalsInduction, WellFoundedInduction, TLAPS

Timers == {NoTimer} \cup [kind : {"loop", "produce"}, at : Nat]
Handlers == [kind : {"loop", "produce"}, current : BOOLEAN]

LoopType ==
    [mode : {"producing", "speculating"}, pending : [slot : Nat],
     timer : Timers, queued : SUBSET Handlers]

Marks == [Mine -> [num : Nat, slot : Nat]]
Heads == [num : Nat \ {0}, slot : Nat]

Types ==
    /\ now \in Nat /\ head \in Heads
    /\ enabled \in BOOLEAN /\ paused \in BOOLEAN /\ stale \in BOOLEAN
    /\ clean \in BOOLEAN /\ missed \in BOOLEAN
    /\ marks \in Marks
    /\ signed \in Seq(Heads)
    /\ loop \in LoopType

(* The loop m at time t, on the head h with the watermarks wms.            *)
Current(m) == {g \in m.queued : g.current}
Soon(t, m) == Current(m) # {} \/ (m.timer # NoTimer /\ m.timer.at <= t)
Producing(m) == m.mode = "producing" /\ m.pending # NoBlock

(* The slot is a local producer's, and its watermark does not forbid a     *)
(* block of that slot on the head h.                                       *)
TurnOn(slot, h, wms) ==
    LET p == ScheduledIndex(slot)
    IN  /\ p \in Mine
        /\ wms[p] # NoMark => wms[p].num <= h.num /\ wms[p].slot < slot

(* A timer was armed after the handlers in the queue, and they are told    *)
(* apart by their ids.                                                     *)
OneCurrent(m) ==
    /\ m.timer # NoTimer => Current(m) = {}
    /\ \A g, k \in Current(m) : g = k

ProduceReady(m) ==
    m.timer.kind = "produce" \/ (\E g \in Current(m) : g.kind = "produce") => Producing(m)

Awake(m, disabled) ==
    m.mode = "producing" \/ (Mine # {} /\ ~disabled) => m.timer # NoTimer \/ Current(m) # {}

(* The pending block was begun on the head, now or before.                 *)
PendingOnHead(t, m, h) ==
    m.pending # NoBlock => h.slot < m.pending.slot /\ m.pending.slot <= BlockSlot(t, h)

TurnKept(m, h, wms) == Producing(m) => TurnOn(m.pending.slot, h, wms)

WakesInTime(t, m, h, wms) ==
    m.timer # NoTimer =>
        \A u \in Nat : u > t /\ h.slot <= u /\ TurnOn(u + 1, h, wms) => m.timer.at <= u

(* A block being produced is not late: its handler is due, or its slot has *)
(* not begun.                                                              *)
BlockInTime(t, m, h) == Producing(m) => m.pending.slot > t /\ (Soon(t, m) \/ h.slot > t)

LoopOK(t, m, h, disabled, wms) ==
    /\ OneCurrent(m) /\ ProduceReady(m) /\ Awake(m, disabled) /\ PendingOnHead(t, m, h)
    /\ TurnKept(m, h, wms) /\ WakesInTime(t, m, h, wms) /\ BlockInTime(t, m, h)

(* The watermark of its producer covers the block b.                       *)
Covered(b, wms) ==
    LET p == ScheduledIndex(b.slot)
    IN  p \in Mine /\ b.num <= wms[p].num /\ b.slot <= wms[p].slot

SignedMarked == \A i \in 1..Len(signed) : Covered(signed[i], marks)

(* In a slot that nothing has disturbed the block is there and the loop    *)
(* waits for the next slot, or it is still to come.                        *)
CleanSlot ==
    clean => /\ ~paused
             /\ \/ head.slot = now + 1 /\ loop.pending = NoBlock /\ ~Soon(now, loop)
                \/ head.slot <= now /\ ~Disabled /\ TurnOn(now + 1, head, marks) /\ Soon(now, loop)

(* The inductive invariant.                                                *)
LoopInv ==
    /\ Types /\ LoopOK(now, loop, head, Disabled, marks) /\ SignedMarked /\ CleanSlot /\ ~missed

-----------------------------------------------------------------------------
(* Turns.                                                                  *)

(* A nonempty set of naturals has a least element.                         *)
LEMMA LeastNat ==
  ASSUME NEW T, T \subseteq Nat, T # {}
  PROVE  \E x \in T : \A y \in T : x <= y
<1> DEFINE R == {ss \in Nat \X Nat : ss[1] < ss[2]}
<1>1. R = OpToRel(<, Nat)
  BY Zenon DEF OpToRel
<1>2. IsWellFoundedOn(R, Nat)
  BY <1>1, NatLessThanWellFounded, Zenon
<1>3. PICK x \in T : \A y \in T : ~ (<<y, x>> \in R)
  BY <1>2, WFMin, Zenon
<1>4. ASSUME NEW y \in T PROVE x <= y
  <2>1. x \in Nat /\ y \in Nat
    OBVIOUS
  <2>2. ~(y < x)
    <3> SUFFICES ASSUME y < x PROVE FALSE
      OBVIOUS
    <3>1. <<y, x>> \in Nat \X Nat /\ <<y, x>>[1] < <<y, x>>[2]
      BY <2>1
    <3>2. <<y, x>> \in R
      BY <3>1, Zenon
    <3>3. QED
      BY <1>3, <3>2, Zenon
  <2>3. QED
    BY <2>1, <2>2
<1>5. QED
  BY <1>4

(* Division with remainder, and its uniqueness.                            *)
LEMMA DivMod ==
  ASSUME NEW x \in Nat, NEW n \in Nat \ {0}
  PROVE  /\ x \div n \in Nat /\ x % n \in 0..(n - 1)
         /\ x = n * (x \div n) + (x % n)
OBVIOUS

LEMMA MulMono ==
  ASSUME NEW a \in Nat, NEW b \in Nat, NEW n \in Nat, a <= b
  PROVE  a * n <= b * n
BY SMT

LEMMA MulSucc ==
  ASSUME NEW a \in Nat, NEW n \in Nat
  PROVE  (a + 1) * n = a * n + n
BY SMT

LEMMA QuotientOrder ==
  ASSUME NEW n \in Nat \ {0}, NEW a \in Nat, NEW b \in Nat,
         NEW r \in 0..(n - 1), NEW t \in 0..(n - 1), a * n + r <= b * n + t
  PROVE  a <= b
<1> SUFFICES ASSUME b + 1 <= a PROVE FALSE
  OBVIOUS
<1>1. (b + 1) * n <= a * n
  BY MulMono
<1>2. (b + 1) * n = b * n + n
  BY MulSucc
<1>3. a * n \in Nat /\ b * n \in Nat
  OBVIOUS
<1>4. QED
  <2> DEFINE A == a * n  B == b * n
  <2> HIDE DEF A, B
  <2>1. A \in Nat /\ B \in Nat /\ B + n <= A /\ A + r <= B + t
    BY <1>1, <1>2, <1>3 DEF A, B
  <2>2. QED
    BY <2>1

(* A slot is the r-th of the producer p in round c.                        *)
LEMMA SlotParts ==
  ASSUME NEW s \in Nat
  PROVE  \E c \in Nat, r \in 0..(Rep - 1) :
            /\ ScheduledIndex(s) \in 0..(N - 1)
            /\ s = (c * N + ScheduledIndex(s)) * Rep + r
            /\ s % Rep = r
<1> USE SlotsAssumption
<1> DEFINE M == N * Rep  c == s \div M  m == s % M  p == m \div Rep  r == m % Rep
<1>1. M \in Nat \ {0}
  OBVIOUS
<1> HIDE DEF M
<1>2. c \in Nat /\ m \in 0..(M - 1) /\ s = M * c + m
  BY <1>1, DivMod
<1> HIDE DEF c, m
<1>3. p \in Nat /\ r \in 0..(Rep - 1) /\ m = Rep * p + r
  <2>1. m \in Nat
    BY <1>1, <1>2
  <2>2. QED
    BY <2>1, DivMod
<1>4. p = ScheduledIndex(s)
  BY DEF ScheduledIndex, m, M
<1> HIDE DEF p, r
<1>5. p \in 0..(N - 1)
  <2> SUFFICES ASSUME N <= p PROVE FALSE
    BY <1>3
  <2>1. N * Rep <= p * Rep
    BY MulMono, <1>3
  <2>2. QED
    BY <2>1, <1>2, <1>3, <1>1 DEF M
<1>6. s = (c * N + p) * Rep + r
  <2>1. (c * N + p) * Rep = M * c + Rep * p
    BY <1>1, <1>2, <1>3 DEF M
  <2>2. QED
    BY <2>1, <1>2, <1>3, <1>1
<1>7. s % Rep = r
  <2> DEFINE u == c * N + p  v == s \div Rep  w == s % Rep
  <2>1. u \in Nat
    BY <1>2, <1>3
  <2>2. v \in Nat /\ w \in 0..(Rep - 1) /\ s = Rep * v + w
    BY DivMod
  <2> HIDE DEF u, v, w
  <2>3. s = u * Rep + r /\ s = v * Rep + w
    BY <1>6, <2>2 DEF u
  <2>4. u * Rep + r <= v * Rep + w /\ v * Rep + w <= u * Rep + r
    BY <2>3
  <2>5. u = v
    BY <2>1, <2>2, <2>4, <1>3, QuotientOrder
  <2>6. QED
    BY <2>5, <2>3, <2>1, <2>2, <1>3 DEF w
<1>8. QED
  BY <1>2, <1>3, <1>4, <1>5, <1>6, <1>7

(* calculate_next_block_time returns the first slot of the producer p that *)
(* is not before the minimum slot.                                         *)
LEMMA NextSlotFirst ==
  ASSUME NEW p \in 0..(N - 1), NEW min \in Nat
  PROVE  /\ NextSlot(p, min) \in Nat /\ NextSlot(p, min) >= min
         /\ \A s \in Nat : s >= min /\ ScheduledIndex(s) = p => NextSlot(p, min) <= s
<1> USE SlotsAssumption
<1> DEFINE q == ScheduledIndex(min)  d == IF p < q THEN p + N - q ELSE p - q
<1>1. PICK a \in Nat, r \in 0..(Rep - 1) :
         q \in 0..(N - 1) /\ min = (a * N + q) * Rep + r /\ min % Rep = r
  BY SlotParts
<1>2. CASE p = q
  BY <1>2 DEF NextSlot
<1>3. CASE p # q
  <2> DEFINE V == a * N + q
  <2>1. NextSlot(p, min) = min - (min % Rep) + d * Rep
    BY <1>3 DEF NextSlot
  <2> HIDE DEF q
  <2>2. d \in Nat \ {0}
    BY <1>1, <1>3
  <2>3. V \in Nat /\ V * Rep \in Nat /\ V + d \in Nat
    BY <1>1, <2>2
  <2> DEFINE vr == V * Rep  dr == d * Rep
  <2>4. dr \in Nat /\ dr >= Rep
    BY <2>2, MulMono
  <2>5. (V + d) * Rep = vr + dr
    BY <2>2, <2>3
  <2>6. min = vr + r /\ vr \in Nat
    BY <1>1, <2>3
  <2>7. NextSlot(p, min) = vr + dr
    <3> HIDE DEF vr, dr, V, d
    <3>1. NextSlot(p, min) = (vr + r) - r + dr
      BY <2>1, <1>1, <2>6 DEF dr
    <3>2. QED
      BY <3>1, <2>4, <2>6
  <2>8. NextSlot(p, min) \in Nat /\ NextSlot(p, min) >= min
    <3> HIDE DEF vr, dr, V, d
    <3>1. QED
      BY <2>7, <2>4, <2>6
  <2>9. ASSUME NEW s \in Nat, s >= min, ScheduledIndex(s) = p
        PROVE  NextSlot(p, min) <= s
    <3>1. PICK b \in Nat, t \in 0..(Rep - 1) : s = (b * N + p) * Rep + t
      BY SlotParts, <2>9
    <3> DEFINE U == b * N + p
    <3>2. U \in Nat
      OBVIOUS
    <3>3. V <= U
      <4> HIDE DEF U, V
      <4>1. V * Rep + r <= U * Rep + t
        BY <3>1, <2>6, <2>9 DEF U
      <4>2. QED
        BY <4>1, <3>2, <2>3, QuotientOrder
    <3>4. V + d <= U
      <4>1. CASE p < q
        <5>1. V + d = (a + 1) * N + p
          BY <4>1, <1>1, MulSucc
        <5>2. a + 1 <= b
          <6> SUFFICES ASSUME b <= a PROVE FALSE
            OBVIOUS
          <6>1. b * N <= a * N
            BY MulMono
          <6> DEFINE A == a * N  B == b * N
          <6>2. A \in Nat /\ B \in Nat
            OBVIOUS
          <6> HIDE DEF A, B
          <6>3. A + q <= B + p /\ B <= A
            BY <3>3, <6>1 DEF A, B
          <6>4. QED
            BY <6>2, <6>3, <4>1, <1>1
        <5>3. (a + 1) * N <= b * N
          BY <5>2, MulMono
        <5>4. (a + 1) * N \in Nat /\ b * N \in Nat
          OBVIOUS
        <5>5. QED
          BY <5>1, <5>3, <5>4
      <4>2. CASE q < p
        <5>1. V + d = a * N + p
          BY <4>2, <1>1
        <5>2. a <= b
          <6>1. p \in 0..(N - 1) /\ q \in 0..(N - 1) /\ a * N + q <= b * N + p
            BY <3>3, <1>1
          <6>2. QED
            BY <6>1, QuotientOrder
        <5>3. a * N <= b * N
          BY <5>2, MulMono
        <5>4. a * N \in Nat /\ b * N \in Nat
          OBVIOUS
        <5>5. QED
          BY <5>1, <5>3, <5>4
      <4>3. QED
        BY <4>1, <4>2, <1>1, <1>3
    <3>5. (V + d) * Rep <= U * Rep
      BY <3>4, <3>2, <2>3, MulMono
    <3>6. U * Rep \in Nat
      BY <3>2
    <3> DEFINE ur == U * Rep
    <3>7. vr + dr <= ur /\ ur \in Nat /\ s = ur + t
      BY <3>5, <3>6, <2>5, <3>1
    <3>8. QED
      <4> HIDE DEF ur, vr, dr
      <4>1. QED
        BY <3>7, <2>7, <2>4, <2>6
  <2>10. QED
    BY <2>8, <2>9
<1>4. QED
  BY <1>2, <1>3

(* A turn after cur that the watermark allows is not before the minimum    *)
(* slot, whether the block to come is counted from the head or after it.   *)
LEMMA MinimumBefore ==
  ASSUME NEW cur \in Nat, NEW h \in Heads, NEW num \in {h.num, h.num + 1}, NEW wms \in Marks,
         NEW p \in Mine
  PROVE  /\ MinimumSlot(cur, num, wms[p]) \in Nat /\ MinimumSlot(cur, num, wms[p]) > cur
         /\ \A s \in Nat :
               s > cur /\ TurnOn(s, h, wms) /\ ScheduledIndex(s) = p
                 => MinimumSlot(cur, num, wms[p]) <= s
<1>1. wms[p] \in [num : Nat, slot : Nat] /\ h.num \in Nat /\ num \in Nat /\ num >= h.num
  BY DEF Marks, Heads
<1>2. MinimumSlot(cur, num, wms[p]) \in Nat /\ MinimumSlot(cur, num, wms[p]) > cur
  BY <1>1 DEF MinimumSlot
<1>3. ASSUME NEW s \in Nat, s > cur, TurnOn(s, h, wms), ScheduledIndex(s) = p
      PROVE  MinimumSlot(cur, num, wms[p]) <= s
  <2>1. wms[p].num <= h.num /\ wms[p].slot < s
    BY <1>1, <1>3 DEF TurnOn, NoMark
  <2>2. QED
    BY <1>1, <1>3, <2>1 DEF MinimumSlot
<1>4. QED
  BY <1>2, <1>3

(* The delayed loop is armed for a time after which no turn is missed.     *)
LEMMA DelayInTime ==
  ASSUME NEW l \in LoopType, NEW cur \in Nat, NEW h \in Heads, NEW wms \in Marks, Mine # {}
  PROVE  \E at \in Nat :
            /\ Delay(l, cur, h, wms) = Arm(l, "loop", at) /\ at >= cur
            /\ \A t \in Nat : t >= cur /\ TurnOn(t + 1, h, wms) => at <= t
<1> DEFINE num == IF l.pending = NoBlock THEN h.num ELSE h.num + 1
           ups == WakeUps(cur, num, wms)
           at == CHOOSE t \in ups : \A u \in ups : t <= u
<1>1. num \in {h.num, h.num + 1}
  OBVIOUS
<1>2. Delay(l, cur, h, wms) = Arm(l, "loop", at)
  BY DEF Delay
<1> HIDE DEF num
<1>3. ASSUME NEW p \in Mine
      PROVE  LET s == NextSlot(p, MinimumSlot(cur, num, wms[p]))
             IN  s \in Nat /\ s > cur
  <2>1. MinimumSlot(cur, num, wms[p]) \in Nat /\ MinimumSlot(cur, num, wms[p]) > cur
    BY <1>1, MinimumBefore
  <2>2. p \in 0..(N - 1)
    BY LoopAssumption
  <2>3. QED
    BY <2>1, <2>2, NextSlotFirst
<1>4. \A u \in ups : u \in Nat /\ u >= cur
  BY <1>3 DEF WakeUps
<1>5. ups \subseteq Nat /\ ups # {}
  BY <1>4 DEF WakeUps
<1>6. at \in ups /\ \A u \in ups : at <= u
  <2>1. \E t \in ups : \A u \in ups : t <= u
    BY <1>5, LeastNat
  <2> HIDE DEF ups
  <2>2. QED
    BY <2>1, Zenon
<1>7. ASSUME NEW t \in Nat, t >= cur, TurnOn(t + 1, h, wms)
      PROVE  at <= t
  <2> DEFINE p == ScheduledIndex(t + 1)
             min == MinimumSlot(cur, num, wms[p])
  <2>1. p \in Mine
    BY <1>7 DEF TurnOn
  <2>2. min \in Nat /\ min <= t + 1
    BY <1>1, <1>7, <2>1, MinimumBefore
  <2>3. NextSlot(p, min) \in Nat /\ NextSlot(p, min) <= t + 1
    <3>1. p \in 0..(N - 1)
      BY <2>1, LoopAssumption
    <3> HIDE DEF min
    <3>2. QED
      BY <2>2, <3>1, NextSlotFirst
  <2>4. NextSlot(p, min) - 1 \in ups
    BY <2>1 DEF WakeUps
  <2>5. at <= NextSlot(p, min) - 1 /\ at \in Nat
    BY <1>5, <1>6, <2>4
  <2>6. QED
    BY <2>3, <2>5
<1>8. QED
  BY <1>2, <1>4, <1>5, <1>6, <1>7

-----------------------------------------------------------------------------
(* What schedule_production_loop leaves.                                   *)

LEMMA ArmFacts ==
  ASSUME NEW l \in LoopType, NEW kind \in {"loop", "produce"}, NEW at \in Nat
  PROVE  LET m == Arm(l, kind, at)
         IN  /\ m \in LoopType /\ m.mode = l.mode /\ m.pending = l.pending
             /\ m.timer = [kind |-> kind, at |-> at] /\ m.timer # NoTimer
             /\ \A g \in m.queued : ~g.current
<1> DEFINE m == Arm(l, kind, at)
           old == {[g EXCEPT !.current = FALSE] : g \in l.queued}
<1>1. l.queued \subseteq Handlers
  BY DEF LoopType
<1>2. old \subseteq Handlers /\ \A g \in old : ~g.current
  BY <1>1 DEF Handlers
<1>3. m = [l EXCEPT !.timer = [kind |-> kind, at |-> at], !.queued = old]
  BY DEF Arm
<1> HIDE DEF old
<1>4. /\ m \in LoopType /\ m.mode = l.mode /\ m.pending = l.pending
      /\ m.timer = [kind |-> kind, at |-> at] /\ m.queued = old
  <2>1. [kind |-> kind, at |-> at] \in Timers
    BY DEF Timers
  <2>2. QED
    BY <1>2, <1>3, <2>1 DEF LoopType
<1>5. [kind |-> kind, at |-> at] # NoTimer
  BY DEF NoTimer
<1>6. QED
  BY <1>2, <1>4, <1>5

(* No timer is armed: only while production is disabled or impossible.     *)
Unarmed(l, h, disabled, m) ==
    /\ disabled \/ Mine = {}
    /\ m.mode = "speculating" /\ m.timer = NoTimer /\ m.queued = l.queued
    /\ m.pending \in {l.pending, [slot |-> BlockSlot(now, h)]}

(* A timer of the loop is armed: it fires before any turn to come; and a   *)
(* block that is kept for production has a slot that has not begun.        *)
ArmedLoop(l, h, wms, m) ==
    /\ m.timer # NoTimer /\ m.timer.kind = "loop"
    /\ \A g \in m.queued : ~g.current
    /\ m.pending \in {l.pending, NoBlock, [slot |-> BlockSlot(now, h)]}
    /\ m.mode = "producing" /\ m.pending # NoBlock =>
          m.pending = l.pending /\ h.slot > now /\ TurnOn(BlockSlot(now, h), h, wms)
    /\ \A t \in Nat : t > now /\ h.slot <= t /\ TurnOn(t + 1, h, wms) => m.timer.at <= t

(* The block is begun and the timer that ends it is armed.                 *)
ArmedProduce(h, wms, m) ==
    /\ m.timer = [kind |-> "produce", at |-> now]
    /\ \A g \in m.queued : ~g.current
    /\ m.mode = "producing" /\ m.pending = [slot |-> BlockSlot(now, h)]
    /\ h.slot <= now /\ TurnOn(BlockSlot(now, h), h, wms)

LEMMA ScheduleOutcome ==
  ASSUME now \in Nat, NEW l \in LoopType, NEW h \in Heads, NEW disabled \in BOOLEAN,
         NEW wms \in Marks, NEW m \in Schedule(l, h, disabled, wms)
  PROVE  /\ m \in LoopType
         /\ \/ Unarmed(l, h, disabled, m)
            \/ ArmedLoop(l, h, wms, m)
            \/ ArmedProduce(h, wms, m)
<1> DEFINE slot    == BlockSlot(now, h)
           produce == MayProduce(now, h, disabled, wms)
           l1      == [Cancel(l) EXCEPT !.mode = IF produce THEN "producing" ELSE "speculating"]
           begun   == [l1 EXCEPT !.pending = [slot |-> slot]]
           none    == [l1 EXCEPT !.pending = NoBlock]
<1>1. slot \in Nat /\ slot > now /\ slot > h.slot /\ (slot = now + 1 \/ slot = h.slot + 1) /\ h.slot \in Nat
  BY DEF BlockSlot, Larger, Heads
<1>2. /\ l1 \in LoopType /\ l1.pending = l.pending /\ l1.timer = NoTimer /\ l1.queued = l.queued
      /\ l1.mode = IF produce THEN "producing" ELSE "speculating"
  BY DEF LoopType, Cancel, Timers
<1>3. produce = (~disabled /\ TurnOn(slot, h, wms))
  BY Zenon DEF MayProduce, TurnOn
<1>4. produce => Mine # {}
  BY <1>3 DEF TurnOn
<1>5. \/ ~produce /\ m = (IF disabled THEN l1 ELSE Delay(l1, slot, h, wms))
      \/ produce /\ now < slot - 1 /\ m = Delay(l1, slot - 1, h, wms)
      \/ ~produce /\ m = Arm(l1, "loop", slot - 1)
      \/ m = Arm(none, "loop", now)
      \/ produce /\ ~(now < slot - 1) /\ m = Arm(begun, "produce", now)
      \/ ~produce /\ m = (IF disabled THEN begun ELSE Delay(begun, slot, h, wms))
  <2> HIDE DEF produce
  <2>1. QED
    BY DEF Schedule, produce
<1> HIDE DEF slot, produce, l1
<1>6. /\ begun \in LoopType /\ begun.pending = [slot |-> slot] /\ begun.timer = NoTimer
      /\ begun.queued = l.queued /\ begun.mode = l1.mode
      /\ none \in LoopType /\ none.pending = NoBlock /\ none.mode = l1.mode
  BY <1>1, <1>2 DEF LoopType, NoBlock
<1> HIDE DEF begun, none
<1>7. ASSUME NEW k \in {l1, begun}, ~produce, m = IF disabled THEN k ELSE Delay(k, slot, h, wms)
      PROVE  m \in LoopType /\ (Unarmed(l, h, disabled, m) \/ ArmedLoop(l, h, wms, m))
  <2>1. /\ k \in LoopType /\ k.mode = "speculating" /\ k.timer = NoTimer /\ k.queued = l.queued
        /\ k.pending \in {l.pending, [slot |-> slot]}
    BY <1>2, <1>6, <1>7
  <2>2. CASE disabled \/ Mine = {}
    <3>1. m = k
      BY <1>7, <2>2 DEF Delay
    <3>2. QED
      BY <2>1, <2>2, <3>1 DEF Unarmed, slot
  <2>3. CASE ~disabled /\ Mine # {}
    <3>1. PICK at \in Nat :
             /\ m = Arm(k, "loop", at)
             /\ \A t \in Nat : t >= slot /\ TurnOn(t + 1, h, wms) => at <= t
      BY <1>1, <1>7, <2>1, <2>3, DelayInTime
    <3>2. ASSUME NEW t \in Nat, t > now, h.slot <= t, TurnOn(t + 1, h, wms)
          PROVE  at <= t
      <4>1. t + 1 # slot
        BY <1>3, <1>7, <2>3, <3>2
      <4>2. t >= slot
        BY <1>1, <3>2, <4>1
      <4>3. QED
        BY <3>1, <3>2, <4>2
    <3>3. /\ m \in LoopType /\ m.mode = "speculating" /\ m.pending = k.pending
          /\ m.timer = [kind |-> "loop", at |-> at] /\ m.timer # NoTimer
          /\ \A g \in m.queued : ~g.current
      BY <2>1, <3>1, ArmFacts
    <3>4. QED
      BY <2>1, <3>2, <3>3 DEF ArmedLoop, slot
  <2>4. QED
    BY <2>2, <2>3
<1>8. ASSUME produce, now < slot - 1, m = Delay(l1, slot - 1, h, wms)
      PROVE  m \in LoopType /\ ArmedLoop(l, h, wms, m)
  <2>1. slot - 1 \in Nat /\ h.slot = slot - 1 /\ h.slot > now
    BY <1>1, <1>8
  <2>2. PICK at \in Nat :
           /\ m = Arm(l1, "loop", at)
           /\ \A t \in Nat : t >= slot - 1 /\ TurnOn(t + 1, h, wms) => at <= t
    BY <1>2, <1>4, <1>8, <2>1, DelayInTime
  <2>3. /\ m \in LoopType /\ m.pending = l.pending
        /\ m.timer = [kind |-> "loop", at |-> at] /\ m.timer # NoTimer
        /\ \A g \in m.queued : ~g.current
    BY <1>2, <2>2, ArmFacts
  <2>4. \A t \in Nat : t > now /\ h.slot <= t /\ TurnOn(t + 1, h, wms) => m.timer.at <= t
    BY <2>1, <2>2, <2>3
  <2>5. TurnOn(BlockSlot(now, h), h, wms)
    BY <1>3, <1>8 DEF slot
  <2>6. QED
    BY <2>1, <2>3, <2>4, <2>5 DEF ArmedLoop
<1>9. ASSUME ~produce, m = Arm(l1, "loop", slot - 1)
      PROVE  m \in LoopType /\ ArmedLoop(l, h, wms, m)
  <2>1. slot - 1 \in Nat /\ \A t \in Nat : t > now /\ h.slot <= t => slot - 1 <= t
    BY <1>1
  <2>2. /\ m \in LoopType /\ m.mode = "speculating" /\ m.pending = l.pending
        /\ m.timer = [kind |-> "loop", at |-> slot - 1] /\ m.timer # NoTimer
        /\ \A g \in m.queued : ~g.current
    BY <1>2, <1>9, <2>1, ArmFacts
  <2>3. \A t \in Nat : t > now /\ h.slot <= t => m.timer.at <= t
    BY <2>1, <2>2
  <2>4. QED
    BY <2>2, <2>3 DEF ArmedLoop
<1>10. ASSUME m = Arm(none, "loop", now)
       PROVE  m \in LoopType /\ ArmedLoop(l, h, wms, m)
  <2>1. /\ m \in LoopType /\ m.pending = NoBlock
        /\ m.timer = [kind |-> "loop", at |-> now] /\ m.timer # NoTimer
        /\ \A g \in m.queued : ~g.current
    BY <1>6, <1>10, ArmFacts
  <2>2. QED
    BY <2>1 DEF ArmedLoop
<1>11. ASSUME produce, ~(now < slot - 1), m = Arm(begun, "produce", now)
       PROVE  m \in LoopType /\ ArmedProduce(h, wms, m)
  <2>1. h.slot <= now
    BY <1>1, <1>11
  <2>2. QED
    BY <1>2, <1>3, <1>6, <1>11, <2>1, ArmFacts DEF ArmedProduce, slot
<1>12. QED
  BY <1>5, <1>7, <1>8, <1>9, <1>10, <1>11

(* Whatever schedule_production_loop does, it leaves the loop in order,    *)
(* when the pending block it finds was begun on the head and no handler of *)
(* a block is current.                                                     *)
LEMMA Scheduled ==
  ASSUME now \in Nat, NEW l \in LoopType, NEW h \in Heads, NEW disabled \in BOOLEAN,
         NEW wms \in Marks, NEW m \in Schedule(l, h, disabled, wms),
         PendingOnHead(now, l, h),
         \A g, k \in Current(l) : g = k /\ g.kind = "loop"
  PROVE  m \in LoopType /\ LoopOK(now, m, h, disabled, wms)
<1> DEFINE slot == BlockSlot(now, h)
<1>1. /\ slot \in Nat /\ slot > now /\ slot > h.slot /\ h.slot \in Nat /\ [slot |-> slot] # NoBlock
      /\ h.slot > now => slot = h.slot + 1
  BY DEF BlockSlot, Larger, Heads, NoBlock
<1>2. m \in LoopType
  BY ScheduleOutcome
<1>3. l.pending.slot \in Nat /\ (l.pending # NoBlock => h.slot < l.pending.slot /\ l.pending.slot <= slot)
  BY DEF PendingOnHead, LoopType
<1>4. CASE Unarmed(l, h, disabled, m)
  <2>1. ~Producing(m) /\ m.timer = NoTimer /\ Current(m) = Current(l) /\ m.timer.kind = "none"
    BY <1>4 DEF Unarmed, Producing, Current, NoTimer
  <2>2. m.pending # NoBlock => h.slot < m.pending.slot /\ m.pending.slot <= slot
    BY <1>1, <1>3, <1>4 DEF Unarmed
  <2>3. OneCurrent(m) /\ ProduceReady(m)
    BY <2>1 DEF OneCurrent, ProduceReady
  <2>4. Awake(m, disabled)
    BY <1>4 DEF Awake, Unarmed
  <2>5. QED
    BY <1>2, <2>1, <2>2, <2>3, <2>4
    DEF LoopOK, PendingOnHead, TurnKept, WakesInTime, BlockInTime
<1>5. CASE ArmedLoop(l, h, wms, m)
  <2>1. m.timer # NoTimer /\ m.timer.kind = "loop" /\ Current(m) = {}
    BY <1>5 DEF ArmedLoop, Current
  <2>2. m.pending # NoBlock => h.slot < m.pending.slot /\ m.pending.slot <= slot
    BY <1>1, <1>3, <1>5 DEF ArmedLoop
  <2>3. ASSUME Producing(m)
        PROVE  m.pending.slot = slot /\ TurnOn(slot, h, wms) /\ h.slot > now
    <3>1. m.pending = l.pending /\ h.slot > now /\ TurnOn(slot, h, wms)
      BY <1>5, <2>3 DEF ArmedLoop, Producing
    <3>2. QED
      BY <1>1, <1>3, <2>3, <3>1 DEF Producing
  <2>4. OneCurrent(m) /\ ProduceReady(m) /\ Awake(m, disabled)
    BY <2>1 DEF OneCurrent, ProduceReady, Awake
  <2>5. WakesInTime(now, m, h, wms)
    BY <1>5 DEF WakesInTime, ArmedLoop
  <2>6. TurnKept(m, h, wms) /\ BlockInTime(now, m, h)
    BY <1>1, <2>3 DEF TurnKept, BlockInTime
  <2>7. QED
    BY <1>2, <2>2, <2>4, <2>5, <2>6 DEF LoopOK, PendingOnHead
<1>6. CASE ArmedProduce(h, wms, m)
  <2>1. /\ m.timer = [kind |-> "produce", at |-> now] /\ Current(m) = {} /\ m.mode = "producing"
        /\ m.pending = [slot |-> slot] /\ TurnOn(slot, h, wms)
    BY <1>6 DEF ArmedProduce, Current
  <2>2. m.timer # NoTimer /\ m.timer.at = now /\ m.pending.slot = slot /\ Producing(m)
    BY <1>1, <2>1 DEF NoTimer, Producing
  <2>3. Soon(now, m)
    BY <2>2 DEF Soon
  <2>4. QED
    BY <1>1, <1>2, <2>1, <2>2, <2>3
    DEF LoopOK, OneCurrent, ProduceReady, Awake, PendingOnHead, TurnKept, WakesInTime, BlockInTime
<1>7. QED
  BY <1>4, <1>5, <1>6, ScheduleOutcome

(* In a turn that has begun the block is begun, or to begin it has failed. *)
LEMMA ScheduledInTurn ==
  ASSUME now \in Nat, NEW l \in LoopType, NEW h \in Heads, NEW wms \in Marks,
         NEW m \in Schedule(l, h, FALSE, wms), h.slot <= now, TurnOn(now + 1, h, wms)
  PROVE  Failed(m) \/ Soon(now, m)
<1> DEFINE l1 == [Cancel(l) EXCEPT !.mode = "producing"]
<1>1. BlockSlot(now, h) = now + 1
  BY DEF BlockSlot, Larger, Heads
<1>2. MayProduce(now, h, FALSE, wms)
  BY <1>1 DEF MayProduce, TurnOn
<1>3. \/ m = Arm([l1 EXCEPT !.pending = NoBlock], "loop", now)
      \/ m = Arm([l1 EXCEPT !.pending = [slot |-> now + 1]], "produce", now)
  BY <1>1, <1>2 DEF Schedule
<1>4. l1 \in LoopType
  BY DEF LoopType, Cancel, Timers
<1> HIDE DEF l1
<1>5. \E k \in LoopType : m = Arm(k, "loop", now) \/ m = Arm(k, "produce", now)
  <2>1. [l1 EXCEPT !.pending = NoBlock] \in LoopType /\ [l1 EXCEPT !.pending = [slot |-> now + 1]] \in LoopType
    BY <1>4 DEF LoopType, NoBlock
  <2>2. QED
    BY <1>3, <2>1
<1>6. PICK k \in LoopType, kind \in {"loop", "produce"} : m = Arm(k, kind, now)
  BY <1>5
<1>7. m.timer # NoTimer /\ m.timer = [kind |-> kind, at |-> now]
  BY <1>6, ArmFacts
<1>8. QED
  BY <1>7 DEF Soon

(* Right after its block the loop waits for the next slot.                 *)
LEMMA ScheduledAfterBlock ==
  ASSUME now \in Nat, NEW l \in LoopType, NEW h \in Heads, NEW disabled \in BOOLEAN,
         NEW wms \in Marks, NEW m \in Schedule(l, h, disabled, wms),
         h.slot = now + 1, Mine # {}, l.mode = "producing", l.pending = NoBlock
  PROVE  m.pending = NoBlock /\ ~Soon(now, m)
<1> DEFINE produce == MayProduce(now, h, disabled, wms)
           l1 == [Cancel(l) EXCEPT !.mode = IF produce THEN "producing" ELSE "speculating"]
<1>1. BlockSlot(now, h) = now + 2 /\ ~(now > h.slot + OldAge) /\ now < (now + 2) - 1 /\ (now + 2) - 1 = now + 1
  BY LoopAssumption DEF BlockSlot, Larger, Heads
<1>2. m = Delay(l1, now + 1, h, wms) \/ m = Arm(l1, "loop", now + 1)
  <2> HIDE DEF produce
  <2>1. QED
    BY <1>1 DEF Schedule, produce
<1>3. l1 \in LoopType /\ l1.pending = NoBlock
  BY DEF LoopType, Cancel, Timers
<1> HIDE DEF l1
<1>4. PICK at \in Nat : m = Arm(l1, "loop", at) /\ at > now
  <2>1. CASE m = Delay(l1, now + 1, h, wms)
    <3>1. now + 1 \in Nat
      OBVIOUS
    <3>2. \E at \in Nat : Delay(l1, now + 1, h, wms) = Arm(l1, "loop", at) /\ at >= now + 1
      BY <1>3, <3>1, DelayInTime
    <3>3. QED
      BY <2>1, <3>2
  <2>2. CASE m = Arm(l1, "loop", now + 1)
    BY <2>2
  <2>3. QED
    BY <1>2, <2>1, <2>2
<1>5. /\ m.pending = NoBlock /\ m.timer = [kind |-> "loop", at |-> at]
      /\ \A g \in m.queued : ~g.current
  BY <1>3, <1>4, ArmFacts
<1>6. m.timer.at > now /\ m.timer.at \in Nat /\ Current(m) = {}
  BY <1>4, <1>5 DEF Current
<1>7. QED
  BY <1>5, <1>6 DEF Soon

-----------------------------------------------------------------------------
(* Every handler preserves the invariant.                                  *)

LEMMA TookFacts ==
  ASSUME loop \in LoopType, NEW g \in loop.queued
  PROVE  /\ Took(g) \in LoopType /\ Took(g).mode = loop.mode /\ Took(g).pending = loop.pending
         /\ Took(g).timer = loop.timer /\ Took(g).queued = loop.queued \ {g}
BY DEF Took, LoopType

LEMMA AbortedFacts ==
  ASSUME NEW l \in LoopType
  PROVE  /\ Aborted(l) \in LoopType /\ Aborted(l).mode = l.mode /\ Aborted(l).pending = NoBlock
         /\ Aborted(l).queued = l.queued
BY DEF Aborted, LoopType, NoBlock

LEMMA DisabledBoolean ==
  ASSUME Types PROVE Disabled \in BOOLEAN
BY DEF Types, Disabled

LEMMA NoLoopFacts ==
  /\ NoLoop \in LoopType /\ NoLoop.pending = NoBlock /\ Current(NoLoop) = {}
  /\ NoMarks \in Marks
BY DEF NoLoop, LoopType, Timers, NoBlock, Current, NoMarks, Marks, NoMark

LEMMA InitInv == ASSUME Init PROVE LoopInv
<1>1. NoLoop \in LoopType /\ NoLoop.pending = NoBlock /\ Current(NoLoop) = {}
  BY NoLoopFacts
<1>2. /\ now \in Nat /\ head \in Heads /\ marks \in Marks /\ Disabled \in BOOLEAN
      /\ loop \in Schedule(NoLoop, head, Disabled, marks)
  BY NoLoopFacts DEF Init, Heads, Disabled
<1>3. PendingOnHead(now, NoLoop, head)
  BY <1>1 DEF PendingOnHead
<1>4. loop \in LoopType /\ LoopOK(now, loop, head, Disabled, marks)
  BY <1>1, <1>2, <1>3, Scheduled
<1>5. signed \in Seq(Heads) /\ 1..Len(signed) = {}
  BY DEF Init
<1>6. QED
  BY <1>2, <1>4, <1>5 DEF LoopInv, Types, SignedMarked, CleanSlot, Init

(* A timer that expires was armed after all handlers in the queue.         *)
LEMMA ExpireStep == ASSUME LoopInv, Expire PROVE LoopInv'
<1> DEFINE g == [kind |-> loop.timer.kind, current |-> TRUE]
<1>1. Types /\ loop \in LoopType /\ LoopOK(now, loop, head, Disabled, marks)
  BY DEF LoopInv, Types
<1>2. loop.timer # NoTimer /\ loop.timer.at <= now /\ loop' = [Cancel(loop) EXCEPT !.queued = @ \cup {g}]
  BY DEF Expire
<1>3. g \in Handlers /\ g.current /\ g.kind = loop.timer.kind
  BY <1>1, <1>2 DEF LoopType, Timers, Handlers
<1> HIDE DEF g
<1>4. /\ loop' \in LoopType /\ loop'.mode = loop.mode /\ loop'.pending = loop.pending
      /\ loop'.timer = NoTimer /\ loop'.queued = loop.queued \cup {g}
  BY <1>1, <1>2, <1>3 DEF LoopType, Timers, Cancel
<1>5. Current(loop) = {} /\ Current(loop') = {g}
  <2>1. Current(loop) = {}
    BY <1>1, <1>2 DEF LoopOK, OneCurrent
  <2>2. QED
    BY <1>3, <1>4, <2>1 DEF Current
<1>6. Soon(now, loop) /\ Soon(now, loop')
  BY <1>2, <1>5 DEF Soon
<1>7. UNCHANGED <<now, head, enabled, paused, stale, marks, signed, clean, missed, calls>> /\ Disabled' = Disabled
  BY DEF Expire, env, policy, Disabled
<1>8. Producing(loop') = Producing(loop)
  BY <1>4 DEF Producing
<1>9. OneCurrent(loop') /\ Awake(loop', Disabled)
  BY <1>4, <1>5 DEF OneCurrent, Awake
<1>10. ProduceReady(loop')
  BY <1>1, <1>3, <1>4, <1>5, <1>8 DEF ProduceReady, LoopOK, NoTimer
<1>11. /\ PendingOnHead(now, loop', head) /\ TurnKept(loop', head, marks)
       /\ WakesInTime(now, loop', head, marks)
  BY <1>1, <1>4, <1>8 DEF LoopOK, PendingOnHead, TurnKept, WakesInTime
<1>12. BlockInTime(now, loop', head)
  BY <1>1, <1>4, <1>6, <1>8 DEF LoopOK, BlockInTime
<1>13. CleanSlot'
  BY <1>6, <1>7 DEF LoopInv, CleanSlot
<1>14. QED
  <2>1. LoopOK(now, loop, head, Disabled, marks)'
    BY <1>7, <1>9, <1>10, <1>11, <1>12 DEF LoopOK
  <2>2. Types' /\ SignedMarked'
    BY <1>4, <1>7 DEF LoopInv, Types, SignedMarked
  <2>3. QED
    BY <1>7, <1>13, <2>1, <2>2 DEF LoopInv

LEMMA IgnoreHandlerStep == ASSUME LoopInv, IgnoreHandler PROVE LoopInv'
<1>1. Types /\ loop \in LoopType /\ LoopOK(now, loop, head, Disabled, marks)
  BY DEF LoopInv, Types
<1>2. PICK g \in loop.queued : ~g.current /\ loop' = Took(g)
  BY DEF IgnoreHandler
<1>3. /\ loop' \in LoopType /\ loop'.mode = loop.mode /\ loop'.pending = loop.pending
      /\ loop'.timer = loop.timer /\ loop'.queued = loop.queued \ {g}
  BY <1>1, <1>2, TookFacts
<1>4. Current(loop') = Current(loop)
  BY <1>2, <1>3 DEF Current
<1>5. Soon(now, loop') = Soon(now, loop) /\ Producing(loop') = Producing(loop)
  BY <1>3, <1>4 DEF Soon, Producing
<1>6. UNCHANGED <<now, head, enabled, paused, stale, marks, signed, clean, missed, calls>> /\ Disabled' = Disabled
  BY DEF IgnoreHandler, env, policy, Disabled
<1>7. LoopOK(now, loop', head, Disabled, marks)
  BY <1>1, <1>3, <1>4, <1>5
  DEF LoopOK, OneCurrent, ProduceReady, Awake, PendingOnHead, TurnKept, WakesInTime, BlockInTime
<1>8. QED
  BY <1>3, <1>5, <1>6, <1>7 DEF LoopInv, Types, SignedMarked, CleanSlot

(* The handler of the loop is the only current one, so that none is left.  *)
LEMMA CurrentTaken ==
  ASSUME LoopInv, NEW g \in loop.queued, g.current
  PROVE  /\ Took(g) \in LoopType /\ Current(Took(g)) = {}
         /\ Aborted(Took(g)) \in LoopType /\ Current(Aborted(Took(g))) = {}
<1>1. loop \in LoopType /\ \A f, k \in Current(loop) : f = k
  BY DEF LoopInv, Types, LoopOK, OneCurrent
<1>2. Took(g) \in LoopType /\ Took(g).queued = loop.queued \ {g}
  BY <1>1, TookFacts
<1>3. Current(Took(g)) = {}
  BY <1>1, <1>2 DEF Current
<1>4. QED
  BY <1>2, <1>3, AbortedFacts DEF Current

LEMMA LoopHandlerStep == ASSUME LoopInv, LoopHandler PROVE LoopInv'
<1>1. Types /\ loop \in LoopType /\ LoopOK(now, loop, head, Disabled, marks) /\ Disabled \in BOOLEAN
  BY DisabledBoolean DEF LoopInv, Types
<1>2. PICK g \in loop.queued : g.current /\ loop' \in Schedule(Took(g), head, Disabled, marks)
  BY DEF LoopHandler
<1>3. Took(g) \in LoopType /\ Current(Took(g)) = {} /\ Took(g).pending = loop.pending
  BY <1>1, <1>2, CurrentTaken, TookFacts
<1>4. PendingOnHead(now, Took(g), head)
  BY <1>1, <1>3 DEF LoopOK, PendingOnHead
<1>5. now \in Nat /\ head \in Heads /\ marks \in Marks
  BY <1>1 DEF Types
<1>6. loop' \in LoopType /\ LoopOK(now, loop', head, Disabled, marks)
  BY <1>1, <1>2, <1>3, <1>4, <1>5, Scheduled
<1>7. /\ UNCHANGED <<now, head, enabled, paused, stale, marks, signed, missed, calls>> /\ Disabled' = Disabled
      /\ clean' = (clean /\ ~Failed(loop'))
  BY DEF LoopHandler, env, policy, Disabled
<1>8. CleanSlot'
  <2> SUFFICES ASSUME clean' 
               PROVE  ~paused /\ head.slot <= now /\ ~Disabled /\ TurnOn(now + 1, head, marks) /\ Soon(now, loop')
    BY <1>7 DEF CleanSlot
  <2>1. clean /\ ~Failed(loop')
    BY <1>7
  <2>2. Soon(now, loop)
    BY <1>2 DEF Soon, Current
  <2>3. ~paused /\ head.slot <= now /\ ~Disabled /\ TurnOn(now + 1, head, marks)
    BY <2>1, <2>2 DEF LoopInv, CleanSlot
  <2>4. loop' \in Schedule(Took(g), head, FALSE, marks)
    <3>1. Disabled = FALSE
      BY <1>1, <2>3
    <3>2. QED
      BY <1>2, <3>1
  <2>5. QED
    BY <1>3, <1>5, <2>1, <2>3, <2>4, ScheduledInTurn
<1>9. QED
  <2>1. clean' \in BOOLEAN
    BY <1>7
  <2>2. QED
    BY <1>6, <1>7, <1>8, <2>1 DEF LoopInv, Types, SignedMarked

(* A new block raises the watermark of its producer, and no watermark falls. *)
LEMMA MarkRaises ==
  ASSUME NEW wms \in Marks, NEW h \in Heads
  PROVE  /\ Mark(wms, h) \in Marks
         /\ \A p \in Mine : Mark(wms, h)[p].num >= wms[p].num /\ Mark(wms, h)[p].slot >= wms[p].slot
         /\ ScheduledIndex(h.slot) \in Mine =>
               LET m == Mark(wms, h)[ScheduledIndex(h.slot)] IN m.num >= h.num /\ m.slot >= h.slot
<1> DEFINE q == ScheduledIndex(h.slot)
           mark == [num |-> Larger(wms[q].num, h.num), slot |-> Larger(wms[q].slot, h.slot)]
<1>1. h.num \in Nat /\ h.slot \in Nat
  BY DEF Heads
<1>2. CASE q \in Mine
  <2>1. Mark(wms, h) = [wms EXCEPT ![q] = mark]
    BY <1>2 DEF Mark
  <2>2. wms[q] \in [num : Nat, slot : Nat]
    BY <1>2 DEF Marks
  <2>3. /\ mark \in [num : Nat, slot : Nat] /\ mark.num >= wms[q].num /\ mark.slot >= wms[q].slot
        /\ mark.num >= h.num /\ mark.slot >= h.slot
    BY <1>1, <2>2 DEF Larger
  <2> HIDE DEF mark, q
  <2>4. Mark(wms, h) \in Marks /\ Mark(wms, h)[q] = mark /\ \A p \in Mine : p # q => Mark(wms, h)[p] = wms[p]
    BY <1>2, <2>1, <2>3 DEF Marks
  <2>5. \A p \in Mine : wms[p].num \in Nat /\ wms[p].slot \in Nat
    BY DEF Marks
  <2>6. ASSUME NEW p \in Mine
        PROVE  Mark(wms, h)[p].num >= wms[p].num /\ Mark(wms, h)[p].slot >= wms[p].slot
    BY <2>3, <2>4, <2>5
  <2>7. QED
    BY <2>3, <2>4, <2>6 DEF q
<1>3. CASE q \notin Mine
  BY <1>3 DEF Mark, Marks
<1>4. QED
  BY <1>2, <1>3

LEMMA SignedStaysMarked ==
  ASSUME LoopInv, head' \in Heads, marks' = Mark(marks, head')
  PROVE  /\ marks' \in Marks
         /\ \A i \in 1..Len(signed) : Covered(signed[i], marks')
<1>1. marks \in Marks /\ signed \in Seq(Heads)
  BY DEF LoopInv, Types
<1>2. marks' \in Marks
  BY <1>1, MarkRaises
<1>3. ASSUME NEW i \in 1..Len(signed), NEW p, p = ScheduledIndex(signed[i].slot)
      PROVE  p \in Mine /\ signed[i].num <= marks'[p].num /\ signed[i].slot <= marks'[p].slot
  <2>1. p \in Mine /\ signed[i].num <= marks[p].num /\ signed[i].slot <= marks[p].slot
    BY <1>3 DEF LoopInv, SignedMarked, Covered
  <2>2. marks'[p].num >= marks[p].num /\ marks'[p].slot >= marks[p].slot
    BY <1>1, <2>1, MarkRaises
  <2>3. signed[i].num \in Nat /\ signed[i].slot \in Nat
    <3>1. signed[i] \in Heads
      BY <1>1
    <3>2. QED
      BY <3>1 DEF Heads
  <2>4. marks[p] \in [num : Nat, slot : Nat] /\ marks'[p] \in [num : Nat, slot : Nat]
    BY <1>1, <1>2, <2>1 DEF Marks
  <2>5. QED
    BY <2>1, <2>2, <2>3, <2>4
<1>4. QED
  BY <1>2, <1>3 DEF Covered

(* The block that a handler signs: it is begun on the head, in time, and   *)
(* its producer's watermark is below it.                                   *)
LEMMA SignedBlock ==
  ASSUME LoopInv, ProduceHandler
  PROVE  /\ head' \in Heads /\ head'.num = head.num + 1 /\ head'.slot = loop.pending.slot
         /\ head'.slot > now /\ head'.slot > head.slot /\ head'.slot <= BlockSlot(now, head)
         /\ TurnOn(head'.slot, head, marks)
<1>1. loop \in LoopType /\ LoopOK(now, loop, head, Disabled, marks) /\ head \in Heads
  BY DEF LoopInv, Types
<1>2. head' = [num |-> head.num + 1, slot |-> loop.pending.slot] /\ Producing(loop)
  BY DEF ProduceHandler, Producing
<1>3. loop.pending.slot \in Nat
  BY <1>1 DEF LoopType
<1>4. head' \in Heads /\ head'.num = head.num + 1 /\ head'.slot = loop.pending.slot
  BY <1>1, <1>2, <1>3 DEF Heads
<1>5. /\ loop.pending.slot > now /\ loop.pending.slot > head.slot
      /\ loop.pending.slot <= BlockSlot(now, head) /\ TurnOn(loop.pending.slot, head, marks)
  BY <1>1, <1>2, <1>3 DEF LoopOK, BlockInTime, PendingOnHead, TurnKept, Producing, Heads
<1>6. QED
  BY <1>4, <1>5

LEMMA ProduceHandlerStep == ASSUME LoopInv, ProduceHandler PROVE LoopInv'
<1>1. /\ Types /\ now \in Nat /\ loop \in LoopType /\ LoopOK(now, loop, head, Disabled, marks)
  BY DEF LoopInv, Types
<1>2. PICK g \in loop.queued :
         /\ g.current /\ loop.mode = "producing"
         /\ loop' \in Schedule(Aborted(Took(g)), head', Disabled', marks')
  BY DEF ProduceHandler
<1> DEFINE l == Aborted(Took(g))
<1>3. /\ UNCHANGED <<now, enabled, paused, clean, missed, calls>> /\ signed' = Append(signed, head')
      /\ marks' = Mark(marks, head') /\ stale' \in {stale, FALSE}
  BY DEF ProduceHandler
<1>4. /\ head' \in Heads /\ head'.slot > now /\ head'.slot <= BlockSlot(now, head)
      /\ TurnOn(head'.slot, head, marks)
  BY SignedBlock
<1>5. marks' \in Marks /\ Disabled' \in BOOLEAN
  BY <1>1, <1>3, <1>4, SignedStaysMarked DEF Types, Disabled
<1>6. l \in LoopType /\ Current(l) = {} /\ l.pending = NoBlock /\ l.mode = "producing"
  BY <1>1, <1>2, CurrentTaken, TookFacts, AbortedFacts
<1> HIDE DEF l
<1>7. PendingOnHead(now, l, head')
  BY <1>6 DEF PendingOnHead
<1>8. loop' \in Schedule(l, head', Disabled', marks')
  BY <1>2 DEF l
<1>9. loop' \in LoopType /\ LoopOK(now, loop', head', Disabled', marks')
  BY <1>1, <1>4, <1>5, <1>6, <1>7, <1>8, Scheduled
<1>10. SignedMarked'
  <2>1. ScheduledIndex(head'.slot) \in Mine
    BY <1>4 DEF TurnOn
  <2>2. LET m == marks'[ScheduledIndex(head'.slot)] IN m.num >= head'.num /\ m.slot >= head'.slot
    BY <1>1, <1>3, <1>4, <2>1, MarkRaises DEF Types
  <2>3. marks'[ScheduledIndex(head'.slot)] \in [num : Nat, slot : Nat] /\ head'.num \in Nat /\ head'.slot \in Nat
    BY <1>4, <1>5, <2>1 DEF Marks, Heads
  <2>4. Covered(head', marks')
    BY <2>1, <2>2, <2>3 DEF Covered
  <2>5. \A i \in 1..Len(signed) : Covered(signed[i], marks')
    BY <1>3, <1>4, SignedStaysMarked
  <2>6. /\ Len(signed') = Len(signed) + 1 /\ Len(signed) \in Nat /\ signed'[Len(signed) + 1] = head'
        /\ \A i \in 1..Len(signed) : signed'[i] = signed[i]
    BY <1>1, <1>3, <1>4 DEF Types
  <2>7. ASSUME NEW i \in 1..Len(signed') PROVE Covered(signed'[i], marks')
    <3>1. i \in 1..Len(signed) \/ i = Len(signed) + 1
      BY <2>6
    <3>2. QED
      BY <2>4, <2>5, <2>6, <3>1
  <2>8. QED
    BY <2>7 DEF SignedMarked
<1>11. CleanSlot'
  <2> SUFFICES ASSUME clean'
               PROVE  ~paused /\ head'.slot = now + 1 /\ loop'.pending = NoBlock /\ ~Soon(now, loop')
    BY <1>3 DEF CleanSlot
  <2>1. Soon(now, loop)
    BY <1>2 DEF Soon, Current
  <2>2. ~paused /\ head.slot <= now
    BY <1>3, <2>1 DEF LoopInv, CleanSlot
  <2>3. head'.slot = now + 1
    <3>1. head.slot \in Nat /\ head'.slot \in Nat
      BY <1>1, <1>4 DEF Types, Heads
    <3>2. QED
      BY <1>1, <1>4, <2>2, <3>1 DEF BlockSlot, Larger
  <2>4. Mine # {}
    BY <1>4 DEF TurnOn
  <2>5. loop'.pending = NoBlock /\ ~Soon(now, loop')
    BY <1>1, <1>4, <1>5, <1>6, <1>8, <2>3, <2>4, ScheduledAfterBlock
  <2>6. QED
    BY <2>2, <2>3, <2>5
<1>12. Types'
  <2>1. signed' \in Seq(Heads)
    BY <1>1, <1>3, <1>4 DEF Types
  <2>2. QED
    BY <1>1, <1>3, <1>4, <1>5, <1>9, <2>1 DEF Types
<1>13. QED
  BY <1>3, <1>9, <1>10, <1>11, <1>12 DEF LoopInv

(* The handlers that drop the pending block and schedule the loop again.   *)
LEMMA Rescheduled ==
  ASSUME LoopInv, NEW l \in LoopType, l.pending = NoBlock,
         \A g, k \in Current(l) : g = k /\ g.kind = "loop",
         loop' \in Schedule(l, head', Disabled', marks'),
         UNCHANGED <<now, missed>>, signed' \in Seq(Heads), head' \in Heads, marks' \in Marks,
         enabled' \in BOOLEAN, paused' \in BOOLEAN, stale' \in BOOLEAN,
         SignedMarked', clean' = FALSE
  PROVE  LoopInv'
<1>1. now \in Nat /\ Disabled' \in BOOLEAN
  BY DEF LoopInv, Types, Disabled
<1>2. PendingOnHead(now, l, head')
  BY DEF PendingOnHead
<1>3. loop' \in LoopType /\ LoopOK(now, loop', head', Disabled', marks')
  BY <1>1, <1>2, Scheduled
<1>4. Types'
  BY <1>3 DEF LoopInv, Types
<1>5. QED
  BY <1>3, <1>4 DEF LoopInv, CleanSlot

LEMMA ProduceFailsStep == ASSUME LoopInv, ProduceFails PROVE LoopInv'
<1>1. PICK g \in loop.queued :
         g.current /\ loop' \in Schedule(Aborted(Took(g)), head, Disabled, marks)
  BY DEF ProduceFails
<1>2. /\ UNCHANGED <<now, head, enabled, paused, stale, marks, signed, missed>> /\ clean' = FALSE
      /\ Disabled' = Disabled
  BY DEF ProduceFails, env, policy, Disabled
<1>3. /\ Aborted(Took(g)) \in LoopType /\ Aborted(Took(g)).pending = NoBlock
      /\ Current(Aborted(Took(g))) = {}
  BY <1>1, CurrentTaken, AbortedFacts
<1>4. loop' \in Schedule(Aborted(Took(g)), head', Disabled', marks')
  BY <1>1, <1>2
<1>5. SignedMarked' /\ signed' \in Seq(Heads) /\ head' \in Heads /\ marks' \in Marks
      /\ enabled' \in BOOLEAN /\ paused' \in BOOLEAN /\ stale' \in BOOLEAN
  BY <1>2 DEF LoopInv, Types, SignedMarked
<1>6. QED
  BY <1>2, <1>3, <1>4, <1>5, Rescheduled

(* The timer is set again while the queue is empty: the block of the slot  *)
(* is still to come.                                                       *)
LEMMA ExhaustsStep == ASSUME LoopInv, Exhausts PROVE LoopInv'
<1>1. Types /\ now \in Nat /\ loop \in LoopType /\ LoopOK(now, loop, head, Disabled, marks)
  BY DEF LoopInv, Types
<1>2. /\ UNCHANGED <<now, head, enabled, paused, stale, marks, signed, clean, missed>>
      /\ Disabled' = Disabled /\ loop' = Arm(loop, "produce", now) /\ Producing(loop)
  BY DEF Exhausts, env, policy, Disabled, Producing
<1>3. /\ loop' \in LoopType /\ loop'.mode = loop.mode /\ loop'.pending = loop.pending
      /\ loop'.timer = [kind |-> "produce", at |-> now] /\ loop'.timer # NoTimer
      /\ \A g \in loop'.queued : ~g.current
  BY <1>1, <1>2, ArmFacts
<1>4. Current(loop') = {} /\ Producing(loop') /\ Soon(now, loop')
  BY <1>1, <1>2, <1>3 DEF Current, Producing, Soon
<1>5. OneCurrent(loop') /\ ProduceReady(loop') /\ Awake(loop', Disabled)
  BY <1>3, <1>4 DEF OneCurrent, ProduceReady, Awake
<1>6. PendingOnHead(now, loop', head) /\ TurnKept(loop', head, marks)
  BY <1>1, <1>2, <1>3 DEF LoopOK, PendingOnHead, TurnKept
<1>7. WakesInTime(now, loop', head, marks)
  BY <1>1, <1>3 DEF WakesInTime
<1>8. BlockInTime(now, loop', head)
  BY <1>1, <1>2, <1>3, <1>4 DEF LoopOK, BlockInTime
<1>9. CleanSlot'
  BY <1>2, <1>4 DEF LoopInv, CleanSlot, Producing
<1>10. QED
  <2>1. LoopOK(now, loop, head, Disabled, marks)'
    BY <1>2, <1>5, <1>6, <1>7, <1>8 DEF LoopOK
  <2>2. Types' /\ SignedMarked'
    BY <1>2, <1>3 DEF LoopInv, Types, SignedMarked
  <2>3. QED
    BY <1>2, <1>9, <2>1, <2>2 DEF LoopInv

(* While no block is produced the handler of a block is not current.       *)
LEMMA NoBlockHandler ==
  ASSUME LoopInv, loop.mode # "producing" \/ Idle
  PROVE  /\ loop \in LoopType /\ Aborted(loop) \in LoopType /\ Aborted(loop).pending = NoBlock
         /\ \A g, k \in Current(Aborted(loop)) : g = k /\ g.kind = "loop"
<1>1. loop \in LoopType /\ OneCurrent(loop) /\ ProduceReady(loop)
  BY DEF LoopInv, Types, LoopOK
<1>2. /\ Aborted(loop) \in LoopType /\ Aborted(loop).pending = NoBlock
      /\ Current(Aborted(loop)) = Current(loop)
  BY <1>1, AbortedFacts DEF Current
<1>3. ASSUME NEW g \in Current(loop) PROVE g.kind = "loop"
  <2>1. g \in Handlers /\ loop.mode # "producing"
    BY <1>1, <1>3 DEF LoopType, Current, Idle
  <2>2. g.kind # "produce"
    BY <1>1, <1>3, <2>1 DEF ProduceReady, Producing
  <2>3. QED
    BY <2>1, <2>2 DEF Handlers
<1>4. QED
  BY <1>1, <1>2, <1>3 DEF OneCurrent

LEMMA IncomingBlockStep == ASSUME LoopInv, IncomingBlock PROVE LoopInv'
<1>1. /\ UNCHANGED <<now, paused, signed, missed, calls>> /\ clean' = FALSE
      /\ loop' \in Schedule(Aborted(loop), head', Disabled', marks') /\ loop.mode # "producing"
  BY DEF IncomingBlock
<1>2. Types
  BY DEF LoopInv
<1>3. /\ head' \in Heads /\ marks' \in {marks, Mark(marks, head')}
      /\ enabled' \in BOOLEAN /\ stale' \in BOOLEAN
  <2>1. CASE UNCHANGED <<head, marks, enabled, stale>>
    BY <1>2, <2>1 DEF Types
  <2>2. CASE /\ \E slot \in 2..(now + Ahead), num \in Larger(head.num - 1, 2)..(head.num + 1) :
                  /\ num <= slot /\ head' = [num |-> num, slot |-> slot]
                  /\ \A i \in 1..Len(signed) : signed[i] # head'
             /\ marks' = Mark(marks, head')
             /\ enabled' = (enabled \/ head'.slot + 1 >= now)
             /\ stale' \in {stale, FALSE}
    <3>1. PICK slot \in 2..(now + Ahead), num \in Larger(head.num - 1, 2)..(head.num + 1) :
             head' = [num |-> num, slot |-> slot]
      BY <2>2
    <3>2. slot \in Nat /\ num \in Nat \ {0}
      BY <1>2, LoopAssumption DEF Types, Larger, Heads
    <3>3. head' \in Heads
      BY <3>1, <3>2 DEF Heads
    <3>4. QED
      BY <1>2, <2>2, <3>3 DEF Types
  <2>3. QED
    BY <2>1, <2>2 DEF IncomingBlock
<1>4. marks' \in Marks /\ SignedMarked'
  <2>1. CASE marks' = marks
    BY <1>1, <2>1 DEF LoopInv, Types, SignedMarked
  <2>2. CASE marks' = Mark(marks, head')
    BY <1>1, <1>3, <2>2, SignedStaysMarked DEF SignedMarked
  <2>3. QED
    BY <1>3, <2>1, <2>2
<1>5. QED
  BY <1>1, <1>2, <1>3, <1>4, NoBlockHandler, Rescheduled DEF Types

LEMMA PauseStep == ASSUME LoopInv, Pause PROVE LoopInv'
<1>1. /\ UNCHANGED <<now, head, enabled, stale, marks, signed, loop, missed>>
      /\ paused' = TRUE /\ clean' = FALSE
  BY DEF Pause, env
<1>2. Types' /\ SignedMarked' /\ CleanSlot' /\ ~missed'
  BY <1>1 DEF LoopInv, Types, SignedMarked, CleanSlot
<1>3. LoopOK(now, loop, head, Disabled, marks)'
  BY <1>1 DEF LoopInv, LoopOK, Awake, Disabled
<1>4. QED
  BY <1>2, <1>3 DEF LoopInv

LEMMA ResumeStep == ASSUME LoopInv, Resume PROVE LoopInv'
<1>1. UNCHANGED <<now, head, enabled, stale, marks, signed, clean, missed>> /\ paused /\ paused' = FALSE
  BY DEF Resume, env
<1>2. clean' = FALSE
  BY <1>1 DEF LoopInv, Types, CleanSlot
<1>3. /\ SignedMarked' /\ head' \in Heads /\ marks' \in Marks
      /\ enabled' \in BOOLEAN /\ paused' \in BOOLEAN /\ stale' \in BOOLEAN /\ missed' \in BOOLEAN
      /\ now' \in Nat /\ signed' \in Seq(Heads)
  BY <1>1 DEF LoopInv, Types, SignedMarked
<1>4. CASE loop.mode = "speculating"
  <2>1. loop' \in Schedule(Aborted(loop), head', Disabled', marks')
    BY <1>1, <1>4 DEF Resume
  <2>2. loop.mode # "producing"
    BY <1>4
  <2>3. QED
    BY <1>1, <1>2, <1>3, <2>1, <2>2, NoBlockHandler, Rescheduled
<1>5. CASE loop.mode # "speculating"
  <2>1. UNCHANGED loop /\ loop.mode = "producing" /\ loop \in LoopType
    BY <1>5 DEF Resume, LoopInv, Types, LoopType
  <2>2. LoopOK(now, loop, head, Disabled, marks)'
    BY <1>1, <2>1 DEF LoopInv, LoopOK, Awake
  <2>3. Types' /\ CleanSlot'
    BY <1>2, <1>3, <2>1 DEF Types, CleanSlot
  <2>4. QED
    BY <1>1, <1>3, <2>2, <2>3 DEF LoopInv
<1>6. QED
  BY <1>4, <1>5

LEMMA UpdateOptionsStep == ASSUME LoopInv, UpdateOptions PROVE LoopInv'
<1>1. UNCHANGED <<now, head, enabled, paused, marks, signed, missed>> /\ stale' \in BOOLEAN /\ clean' = FALSE
  BY DEF UpdateOptions, env
<1>2. /\ SignedMarked' /\ head' \in Heads /\ marks' \in Marks
      /\ enabled' \in BOOLEAN /\ paused' \in BOOLEAN /\ missed' \in BOOLEAN
      /\ now' \in Nat /\ signed' \in Seq(Heads)
  BY <1>1 DEF LoopInv, Types, SignedMarked
<1>3. CASE loop.mode = "speculating"
  <2>1. loop' \in Schedule(Aborted(loop), head', Disabled', marks')
    BY <1>1, <1>3 DEF UpdateOptions
  <2>2. loop.mode # "producing"
    BY <1>3
  <2>3. QED
    BY <1>1, <1>2, <2>1, <2>2, NoBlockHandler, Rescheduled
<1>4. CASE loop.mode # "speculating"
  <2>1. UNCHANGED loop /\ loop.mode = "producing" /\ loop \in LoopType
    BY <1>4 DEF UpdateOptions, LoopInv, Types, LoopType
  <2>2. LoopOK(now, loop, head, Disabled, marks)'
    BY <1>1, <2>1 DEF LoopInv, LoopOK, Awake
  <2>3. Types' /\ CleanSlot'
    BY <1>1, <1>2, <2>1 DEF Types, CleanSlot
  <2>4. QED
    BY <1>1, <1>2, <2>2, <2>3 DEF LoopInv
<1>5. QED
  BY <1>3, <1>4

LEMMA AbortCallStep == ASSUME LoopInv, AbortCall PROVE LoopInv'
<1>1. /\ UNCHANGED <<now, head, enabled, paused, stale, marks, signed, missed>> /\ clean' = FALSE
      /\ Disabled' = Disabled /\ Idle /\ loop' \in Schedule(Aborted(loop), head, Disabled, marks)
  BY DEF AbortCall, env, policy, Disabled
<1>2. loop' \in Schedule(Aborted(loop), head', Disabled', marks')
  BY <1>1
<1>3. SignedMarked' /\ signed' \in Seq(Heads) /\ head' \in Heads /\ marks' \in Marks
      /\ enabled' \in BOOLEAN /\ paused' \in BOOLEAN /\ stale' \in BOOLEAN
  BY <1>1 DEF LoopInv, Types, SignedMarked
<1>4. QED
  BY <1>1, <1>2, <1>3, NoBlockHandler, Rescheduled

(* A new process has no handlers, no watermarks and nothing signed.        *)
LEMMA RestartStep == ASSUME LoopInv, Restart PROVE LoopInv'
<1>1. /\ UNCHANGED <<now, head, missed>> /\ clean' = FALSE /\ marks' = NoMarks /\ signed' = <<>>
      /\ enabled' \in BOOLEAN /\ paused' \in BOOLEAN /\ stale' \in BOOLEAN
      /\ loop' \in Schedule(NoLoop, head, Disabled', marks')
  BY DEF Restart, env
<1>2. head' \in Heads /\ loop' \in Schedule(NoLoop, head', Disabled', marks')
  BY <1>1 DEF LoopInv, Types
<1>3. signed' \in Seq(Heads) /\ 1..Len(signed') = {}
  BY <1>1
<1>4. SignedMarked'
  BY <1>3 DEF SignedMarked
<1>5. QED
  BY <1>1, <1>2, <1>3, <1>4, NoLoopFacts, Rescheduled

(* When a slot begins nothing was due: a timer that is set rings in time   *)
(* for the turn, and an undisturbed slot has its block.                    *)
LEMMA TickStep == ASSUME LoopInv, Tick PROVE LoopInv'
<1>1. /\ Types /\ now \in Nat /\ loop \in LoopType /\ head \in Heads /\ head.slot \in Nat
      /\ LoopOK(now, loop, head, Disabled, marks) /\ SignedMarked /\ CleanSlot /\ ~missed
  BY DEF LoopInv, Types, Heads
<1>2. /\ now' = now + 1 /\ UNCHANGED <<head, enabled, paused, marks, signed, loop>>
      /\ stale' \in {stale, TRUE} /\ missed' = (missed \/ (clean /\ head.slot # now + 1))
      /\ clean' = (head.slot <= now' /\ MayProduce(now', head, Disabled', marks))
  BY DEF Tick
<1>3. Disabled => Disabled'
  BY <1>1, <1>2 DEF Disabled, Types
<1>4. Current(loop) = {} /\ ~Soon(now, loop)
  BY DEF Tick, Due, Current, Soon
<1>5. \A u \in Nat : u > now /\ head.slot <= u /\ TurnOn(u + 1, head, marks) /\ loop.timer # NoTimer
                       => loop.timer.at <= u
  BY <1>1 DEF LoopOK, WakesInTime
<1>6. ASSUME head.slot <= now + 1, TurnOn((now + 1) + 1, head, marks), loop.timer # NoTimer
      PROVE  Soon(now + 1, loop)
  <2>1. loop.timer.at <= now + 1
    BY <1>1, <1>5, <1>6
  <2>2. QED
    BY <1>6, <2>1 DEF Soon
<1>7. ~missed'
  BY <1>1, <1>2, <1>4 DEF CleanSlot
<1>8. CleanSlot'
  <2> SUFFICES ASSUME clean'
               PROVE  /\ ~paused /\ head.slot <= now' /\ ~Disabled' /\ TurnOn(now' + 1, head, marks)
                      /\ Soon(now', loop)
    BY <1>2 DEF CleanSlot
  <2>1. head.slot <= now' /\ MayProduce(now', head, Disabled', marks)
    BY <1>2
  <2>2. BlockSlot(now', head) = now' + 1
    BY <1>1, <1>2, <2>1 DEF BlockSlot, Larger
  <2>3. ~Disabled' /\ TurnOn(now' + 1, head, marks)
    BY <2>1, <2>2 DEF MayProduce, TurnOn
  <2>4. ~paused
    BY <1>2, <2>3 DEF Disabled
  <2>5. loop.timer # NoTimer
    <3>1. Mine # {} /\ ~Disabled
      BY <1>3, <2>3 DEF TurnOn
    <3>2. QED
      BY <1>1, <1>4, <3>1 DEF LoopOK, Awake
  <2>6. Soon(now', loop)
    BY <1>2, <1>6, <2>1, <2>3, <2>5
  <2>7. QED
    BY <2>1, <2>3, <2>4, <2>6
<1>9. BlockInTime(now', loop, head)
  <2> SUFFICES ASSUME Producing(loop)
               PROVE  loop.pending.slot > now + 1 /\ (Soon(now + 1, loop) \/ head.slot > now + 1)
    BY <1>2 DEF BlockInTime
  <2>1. head.slot > now /\ loop.pending # NoBlock /\ loop.mode = "producing"
    BY <1>1, <1>4 DEF LoopOK, BlockInTime, Producing
  <2>2. loop.pending.slot = head.slot + 1
    <3>1. loop.pending.slot \in Nat
      BY <1>1 DEF LoopType
    <3>2. head.slot < loop.pending.slot /\ loop.pending.slot <= BlockSlot(now, head)
      BY <1>1, <2>1 DEF LoopOK, PendingOnHead
    <3>3. QED
      BY <1>1, <2>1, <3>1, <3>2 DEF BlockSlot, Larger
  <2>3. CASE head.slot > now + 1
    BY <1>1, <2>2, <2>3
  <2>4. CASE ~(head.slot > now + 1)
    <3>1. head.slot = now + 1
      BY <1>1, <2>1, <2>4
    <3>2. TurnOn((now + 1) + 1, head, marks)
      BY <1>1, <2>2, <3>1 DEF LoopOK, TurnKept
    <3>3. loop.timer # NoTimer
      BY <1>1, <1>4, <2>1 DEF LoopOK, Awake
    <3>4. QED
      BY <1>1, <1>6, <2>2, <3>1, <3>2, <3>3
  <2>5. QED
    BY <2>3, <2>4
<1>10. WakesInTime(now', loop, head, marks) /\ PendingOnHead(now', loop, head)
  <2>1. BlockSlot(now, head) <= BlockSlot(now', head) /\ BlockSlot(now, head) \in Nat /\ BlockSlot(now', head) \in Nat
    BY <1>1, <1>2 DEF BlockSlot, Larger
  <2>2. loop.pending.slot \in Nat
    BY <1>1 DEF LoopType
  <2>3. QED
    BY <1>1, <1>2, <1>5, <2>1, <2>2 DEF LoopOK, WakesInTime, PendingOnHead
<1>11. Awake(loop, Disabled')
  BY <1>1, <1>3 DEF LoopOK, Awake
<1>12. LoopOK(now, loop, head, Disabled, marks)'
  BY <1>1, <1>2, <1>9, <1>10, <1>11 DEF LoopOK
<1>13. Types' /\ SignedMarked'
  <2>1. clean' \in BOOLEAN /\ missed' \in BOOLEAN
    BY <1>2
  <2>2. stale' \in BOOLEAN
    BY <1>1, <1>2 DEF Types
  <2>3. now' \in Nat
    BY <1>1, <1>2
  <2>4. QED
    BY <1>1, <1>2, <2>1, <2>2, <2>3, Zenon DEF Types, SignedMarked
<1>14. QED
  BY <1>7, <1>8, <1>12, <1>13 DEF LoopInv

LEMMA StutterInv == ASSUME LoopInv, UNCHANGED vars PROVE LoopInv'
<1>1. UNCHANGED <<now, head, enabled, paused, stale, marks, signed, loop, clean, missed>> /\ Disabled' = Disabled
  BY DEF vars, Disabled
<1>2. QED
  BY <1>1 DEF LoopInv, Types, LoopOK, SignedMarked, CleanSlot

LEMMA NextInv == ASSUME LoopInv, [Next]_vars PROVE LoopInv'
BY ExpireStep, IgnoreHandlerStep, LoopHandlerStep, ProduceHandlerStep, ProduceFailsStep, ExhaustsStep,
   IncomingBlockStep, PauseStep, ResumeStep, UpdateOptionsStep, AbortCallStep, RestartStep,
   TickStep, StutterInv
DEF Next

-----------------------------------------------------------------------------
(* The theorems.                                                           *)

(* The invariant of the production loop holds in every reachable state.    *)
THEOREM LoopInvariant == Spec => []LoopInv
BY InitInv, NextInv, PTL DEF Spec

(* While the process runs the node never signs two blocks of one producer  *)
(* at the same height or for the same slot: the watermark that start_block *)
(* checks still stands below the block when maybe_produce_block signs it.  *)
THEOREM SignsOnce == Spec => []NeverSignTwice
<1>1. ASSUME LoopInv, NeverSignTwice, ProduceHandler
      PROVE  NeverSignTwice'
  <2>1. /\ signed' = Append(signed, head') /\ head'.num = head.num + 1 /\ head' \in Heads
        /\ TurnOn(head'.slot, head, marks)
    BY <1>1, SignedBlock DEF ProduceHandler
  <2>2. signed \in Seq(Heads) /\ head \in Heads /\ marks \in Marks
    BY <1>1 DEF LoopInv, Types
  <2>3. /\ Len(signed') = Len(signed) + 1 /\ Len(signed) \in Nat /\ signed'[Len(signed) + 1] = head'
        /\ \A i \in 1..Len(signed) : signed'[i] = signed[i] /\ signed[i] \in Heads
    BY <2>1, <2>2
  <2>4. ASSUME NEW i \in 1..Len(signed),
               ScheduledIndex(signed[i].slot) = ScheduledIndex(head'.slot)
        PROVE  signed[i].num < head'.num /\ signed[i].slot < head'.slot
    <3> DEFINE p == ScheduledIndex(head'.slot)
    <3>1. p \in Mine /\ signed[i].num <= marks[p].num /\ signed[i].slot <= marks[p].slot
      BY <1>1, <2>4 DEF LoopInv, SignedMarked, Covered
    <3>2. signed[i] \in Heads /\ marks[p] \in [num : Nat, slot : Nat]
      BY <2>2, <2>3, <3>1 DEF Marks
    <3>3. marks[p] # NoMark
      BY <3>1, <3>2 DEF NoMark, Heads
    <3>4. marks[p].num <= head.num /\ marks[p].slot < head'.slot
      BY <2>1, <3>3 DEF TurnOn
    <3>5. QED
      BY <2>1, <2>2, <3>1, <3>2, <3>4 DEF Heads
  <2>5. ASSUME NEW i \in 1..Len(signed'), NEW j \in 1..Len(signed'), i < j,
               ScheduledIndex(signed'[i].slot) = ScheduledIndex(signed'[j].slot)
        PROVE  signed'[i].num < signed'[j].num /\ signed'[i].slot < signed'[j].slot
    <3>1. i \in 1..Len(signed) /\ (j \in 1..Len(signed) \/ j = Len(signed) + 1)
      BY <2>3, <2>5
    <3>2. CASE j \in 1..Len(signed)
      <4>1. signed'[i] = signed[i] /\ signed'[j] = signed[j]
        BY <2>3, <3>1, <3>2
      <4>2. QED
        BY <1>1, <2>5, <3>1, <3>2, <4>1 DEF NeverSignTwice
    <3>3. CASE j = Len(signed) + 1
      <4>1. signed'[i] = signed[i] /\ signed'[j] = head'
        BY <2>3, <3>1, <3>3
      <4>2. QED
        BY <2>4, <2>5, <3>1, <4>1
    <3>4. QED
      BY <3>1, <3>2, <3>3
  <2>6. QED
    BY <2>5 DEF NeverSignTwice
<1>2. ASSUME signed' = <<>> PROVE NeverSignTwice'
  <2>1. 1..Len(signed') = {}
    BY <1>2
  <2>2. QED
    BY <2>1 DEF NeverSignTwice
<1>3. ASSUME LoopInv, NeverSignTwice, [Next]_vars
      PROVE  NeverSignTwice'
  <2>1. ProduceHandler \/ Restart \/ signed' = signed
    BY <1>3 DEF Next, vars, Expire, IgnoreHandler, LoopHandler, ProduceFails, Exhausts, IncomingBlock,
                Pause, Resume, UpdateOptions, AbortCall, Tick
  <2>2. CASE signed' = signed
    BY <1>3, <2>2 DEF NeverSignTwice
  <2>3. QED
    BY <1>1, <1>2, <1>3, <2>1, <2>2 DEF Restart
<1>4. Init => NeverSignTwice
  <2>1. ASSUME Init PROVE 1..Len(signed) = {}
    BY <2>1 DEF Init
  <2>2. QED
    BY <2>1 DEF NeverSignTwice
<1>5. QED
  BY <1>3, <1>4, LoopInvariant, PTL DEF Spec

(* An undisturbed turn of a local producer never passes without its block: *)
(* the delayed loop wakes up in time whatever the head and the watermarks. *)
THEOREM TurnsTaken == Spec => []NoSlotMissed
<1>1. LoopInv => NoSlotMissed
  BY DEF LoopInv, NoSlotMissed
<1>2. QED
  BY <1>1, LoopInvariant, PTL

(* While production is possible the loop has a timer or a current handler. *)
THEOREM NeverAsleep == Spec => []LoopAlive
<1>1. LoopInv => LoopAlive
  BY DEF LoopInv, LoopOK, Awake, Current, LoopAlive
<1>2. QED
  BY <1>1, LoopInvariant, PTL

(* maybe_produce_block always finds the pending block its timer was for.   *)
THEOREM ProducesPending == Spec => []ProduceExpected
<1>1. LoopInv => ProduceExpected
  BY DEF LoopInv, LoopOK, ProduceReady, Producing, Current, ProduceExpected
<1>2. QED
  BY <1>1, LoopInvariant, PTL

=============================================================================
