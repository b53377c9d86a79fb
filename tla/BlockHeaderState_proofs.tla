----------------------- MODULE BlockHeaderState_proofs -----------------------
(***************************************************************************)
(* Proofs about BlockHeaderState for every set of producers and schedules. *)
(* The version that a schedule gets when it is proposed is still the one   *)
(* that validators require when it is moved to a header (HInv).  Nobody is *)
(* counted twice among the confirmers of a block, although a change of     *)
(* schedule forgets what producers did (CInv).  A node does not reject     *)
(* what its own producer_plugin confirms (WInv).                           *)
(***************************************************************************)
EXTENDS BlockHeaderState, FiniteSetTheorems, WellFoundedInduction, TLAPS

Schedule == [version : Nat, producers : Seq(Producer), block : Nat]

(* The version of the newest schedule in the header state.                 *)
Latest(s) == IF s.pending.producers = <<>> THEN s.version ELSE s.pending.version

(* The inductive invariant: a waiting proposal succeeds the newest         *)
(* schedule of the header state.                                           *)
HInv ==
  /\ h.num \in Nat /\ h.version \in Nat
  /\ h.pending \in Schedule /\ proposed \in Schedule
  /\ proposed.block # 0 => proposed.version = Latest(h) + 1

(* The genesis state.                                                      *)
LEMMA InitHInv == Init => HInv
<1> SUFFICES ASSUME Init PROVE HInv
  OBVIOUS
<1>1. /\ h.num = 1 /\ h.version = 0
      /\ h.pending = [version |-> 0, producers |-> <<Initial>>, block |-> 0]
      /\ proposed = [version |-> 0, producers |-> <<>>, block |-> 0]
  BY DEF Init, NoSchedule
<1>2. <<Initial>> \in Seq(Producer) /\ <<>> \in Seq(Producer)
  <2>1. Initial \in Producer
    BY HeaderAssumption
  <2>2. QED
    BY <2>1
<1>3. QED
  BY <1>1, <1>2 DEF HInv, Schedule

(* The members of the next header state that schedules depend on.          *)
LEMMA NextFields ==
  ASSUME NEW p, NEW c, HInv
  PROVE  LET n == Next_(h, p, c)
         IN /\ n.num = h.num + 1
            /\ n.promoted \in BOOLEAN
            /\ n.promoted => h.pending.producers # <<>>
            /\ n.version = IF n.promoted THEN h.pending.version ELSE h.version
            /\ n.pending = IF n.promoted THEN [h.pending EXCEPT !.producers = <<>>] ELSE h.pending
BY DEF Next_

(* Without a proposal in it, block n leaves the waiting schedule one       *)
(* version above the newest one.                                           *)
LEMMA PromotionOK ==
  ASSUME NEW p, NEW c, HInv
  PROVE  LET n == Next_(h, p, c)
             left == IF Promotes(h, n) THEN NoSchedule ELSE proposed
             done == IF Promotes(h, n)
                     THEN [n EXCEPT !.pending = [proposed EXCEPT !.block = n.num]] ELSE n
         IN /\ done.num = h.num + 1 /\ done.version \in Nat
            /\ done.pending \in Schedule /\ left \in Schedule
            /\ left.block # 0 => left.version = Latest(done) + 1
<1> DEFINE n == Next_(h, p, c)
           set == [proposed EXCEPT !.block = n.num]
<1>1. /\ n.num = h.num + 1
      /\ n.promoted \in BOOLEAN
      /\ n.promoted => h.pending.producers # <<>>
      /\ n.version = IF n.promoted THEN h.pending.version ELSE h.version
      /\ n.pending = IF n.promoted THEN [h.pending EXCEPT !.producers = <<>>] ELSE h.pending
  BY NextFields
<1>2. /\ h.num \in Nat /\ h.version \in Nat /\ h.pending \in Schedule /\ proposed \in Schedule
      /\ proposed.block # 0 => proposed.version = Latest(h) + 1
  BY DEF HInv
<1>3. n.version \in Nat /\ n.pending \in Schedule
  <2>1. [h.pending EXCEPT !.producers = <<>>] \in Schedule
    <3>1. <<>> \in Seq(Producer)
      OBVIOUS
    <3>2. QED
      BY <1>2, <3>1 DEF Schedule
  <2>2. h.pending.version \in Nat
    BY <1>2 DEF Schedule
  <2>3. QED
    BY <1>1, <1>2, <2>1, <2>2
<1>4. CASE Promotes(h, n)
  <2>1. set \in Schedule
    BY <1>1, <1>2 DEF Schedule
  <2>2. /\ [n EXCEPT !.pending = set].pending = set
        /\ [n EXCEPT !.pending = set].num = n.num
        /\ [n EXCEPT !.pending = set].version = n.version
    BY DEF Next_
  <2>3. NoSchedule \in Schedule /\ NoSchedule.block = 0
    BY DEF NoSchedule, Schedule
  <2>4. QED
    BY <1>1, <1>3, <1>4, <2>1, <2>2, <2>3
<1>5. CASE ~Promotes(h, n)
  <2>1. Latest(n) = Latest(h)
    BY <1>1, <1>2 DEF Latest, Schedule
  <2>2. QED
    BY <1>1, <1>2, <1>3, <1>5, <2>1
<1>6. QED
  BY <1>4, <1>5

(* A proposal made in the block gets the version above the newest one.     *)
LEMMA ProposalOK ==
  ASSUME NEW sch \in Seq(Producer), NEW n, NEW left \in Schedule,
         n.num \in Nat, n.version \in Nat, n.pending \in Schedule,
         left.block # 0 => left.version = Latest(n) + 1
  PROVE  LET r == set_proposed_producers(sch, n, left)
         IN r \in Schedule /\ (r.block # 0 => r.version = Latest(n) + 1)
BY DEF set_proposed_producers, Latest, Schedule

(* Adding a block keeps the invariant.                                     *)
LEMMA AddBlockHInv ==
  ASSUME NEW t, NEW c, NEW sch \in Seq(Producer), HInv, AddBlock(t, c, sch)
  PROVE  HInv'
<1> DEFINE p == get_scheduled_producer(h, t)
           n == Next_(h, p, c)
           left == IF Promotes(h, n) THEN NoSchedule ELSE proposed
           done == IF Promotes(h, n)
                   THEN [n EXCEPT !.pending = [proposed EXCEPT !.block = n.num]] ELSE n
<1>1. /\ h' = done
      /\ proposed' = IF sch = <<>> THEN left ELSE set_proposed_producers(sch, done, left)
  BY DEF AddBlock
<1>2. /\ done.num = h.num + 1 /\ done.version \in Nat
      /\ done.pending \in Schedule /\ left \in Schedule
      /\ left.block # 0 => left.version = Latest(done) + 1
  BY PromotionOK
<1>3. done.num \in Nat
  BY <1>2 DEF HInv
<1> HIDE DEF done, left
<1>4. LET r == set_proposed_producers(sch, done, left)
      IN r \in Schedule /\ (r.block # 0 => r.version = Latest(done) + 1)
  BY <1>2, <1>3, ProposalOK
<1>5. Latest(h') = Latest(done) /\ Latest(h)' = Latest(h')
  BY <1>1 DEF Latest
<1>6. proposed' \in Schedule /\ (proposed'.block # 0 => proposed'.version = Latest(done) + 1)
  BY <1>1, <1>2, <1>4
<1>7. QED
  BY <1>1, <1>2, <1>3, <1>5, <1>6 DEF HInv

(* Proposed schedules are sequences of producers.                          *)
LEMMA ScheduleTypes == \A sch \in Schedules \cup {<<>>} : sch \in Seq(Producer)
<1>1. <<>> \in Seq(Producer)
  OBVIOUS
<1>2. \A sch \in Schedules : sch \in Seq(Producer)
  BY HeaderAssumption
<1>3. QED
  BY <1>1, <1>2

LEMMA NextHInv == HInv /\ [Next]_vars => HInv'
<1>1. ASSUME HInv, AnyBlock PROVE HInv'
  BY <1>1, AddBlockHInv, ScheduleTypes DEF AnyBlock
<1>2. ASSUME HInv, OwnBlock PROVE HInv'
  BY <1>2, AddBlockHInv, ScheduleTypes DEF OwnBlock
<1>3. ASSUME HInv, NEW p \in Restarting, Restart(p) PROVE HInv'
  BY <1>3 DEF HInv, Latest, Restart
<1>4. ASSUME HInv, UNCHANGED vars PROVE HInv'
  BY <1>4 DEF HInv, Latest, vars
<1>5. QED
  BY <1>1, <1>2, <1>3, <1>4 DEF Next

(* The invariant gives what start_block and _finish_next require.          *)
LEMMA HInvAccepted == HInv => NewScheduleAccepted
<1> SUFFICES ASSUME HInv, NEW p \in Members(h.active), Promotes(h, Next_(h, p, 0))
             PROVE  ScheduleAccepted(h, Next_(h, p, 0))
  BY DEF NewScheduleAccepted
<1> DEFINE n == Next_(h, p, 0)
<1>1. proposed.block # 0 /\ h.pending.producers = <<>>
  BY DEF Promotes
<1>2. /\ n.promoted \in BOOLEAN
      /\ n.promoted => h.pending.producers # <<>>
      /\ n.version = IF n.promoted THEN h.pending.version ELSE h.version
  BY NextFields
<1>3. ~n.promoted /\ n.version = h.version
  BY <1>1, <1>2
<1>4. proposed.version = h.version + 1
  BY <1>1 DEF HInv, Latest
<1>5. QED
  BY <1>1, <1>3, <1>4 DEF ScheduleAccepted

(* Whatever valid headers some producers sign and whatever restarts the    *)
(* nodes of the others go through, a schedule that start_block moves to    *)
(* the header is accepted by every validator: its version is the next one  *)
(* and no schedule is pending or just promoted.                            *)
THEOREM PromotionAccepted == Spec => []NewScheduleAccepted
BY InitHInv, NextHInv, HInvAccepted, PTL DEF Spec
-----------------------------------------------------------------------------
(* What the members of the state are.                                      *)
HTypes ==
  /\ h.num \in 1 .. MaxBlock /\ h.proposed \in 0 .. h.num /\ h.lib \in 0 .. h.num
  /\ h.active \in Seq(Producer) /\ h.active # <<>>
  /\ h.confirm_count \in Seq(Int) /\ Len(h.confirm_count) < h.num
  /\ DOMAIN h.implied \subseteq Producer /\ IsFiniteSet(DOMAIN h.implied)
  /\ h.implied \in [DOMAIN h.implied -> 0 .. h.num]
  /\ DOMAIN h.produced \subseteq Producer
  /\ h.produced \in [DOMAIN h.produced -> 0 .. h.num]
  /\ slot \in Nat /\ watermark \in [Producer -> Nat]

(* A nonempty set of naturals has a least element; a bounded one has a     *)
(* greatest.                                                               *)
LEMMA LeastNat ==
  ASSUME NEW S \in SUBSET Nat, S # {}
  PROVE  \E x \in S : \A y \in S : x <= y
<1>1. IsWellFoundedOn(OpToRel(<, Nat), Nat)
  BY NatLessThanWellFounded
<1>2. PICK x \in S : \A y \in S : ~ (<<y, x>> \in OpToRel(<, Nat))
  BY <1>1, WFMin, Zenon
<1>3. \A y \in S : ~ (y < x)
  BY <1>2 DEF OpToRel
<1> QED
  BY <1>3

LEMMA GreatestNat ==
  ASSUME NEW m \in Nat, NEW S \in SUBSET (0 .. m), S # {}
  PROVE  \E x \in S : \A y \in S : y <= x
<1> DEFINE T == {m - y : y \in S}
<1>1. T \in SUBSET Nat /\ T # {}
  <2>1. \A y \in S : m - y \in Nat
    OBVIOUS
  <2>2. PICK y : y \in S
    OBVIOUS
  <2>3. m - y \in T
    BY <2>2
  <2> QED
    BY <2>1, <2>3
<1>2. PICK z \in T : \A y \in T : z <= y
  BY <1>1, LeastNat
<1>3. PICK x \in S : z = m - x
  BY <1>2
<1>4. \A y \in S : m - x <= m - y
  BY <1>2, <1>3
<1> QED
  BY <1>4

(* The values of v on D, and who has a lower value than x or at most x.    *)
Values(D, v) == {v[q] : q \in D}
Lesser(D, v, x) == {q \in D : v[q] < x}
AtMost(D, v, x) == {q \in D : v[q] <= x}

(* Among finitely many values there is one of every rank.                  *)
LEMMA Ranked ==
  ASSUME NEW m \in Nat, NEW D, IsFiniteSet(D), NEW v \in [D -> 0 .. m],
         NEW r \in Nat, r < Cardinality(D)
  PROVE  \E x \in Values(D, v) :
            Cardinality(Lesser(D, v, x)) <= r /\ r < Cardinality(AtMost(D, v, x))
<1> DEFINE V == {v[q] : q \in D}
           Under(x) == {q \in D : v[q] < x}
           Within(x) == {q \in D : v[q] <= x}
           High == {x \in V : r < Cardinality(Within(x))}
<1>1. V \in SUBSET (0 .. m) /\ V # {}
  <2>1. D # {}
    BY FS_EmptySet
  <2> QED
    BY <2>1
<1>2. \A x : IsFiniteSet(Under(x)) /\ IsFiniteSet(Within(x))
  BY FS_Subset
<1>3. \A x : Cardinality(Under(x)) \in Nat /\ Cardinality(Within(x)) \in Nat
  BY <1>2, FS_CardinalityType
<1>4. High # {}
  <2>1. PICK x \in V : \A y \in V : y <= x
    BY <1>1, GreatestNat
  <2>2. Within(x) = D
    BY <2>1
  <2> QED
    BY <2>1, <2>2
<1>5. PICK x \in High : \A y \in High : x <= y
  <2>1. High \in SUBSET Nat
    BY <1>1
  <2> HIDE DEF High
  <2> QED
    BY <1>4, <2>1, LeastNat
<1>6. Cardinality(Under(x)) <= r
  <2>1. CASE Under(x) = {}
    BY <2>1, FS_EmptySet
  <2>2. CASE Under(x) # {}
    <3> DEFINE W == {y \in V : y < x}
    <3>1. W \in SUBSET (0 .. m) /\ W # {}
      BY <1>1, <2>2
    <3>2. PICK u \in W : \A y \in W : y <= u
      <4> HIDE DEF W
      <4> QED
        BY <3>1, GreatestNat
    <3>3. u \in V /\ u < x /\ u \in Nat /\ x \in Nat
      BY <1>1, <3>2
    <3>4. Within(u) = Under(x)
      <4>1. ASSUME NEW q \in D PROVE v[q] <= u <=> v[q] < x
        <5>1. v[q] \in V /\ v[q] \in Nat
          OBVIOUS
        <5>2. v[q] < x => v[q] <= u
          BY <3>2, <5>1
        <5> QED
          BY <3>3, <5>1, <5>2
      <4> QED
        BY <4>1
    <3>5. u \notin High
      BY <1>5, <3>3
    <3>6. ~ (r < Cardinality(Within(u)))
      BY <3>3, <3>5
    <3> QED
      BY <1>3, <3>4, <3>6
  <2> QED
    BY <2>1, <2>2
<1>7. /\ Values(D, v) = V
      /\ \A y : Lesser(D, v, y) = Under(y) /\ AtMost(D, v, y) = Within(y)
  BY DEF Values, Lesser, AtMost
<1> HIDE DEF Under, Within, V
<1>8. x \in V /\ r < Cardinality(Within(x))
  BY <1>5
<1> QED
  BY <1>6, <1>7, <1>8

(* The last irreversible block has the rank of the slack among the numbers *)
(* that the producers imply.                                               *)
ImpliedBy(s, p, q) == IF q = p THEN s.proposed ELSE s.implied[q]

Below(s, p, x) == {q \in DOMAIN s.implied : ImpliedBy(s, p, q) < x}
UpTo(s, p, x) == {q \in DOMAIN s.implied : ImpliedBy(s, p, q) <= x}
Rank(s) == (Cardinality(DOMAIN s.implied) - 1) \div 3

(* Some producers imply block numbers up to m.                             *)
Implying(s, m) ==
  /\ IsFiniteSet(DOMAIN s.implied) /\ DOMAIN s.implied # {}
  /\ s.implied \in [DOMAIN s.implied -> 0 .. m] /\ s.proposed \in 0 .. m

LEMMA CalcRanked ==
  ASSUME NEW s, NEW p, NEW m \in Nat, Implying(s, m)
  PROVE  LET x == calc_dpos_last_irreversible(s, p)
         IN /\ x \in {ImpliedBy(s, p, q) : q \in DOMAIN s.implied}
            /\ Rank(s) \in Nat
            /\ Cardinality(Below(s, p, x)) <= Rank(s) /\ Rank(s) < Cardinality(UpTo(s, p, x))
<1>1. PICK D : D = DOMAIN s.implied
  OBVIOUS
<1>2. PICK v : v = [q \in D |-> ImpliedBy(s, p, q)]
  OBVIOUS
<1> DEFINE r == Rank(s)
           Fits(x) == Cardinality(Lesser(D, v, x)) <= r /\ r < Cardinality(AtMost(D, v, x))
<1>3. IsFiniteSet(D) /\ D # {} /\ v \in [D -> 0 .. m] /\ \A q \in D : v[q] = ImpliedBy(s, p, q)
  BY <1>1, <1>2 DEF Implying, ImpliedBy
<1>4. r \in Nat /\ r < Cardinality(D)
  <2>1. Cardinality(D) \in Nat /\ Cardinality(D) # 0
    BY <1>3, FS_CardinalityType, FS_EmptySet
  <2> QED
    BY <1>1, <2>1 DEF Rank
<1>5. \E x \in Values(D, v) : Fits(x)
  BY <1>3, <1>4, Ranked
<1>6. /\ \A x : Below(s, p, x) = Lesser(D, v, x)
      /\ \A x : UpTo(s, p, x) = AtMost(D, v, x)
      /\ {ImpliedBy(s, p, q) : q \in DOMAIN s.implied} = Values(D, v)
  BY <1>1, <1>3 DEF Below, UpTo, Lesser, AtMost, Values
<1>7. calc_dpos_last_irreversible(s, p) =
        IF {ImpliedBy(s, p, q) : q \in DOMAIN s.implied} = {} THEN 0
        ELSE CHOOSE x \in {ImpliedBy(s, p, q) : q \in DOMAIN s.implied} :
               Cardinality(Below(s, p, x)) <= Rank(s) /\ Rank(s) < Cardinality(UpTo(s, p, x))
  BY Zenon DEF calc_dpos_last_irreversible, ImpliedBy, Below, UpTo, Rank
<1> DEFINE S == {ImpliedBy(s, p, q) : q \in DOMAIN s.implied}
           Chosen(x) == Cardinality(Below(s, p, x)) <= Rank(s) /\ Rank(s) < Cardinality(UpTo(s, p, x))
<1>8. \E x \in S : Chosen(x)
  BY <1>5, <1>6
<1>9. S # {}
  BY <1>8
<1>10. calc_dpos_last_irreversible(s, p) = CHOOSE x \in S : Chosen(x)
  BY <1>7, <1>9
<1>11. calc_dpos_last_irreversible(s, p) \in S /\ Chosen(calc_dpos_last_irreversible(s, p))
  <2> HIDE DEF S, Chosen
  <2> QED
    BY <1>8, <1>10
<1> QED
  BY <1>4, <1>11

(* The last irreversible block is one that some producer implies to be     *)
(* irreversible.                                                           *)
LEMMA LibOK ==
  ASSUME HTypes, NEW p
  PROVE  calc_dpos_last_irreversible(h, p) \in 0 .. h.num
<1>1. /\ h.num \in Nat /\ h.proposed \in 0 .. h.num /\ IsFiniteSet(DOMAIN h.implied)
      /\ h.implied \in [DOMAIN h.implied -> 0 .. h.num]
  BY HeaderAssumption DEF HTypes
<1>2. CASE DOMAIN h.implied = {}
  <2>1. calc_dpos_last_irreversible(h, p) = 0
    BY <1>2 DEF calc_dpos_last_irreversible
  <2> QED
    BY <1>1, <2>1
<1>3. CASE DOMAIN h.implied # {}
  <2>1. PICK q \in DOMAIN h.implied : calc_dpos_last_irreversible(h, p) = ImpliedBy(h, p, q)
    BY <1>1, <1>3, CalcRanked DEF Implying
  <2> QED
    BY <1>1, <2>1 DEF ImpliedBy
<1> QED
  BY <1>2, <1>3

(* A schedule has finitely many producers, and every slot one of them.     *)
LEMMA MembersFinite ==
  ASSUME NEW s \in Seq(Producer)
  PROVE  IsFiniteSet(Members(s)) /\ Members(s) \subseteq Producer
<1>1. IsFiniteSet(1 .. Len(s))
  BY FS_Interval
<1>2. DOMAIN s = 1 .. Len(s)
  OBVIOUS
<1>3. s \in Surjection(1 .. Len(s), Members(s))
  BY <1>2 DEF Surjection, Members
<1>4. Members(s) \subseteq Producer
  BY <1>2 DEF Members
<1> QED
  BY <1>1, <1>3, <1>4, FS_Surjection

LEMMA Scheduled ==
  ASSUME HTypes, NEW t \in Nat
  PROVE  /\ get_scheduled_producer(h, t) \in Members(h.active)
         /\ get_scheduled_producer(h, t) \in Producer
<1>1. Len(h.active) \in Nat \ {0} /\ DOMAIN h.active = 1 .. Len(h.active)
  BY DEF HTypes
<1>2. (t % Len(h.active)) + 1 \in 1 .. Len(h.active)
  <2>1. \A L \in Nat \ {0} : (t % L) \in 0 .. L - 1
    OBVIOUS
  <2>2. PICK L \in Nat \ {0} : L = Len(h.active)
    BY <1>1
  <2>3. (t % L) \in 0 .. L - 1
    BY <2>1
  <2>4. (t % L) + 1 \in 1 .. L
    <3>1. \A x \in 0 .. L - 1 : x + 1 \in 1 .. L
      BY <2>2
    <3> QED
      BY <2>3, <3>1, Zenon
  <2> QED
    BY <2>2, <2>4
<1>3. get_scheduled_producer(h, t) \in Members(h.active)
  BY <1>1, <1>2 DEF get_scheduled_producer, Members
<1> QED
  BY <1>3, MembersFinite DEF HTypes

(* The counters with the one of the new block last.                        *)
LEMMA GrownOK ==
  ASSUME HTypes
  PROVE  /\ Grown(h) \in Seq(Int) /\ Len(Grown(h)) \in 1 .. h.num
         /\ Grown(h)[Len(Grown(h))] = RequiredConfs(h)
         /\ \E d \in {0, 1} :
              /\ Len(Grown(h)) = Len(h.confirm_count) + 1 - d
              /\ \A i \in 1 .. Len(Grown(h)) - 1 : /\ i + d \in 1 .. Len(h.confirm_count)
                                                    /\ Grown(h)[i] = h.confirm_count[i + d]
<1> DEFINE cc == h.confirm_count
           base == IF Len(cc) < MaxTracked THEN cc ELSE Tail(cc)
           d == IF Len(cc) < MaxTracked THEN 0 ELSE 1
<1>1. cc \in Seq(Int) /\ Len(cc) \in Nat /\ h.num \in Nat /\ Len(cc) < h.num
  BY HeaderAssumption DEF HTypes
<1>2. RequiredConfs(h) \in Int
  <2>1. Len(h.active) \in Nat
    BY DEF HTypes
  <2> QED
    BY <2>1 DEF RequiredConfs
<1>3. /\ base \in Seq(Int) /\ Len(base) = Len(cc) - d
      /\ \A i \in 1 .. Len(base) : i + d \in 1 .. Len(cc) /\ base[i] = cc[i + d]
  <2>1. CASE Len(cc) < MaxTracked
    BY <1>1, <2>1
  <2>2. CASE ~ (Len(cc) < MaxTracked)
    <3>1. Len(cc) > 0
      BY <1>1, <2>2, HeaderAssumption
    <3>2. cc # <<>>
      BY <3>1
    <3>3. /\ Tail(cc) \in Seq(Int) /\ Len(Tail(cc)) = Len(cc) - 1
          /\ \A i \in 1 .. Len(Tail(cc)) : Tail(cc)[i] = cc[i + 1]
      BY <1>1, <3>2
    <3> QED
      BY <1>1, <2>2, <3>3
  <2> QED
    BY <2>1, <2>2
<1>4. Grown(h) = Append(base, RequiredConfs(h))
  BY DEF Grown
<1>5. d \in {0, 1} /\ Len(base) \in Nat
  BY <1>3
<1> HIDE DEF base, d
<1>6. /\ Grown(h) \in Seq(Int) /\ Len(Grown(h)) = Len(base) + 1
      /\ Grown(h)[Len(base) + 1] = RequiredConfs(h)
      /\ \A i \in 1 .. Len(base) : Grown(h)[i] = base[i]
  BY <1>2, <1>3, <1>4, <1>5
<1>7. /\ Len(Grown(h)) = Len(cc) + 1 - d
      /\ \A i \in 1 .. Len(Grown(h)) - 1 : i + d \in 1 .. Len(cc) /\ Grown(h)[i] = cc[i + d]
  <2>1. Len(Grown(h)) - 1 = Len(base) /\ Len(Grown(h)) = Len(cc) + 1 - d
    BY <1>1, <1>3, <1>5, <1>6
  <2>2. \A i \in 1 .. Len(base) : i + d \in 1 .. Len(cc) /\ Grown(h)[i] = cc[i + d]
    BY <1>3, <1>6
  <2> QED
    BY <2>1, <2>2
<1>8. Len(Grown(h)) \in 1 .. h.num /\ Grown(h)[Len(Grown(h))] = RequiredConfs(h)
  BY <1>1, <1>3, <1>5, <1>6
<1> QED
  BY <1>5, <1>6, <1>7, <1>8

(* The entries that a header confirms.                                     *)
LEMMA LowerOK ==
  ASSUME NEW n \in Nat \ {0}, NEW c \in Nat
  PROVE  Lower(n, c) \in 1 .. n /\ n - Lower(n, c) <= c
BY DEF Lower

LEMMA HitOK ==
  ASSUME NEW counts \in Seq(Int), Len(counts) > 0, NEW c \in Nat, Complete(counts, c) # {}
  PROVE  /\ Hit(counts, c) \in Lower(Len(counts), c) .. Len(counts)
         /\ counts[Hit(counts, c)] = 1
<1> DEFINE C == Complete(counts, c)
<1>1. Len(counts) \in Nat \ {0}
  OBVIOUS
<1>2. Lower(Len(counts), c) \in 1 .. Len(counts)
  BY <1>1, LowerOK
<1>3. C \in SUBSET (0 .. Len(counts)) /\ C # {}
  BY <1>1, <1>2 DEF Complete
<1>4. \E x \in C : \A y \in C : y <= x
  <2> HIDE DEF C
  <2> QED
    BY <1>1, <1>3, GreatestNat
<1>5. Hit(counts, c) \in C
  BY <1>4 DEF Hit
<1> QED
  BY <1>5 DEF Complete

(* Where the entries that are kept begin.                                  *)
Kept(counts, c) == IF Complete(counts, c) = {} THEN 0 ELSE Hit(counts, c)

LEMMA ConfirmedOK ==
  ASSUME NEW counts \in Seq(Int), Len(counts) > 0, NEW c \in Nat
  PROVE  /\ Kept(counts, c) \in 0 .. Len(counts)
         /\ Complete(counts, c) # {} => Kept(counts, c) \in Confirmed(counts, c)
         /\ \A i \in Confirmed(counts, c) : i \in 1 .. Len(counts) /\ Len(counts) - i <= c
<1>1. Len(counts) \in Nat \ {0}
  OBVIOUS
<1>2. /\ Lower(Len(counts), c) \in 1 .. Len(counts)
      /\ Len(counts) - Lower(Len(counts), c) <= c
  BY <1>1, LowerOK
<1>3. CASE Complete(counts, c) = {}
  BY <1>1, <1>2, <1>3 DEF Kept, Confirmed
<1>4. CASE Complete(counts, c) # {}
  <2>1. Hit(counts, c) \in Lower(Len(counts), c) .. Len(counts)
    BY <1>4, HitOK
  <2> QED
    BY <1>1, <1>2, <1>4, <2>1 DEF Kept, Confirmed
<1> QED
  BY <1>3, <1>4

LEMMA DecrementedOK ==
  ASSUME NEW counts \in Seq(Int), Len(counts) > 0, NEW c \in Nat
  PROVE  /\ DecrementedCounts(counts, c) \in Seq(Int)
         /\ Len(DecrementedCounts(counts, c)) = Len(counts) - Kept(counts, c)
         /\ \A j \in 1 .. Len(counts) - Kept(counts, c) :
              /\ Kept(counts, c) + j \in 1 .. Len(counts)
              /\ DecrementedCounts(counts, c)[j] =
                   IF Kept(counts, c) + j \in Confirmed(counts, c)
                   THEN counts[Kept(counts, c) + j] - 1 ELSE counts[Kept(counts, c) + j]
<1> DEFINE k == Kept(counts, c)
           D == DecrementedCounts(counts, c)
           dec(i) == IF i \in Confirmed(counts, c) THEN counts[i] - 1 ELSE counts[i]
<1>1. D = [j \in 1 .. Len(counts) - k |-> dec(k + j)]
  BY Zenon DEF DecrementedCounts, Kept
<1>2. Len(counts) \in Nat \ {0} /\ k \in 0 .. Len(counts)
  BY ConfirmedOK
<1> HIDE DEF k, D
<1>3. \A j \in 1 .. Len(counts) - k : k + j \in 1 .. Len(counts)
  BY <1>2
<1>4. \A i \in 1 .. Len(counts) : dec(i) \in Int
  OBVIOUS
<1> HIDE DEF dec
<1>5. Len(counts) - k \in Nat
  BY <1>2
<1>6. D \in Seq(Int) /\ Len(D) = Len(counts) - k
  <2>1. PICK m \in Nat : m = Len(counts) - k
    BY <1>5
  <2>2. D = [j \in 1 .. m |-> dec(k + j)] /\ \A j \in 1 .. m : dec(k + j) \in Int
    BY <1>1, <1>3, <1>4, <2>1
  <2> QED
    BY <2>1, <2>2
<1>7. \A j \in 1 .. Len(counts) - k : D[j] = dec(k + j)
  BY <1>1
<1> QED
  BY <1>3, <1>6, <1>7 DEF dec, D, k

(* The members of the header state of the next block.                      *)
Promoted(s, p) == s.pending.producers # <<>> /\ calc_dpos_last_irreversible(s, p) >= s.pending.block

LEMMA AddBlockFields ==
  ASSUME NEW t, NEW c, NEW sch, AddBlock(t, c, sch)
  PROVE  LET p == get_scheduled_producer(h, t)
             lib == calc_dpos_last_irreversible(h, p)
         IN /\ h'.num = h.num + 1
            /\ h'.confirm_count = DecrementedCounts(Grown(h), c)
            /\ h'.proposed = IF Complete(Grown(h), c) = {} THEN h.proposed
                             ELSE NumOf(h, Grown(h), Hit(Grown(h), c))
            /\ h'.lib = lib
            /\ h'.active = IF Promoted(h, p) THEN h.pending.producers ELSE h.active
            /\ h'.produced = With(IF Promoted(h, p) THEN Carried(h, h.produced, lib)
                                  ELSE h.produced, p, h.num + 1)
            /\ h'.implied = IF Promoted(h, p)
                            THEN [q \in DOMAIN Carried(h, h.implied, lib) |->
                                    IF q = p THEN h.proposed ELSE Carried(h, h.implied, lib)[q]]
                            ELSE With(h.implied, p, h.proposed)
<1> DEFINE p == get_scheduled_producer(h, t)
           n == Next_(h, p, c)
           set == [proposed EXCEPT !.block = n.num]
<1>1. h' = IF Promotes(h, n) THEN [n EXCEPT !.pending = set] ELSE n
  BY DEF AddBlock
<1>2. /\ h'.num = n.num /\ h'.confirm_count = n.confirm_count /\ h'.proposed = n.proposed
      /\ h'.lib = n.lib /\ h'.active = n.active /\ h'.produced = n.produced
      /\ h'.implied = n.implied
  <2>1. CASE Promotes(h, n)
    <3>1. h' = [n EXCEPT !.pending = set]
      BY <1>1, <2>1
    <3> HIDE DEF set
    <3> QED
      BY <3>1 DEF Next_
  <2>2. CASE ~Promotes(h, n)
    BY <1>1, <2>2
  <2> QED
    BY <2>1, <2>2
<1>3. /\ n.num = h.num + 1
      /\ n.confirm_count = DecrementedCounts(Grown(h), c)
      /\ n.proposed = IF Complete(Grown(h), c) = {} THEN h.proposed
                      ELSE NumOf(h, Grown(h), Hit(Grown(h), c))
      /\ n.lib = calc_dpos_last_irreversible(h, p)
      /\ n.active = IF Promoted(h, p) THEN h.pending.producers ELSE h.active
      /\ n.produced = With(IF Promoted(h, p)
                           THEN Carried(h, h.produced, calc_dpos_last_irreversible(h, p))
                           ELSE h.produced, p, h.num + 1)
  BY DEF Next_, Promoted
<1>4. n.implied = IF Promoted(h, p)
                  THEN [q \in DOMAIN Carried(h, h.implied, calc_dpos_last_irreversible(h, p)) |->
                          IF q = p THEN h.proposed
                          ELSE Carried(h, h.implied, calc_dpos_last_irreversible(h, p))[q]]
                  ELSE With(h.implied, p, h.proposed)
  BY DEF Next_, Promoted
<1> HIDE DEF p, n
<1> QED
  BY <1>2, <1>3, <1>4 DEF p

(* What becomes of the pending schedule.                                   *)
LEMMA AddBlockPending ==
  ASSUME HInv, NEW t, NEW c, NEW sch, AddBlock(t, c, sch)
  PROVE  LET p == get_scheduled_producer(h, t)
         IN /\ h'.pending.producers # <<>> =>
                 \/ h'.pending.block = h.num + 1
                 \/ h'.pending = h.pending /\ ~Promoted(h, p)
<1> DEFINE p == get_scheduled_producer(h, t)
           n == Next_(h, p, c)
           set == [proposed EXCEPT !.block = n.num]
<1>1. h' = IF Promotes(h, n) THEN [n EXCEPT !.pending = set] ELSE n
  BY DEF AddBlock
<1>2. n.num = h.num + 1
  BY DEF Next_
<1>3. n.pending = IF Promoted(h, p) THEN [h.pending EXCEPT !.producers = <<>>] ELSE h.pending
  BY DEF Next_, Promoted
<1>4. [h.pending EXCEPT !.producers = <<>>].producers = <<>>
  BY DEF HInv, Schedule
<1>5. CASE Promotes(h, n)
  <2>1. h'.pending = set
    BY <1>1, <1>5 DEF Next_
  <2>2. set.block = n.num
    BY DEF HInv, Schedule
  <2> QED
    BY <1>2, <2>1, <2>2
<1>6. CASE ~Promotes(h, n)
  BY <1>1, <1>3, <1>4, <1>6
<1> QED
  BY <1>5, <1>6

LEMMA CarriedOK ==
  ASSUME NEW s, NEW f, NEW lib
  PROVE  /\ DOMAIN Carried(s, f, lib) = Members(s.pending.producers)
         /\ \A q \in Members(s.pending.producers) :
              Carried(s, f, lib)[q] = IF q \in DOMAIN f THEN f[q] ELSE lib
BY DEF Carried

(* A member of a record of block numbers, kept or taken over.              *)
LEMMA CarriedTypes ==
  ASSUME NEW s, s.pending.producers \in Seq(Producer), NEW f, NEW m \in Nat,
         DOMAIN f \subseteq Producer, f \in [DOMAIN f -> 0 .. m], NEW lib \in 0 .. m
  PROVE  /\ DOMAIN Carried(s, f, lib) \subseteq Producer
         /\ IsFiniteSet(DOMAIN Carried(s, f, lib))
         /\ Carried(s, f, lib) \in [DOMAIN Carried(s, f, lib) -> 0 .. m]
<1>1. /\ IsFiniteSet(Members(s.pending.producers))
      /\ Members(s.pending.producers) \subseteq Producer
  BY MembersFinite
<1>2. Carried(s, f, lib) =
        [q \in Members(s.pending.producers) |-> IF q \in DOMAIN f THEN f[q] ELSE lib]
  BY DEF Carried
<1> QED
  BY <1>1, <1>2

(* Adding a block keeps the types, whatever count its header carries.      *)
LEMMA AddBlockTypes ==
  ASSUME HInv, HTypes, NEW t \in Nat, NEW c \in Nat, NEW sch, AddBlock(t, c, sch)
  PROVE  HTypes'
<1> DEFINE p == get_scheduled_producer(h, t)
           lib == calc_dpos_last_irreversible(h, p)
           counts == Grown(h)
<1>1. /\ t \in Nat /\ c \in Nat /\ AddBlock(t, c, sch) /\ h.num < MaxBlock
      /\ slot' = t /\ watermark' = [watermark EXCEPT ![p] = Next_(h, p, c).num]
  BY DEF AddBlock
<1>2. p \in Producer /\ p \in Members(h.active)
  BY <1>1, Scheduled
<1>3. /\ h'.num = h.num + 1
      /\ h'.confirm_count = DecrementedCounts(counts, c)
      /\ h'.proposed = (IF Complete(counts, c) = {} THEN h.proposed
                        ELSE NumOf(h, counts, Hit(counts, c)))
      /\ h'.lib = lib
      /\ h'.active = (IF Promoted(h, p) THEN h.pending.producers ELSE h.active)
      /\ h'.produced = With(IF Promoted(h, p) THEN Carried(h, h.produced, lib)
                            ELSE h.produced, p, h.num + 1)
      /\ h'.implied = (IF Promoted(h, p)
                       THEN [q \in DOMAIN Carried(h, h.implied, lib) |->
                               IF q = p THEN h.proposed ELSE Carried(h, h.implied, lib)[q]]
                       ELSE With(h.implied, p, h.proposed))
  BY <1>1, AddBlockFields
<1>4. lib \in 0 .. h.num
  BY LibOK
<1>5. /\ counts \in Seq(Int) /\ Len(counts) \in 1 .. h.num /\ Len(counts) > 0
  BY GrownOK DEF HTypes
<1>6. /\ h.num \in 1 .. MaxBlock /\ h.num \in Nat /\ MaxBlock \in Nat
      /\ h.proposed \in 0 .. h.num /\ h.pending.producers \in Seq(Producer)
  BY HeaderAssumption DEF HTypes, HInv, Schedule
<1> HIDE DEF p, lib, counts
<1>7. h'.num \in 1 .. MaxBlock /\ h'.lib \in 0 .. h'.num
  BY <1>1, <1>3, <1>4, <1>6
<1>8. h'.proposed \in 0 .. h'.num
  <2>1. CASE Complete(counts, c) = {}
    BY <1>3, <1>6, <2>1
  <2>2. CASE Complete(counts, c) # {}
    <3>1. Hit(counts, c) \in 1 .. Len(counts)
      BY <1>1, <1>5, <2>2, ConfirmedOK DEF Kept
    <3>2. NumOf(h, counts, Hit(counts, c)) = h.num + 1 - (Len(counts) - Hit(counts, c))
      BY DEF NumOf
    <3>3. h'.proposed = h.num + 1 - (Len(counts) - Hit(counts, c)) /\ h'.num = h.num + 1
      BY <1>3, <2>2, <3>2
    <3>4. \A L \in 1 .. h.num : \A i \in 1 .. L : h.num + 1 - (L - i) \in 0 .. h.num + 1
      BY <1>6
    <3>5. h.num + 1 - (Len(counts) - Hit(counts, c)) \in 0 .. h.num + 1
      BY <1>5, <3>1, <3>4
    <3> QED
      BY <3>3, <3>5, Zenon
  <2> QED
    BY <2>1, <2>2
<1>9. h'.active \in Seq(Producer) /\ h'.active # <<>>
  BY <1>3, <1>6 DEF Promoted, HTypes
<1>10. h'.confirm_count \in Seq(Int) /\ Len(h'.confirm_count) < h'.num
  <2>1. /\ DecrementedCounts(counts, c) \in Seq(Int)
        /\ Len(DecrementedCounts(counts, c)) = Len(counts) - Kept(counts, c)
        /\ Kept(counts, c) \in 0 .. Len(counts)
    BY <1>1, <1>5, DecrementedOK, ConfirmedOK
  <2> QED
    BY <1>3, <1>5, <1>6, <2>1
<1>11. /\ DOMAIN h'.produced \subseteq Producer
       /\ h'.produced \in [DOMAIN h'.produced -> 0 .. h'.num]
  <2> DEFINE f == IF Promoted(h, p) THEN Carried(h, h.produced, lib) ELSE h.produced
  <2>1. DOMAIN f \subseteq Producer /\ f \in [DOMAIN f -> 0 .. h.num]
    BY <1>4, <1>6, CarriedTypes DEF HTypes
  <2>2. h'.produced = With(f, p, h.num + 1)
    BY <1>3
  <2> HIDE DEF f
  <2>3. h'.produced = [q \in DOMAIN f \cup {p} |-> IF q = p THEN h.num + 1 ELSE f[q]]
    BY <2>2 DEF With
  <2>4. \A q \in DOMAIN f \cup {p} : (IF q = p THEN h.num + 1 ELSE f[q]) \in 0 .. h'.num
    BY <1>3, <1>6, <2>1
  <2> QED
    BY <1>2, <2>1, <2>3, <2>4
<1>12. /\ DOMAIN h'.implied \subseteq Producer /\ IsFiniteSet(DOMAIN h'.implied)
       /\ h'.implied \in [DOMAIN h'.implied -> 0 .. h'.num]
  <2>0. 0 .. h.num \subseteq 0 .. h'.num /\ h.proposed \in 0 .. h'.num
    BY <1>3, <1>6
  <2>1. CASE Promoted(h, p)
    <3> DEFINE f == Carried(h, h.implied, lib)
    <3>1. DOMAIN f \subseteq Producer /\ IsFiniteSet(DOMAIN f) /\ f \in [DOMAIN f -> 0 .. h.num]
      BY <1>4, <1>6, CarriedTypes DEF HTypes
    <3>2. h'.implied = [q \in DOMAIN f |-> IF q = p THEN h.proposed ELSE f[q]]
      BY <1>3, <2>1
    <3> HIDE DEF f
    <3> QED
      BY <2>0, <3>1, <3>2
  <2>2. CASE ~Promoted(h, p)
    <3>1. h'.implied = [q \in DOMAIN h.implied \cup {p} |->
                          IF q = p THEN h.proposed ELSE h.implied[q]]
      BY <1>3, <2>2 DEF With
    <3>2. /\ DOMAIN h.implied \subseteq Producer /\ IsFiniteSet(DOMAIN h.implied)
          /\ h.implied \in [DOMAIN h.implied -> 0 .. h.num]
      BY DEF HTypes
    <3>3. IsFiniteSet(DOMAIN h.implied \cup {p})
      BY <3>2, FS_AddElement
    <3> QED
      BY <1>2, <2>0, <3>1, <3>2, <3>3
  <2> QED
    BY <2>1, <2>2
<1>13. slot' \in Nat /\ watermark' \in [Producer -> Nat]
  <2>1. Next_(h, p, c).num \in Nat
    BY <1>6 DEF Next_
  <2>2. watermark \in [Producer -> Nat]
    BY DEF HTypes
  <2>3. watermark' = [watermark EXCEPT ![p] = Next_(h, p, c).num]
    BY <1>1 DEF p
  <2> QED
    BY <1>1, <2>1, <2>2, <2>3
<1> QED
  BY <1>7, <1>8, <1>9, <1>10, <1>11, <1>12, <1>13 DEF HTypes
-----------------------------------------------------------------------------
(* The history of confirmations: finite sets, empty for blocks to come.    *)
History ==
  /\ confirmers \in [1 .. MaxBlock -> SUBSET Producer]
  /\ \A k \in 1 .. MaxBlock : IsFiniteSet(confirmers[k])
  /\ required \in [1 .. MaxBlock -> Int]
  /\ \A k \in 1 .. MaxBlock : k > h.num \/ h.num = 1 => confirmers[k] = {}

(* The block that entry i of confirm_count stands for.                     *)
BlockOf(i) == h.num - (Len(h.confirm_count) - i)

(* A tracked block needs no fewer confirmations than its counter and its   *)
(* confirmers add up to.                                                   *)
Balanced ==
  \A i \in 1 .. Len(h.confirm_count) :
    h.confirm_count[i] + Cardinality(confirmers[BlockOf(i)]) >= required[BlockOf(i)]

(* Nobody has confirmed a block above the one the header state remembers   *)
(* of him; one whom a schedule change made it forget has confirmed none    *)
(* above the block of the schedule that may bring him back.                *)
Remembered ==
  \A k \in 1 .. MaxBlock : \A q \in confirmers[k] :
    IF q \in DOMAIN h.produced THEN k <= h.produced[q]
    ELSE h.pending.producers # <<>> => k <= h.pending.block

(* After genesis there is a record of every active producer.               *)
ActiveKnown ==
  IF h.num = 1 THEN h.active = <<Initial>> ELSE Members(h.active) \subseteq DOMAIN h.produced

(* The inductive invariant behind DistinctConfirmers.                      *)
CInv ==
  HInv /\ HTypes /\ History /\ Balanced /\ Remembered /\ ActiveKnown /\ DistinctConfirmers

(* AddBlock with a count that does not reach below the first block.        *)
Counted(t, c, sch) == t \in Nat /\ c \in 0 .. h.num + 1 /\ AddBlock(t, c, sch)

(* A producer that ConfirmAllowed lets through confirms a block it has not *)
(* confirmed before.                                                       *)
LEMMA NotTwice ==
  ASSUME CInv, NEW t \in Nat, NEW c \in 0 .. h.num + 1, h.num < MaxBlock,
         ConfirmAllowed(h, get_scheduled_producer(h, t), c),
         NEW i \in Confirmed(Grown(h), c)
  PROVE  LET k == NumOf(h, Grown(h), i)
         IN /\ k \in 1 .. MaxBlock /\ k = h.num + 1 - (Len(Grown(h)) - i) /\ k <= h.num + 1
            /\ get_scheduled_producer(h, t) \notin confirmers[k]
<1> DEFINE p == get_scheduled_producer(h, t)
           k == NumOf(h, Grown(h), i)
           counts == Grown(h)
<1>1. h.num \in 1 .. MaxBlock /\ h.num \in Nat /\ MaxBlock \in Nat /\ c \in Nat
      /\ Word \in Nat /\ MaxBlock + 1 < Word
  BY HeaderAssumption DEF CInv, HTypes
<1>2. counts \in Seq(Int) /\ Len(counts) \in 1 .. h.num /\ Len(counts) > 0
  BY GrownOK DEF CInv, HTypes
<1>3. i \in 1 .. Len(counts) /\ Len(counts) - i <= c
  BY <1>1, <1>2, ConfirmedOK
<1>4. k = h.num + 1 - (Len(counts) - i)
  BY DEF NumOf
<1>5. k \in 1 .. MaxBlock /\ k <= h.num + 1 /\ h.num + 1 - c <= k
  BY <1>1, <1>2, <1>3, <1>4
<1>6. p \in Members(h.active)
  BY Scheduled DEF CInv
<1>7. p \notin confirmers[k]
  <2>1. CASE p \notin DOMAIN h.produced
    <3>1. h.num = 1
      BY <1>1, <1>6, <2>1 DEF CInv, ActiveKnown
    <3> QED
      BY <1>5, <3>1 DEF CInv, History
  <2>2. CASE p \in DOMAIN h.produced
    <3>1. h.produced[p] < (h.num + 1 - c) % Word
      BY <2>2 DEF ConfirmAllowed
    <3>2. (h.num + 1 - c) % Word = h.num + 1 - c
      <4>1. PICK x \in Nat : x = h.num + 1 - c /\ x < Word
        BY <1>1
      <4>2. x % Word = x
        BY <1>1, <4>1
      <4> QED
        BY <4>1, <4>2
    <3>3. h.produced[p] \in Int
      BY <1>1, <2>2 DEF CInv, HTypes
    <3>4. ~ (k <= h.produced[p])
      BY <1>1, <1>5, <3>1, <3>2, <3>3
    <3> QED
      BY <1>5, <2>2, <3>4 DEF CInv, Remembered
  <2> QED
    BY <2>1, <2>2
<1> HIDE DEF p, k, counts
<1> QED
  BY <1>4, <1>5, <1>7 DEF p, k, counts

(* The new confirmations.                                                  *)
Hits(k, c) == \E i \in Confirmed(Grown(h), c) : NumOf(h, Grown(h), i) = k

LEMMA NewConfirmations ==
  ASSUME CInv, NEW t, NEW c, NEW sch, Counted(t, c, sch)
  PROVE  LET p == get_scheduled_producer(h, t)
         IN /\ confirmers' = [k \in 1 .. MaxBlock |->
                                IF Hits(k, c) THEN confirmers[k] \cup {p} ELSE confirmers[k]]
            /\ \A k \in 1 .. MaxBlock :
                 /\ Hits(k, c) => k <= h.num + 1
                 /\ IsFiniteSet(confirmers'[k]) /\ Cardinality(confirmers[k]) \in Nat
                 /\ Cardinality(confirmers'[k]) =
                      IF Hits(k, c) THEN Cardinality(confirmers[k]) + 1
                      ELSE Cardinality(confirmers[k])
            /\ required' = [required EXCEPT ![h.num + 1] = RequiredConfs(h)]
<1> DEFINE p == get_scheduled_producer(h, t)
<1>1. /\ t \in Nat /\ c \in 0 .. h.num + 1 /\ h.num < MaxBlock /\ ConfirmAllowed(h, p, c)
      /\ AddBlock(t, c, sch)
  BY DEF Counted, AddBlock
<1>2. confirmers' = [k \in 1 .. MaxBlock |->
                       IF Hits(k, c) THEN confirmers[k] \cup {p} ELSE confirmers[k]]
  BY <1>1 DEF AddBlock, Hits
<1>3. Next_(h, p, c).num = h.num + 1
  BY DEF Next_
<1>4. required' = [required EXCEPT ![h.num + 1] = RequiredConfs(h)]
  BY <1>1, <1>3 DEF AddBlock
<1> HIDE DEF p
<1>5. ASSUME NEW k \in 1 .. MaxBlock
      PROVE  /\ Hits(k, c) => k <= h.num + 1
             /\ IsFiniteSet(confirmers'[k]) /\ Cardinality(confirmers[k]) \in Nat
             /\ Cardinality(confirmers'[k]) =
                  IF Hits(k, c) THEN Cardinality(confirmers[k]) + 1
                  ELSE Cardinality(confirmers[k])
  <2>1. IsFiniteSet(confirmers[k]) /\ Cardinality(confirmers[k]) \in Nat
    BY FS_CardinalityType DEF CInv, History
  <2>2. CASE Hits(k, c)
    <3>1. PICK i \in Confirmed(Grown(h), c) : NumOf(h, Grown(h), i) = k
      BY <2>2 DEF Hits
    <3>2. k <= h.num + 1 /\ p \notin confirmers[k]
      BY <1>1, <3>1, NotTwice DEF p
    <3>3. confirmers'[k] = confirmers[k] \cup {p}
      BY <1>2, <2>2
    <3>4. /\ IsFiniteSet(confirmers[k] \cup {p})
          /\ Cardinality(confirmers[k] \cup {p}) = Cardinality(confirmers[k]) + 1
      BY <2>1, <3>2, FS_AddElement
    <3> QED
      BY <2>1, <2>2, <3>2, <3>3, <3>4
  <2>3. CASE ~Hits(k, c)
    BY <1>2, <2>1, <2>3
  <2> QED
    BY <2>2, <2>3
<1> QED
  BY <1>2, <1>4, <1>5 DEF p

LEMMA AddBlockHistory ==
  ASSUME CInv, NEW t, NEW c, NEW sch, Counted(t, c, sch)
  PROVE  History'
<1> DEFINE p == get_scheduled_producer(h, t)
<1>1. /\ confirmers' = [k \in 1 .. MaxBlock |->
                          IF Hits(k, c) THEN confirmers[k] \cup {p} ELSE confirmers[k]]
      /\ \A k \in 1 .. MaxBlock : (Hits(k, c) => k <= h.num + 1) /\ IsFiniteSet(confirmers'[k])
      /\ required' = [required EXCEPT ![h.num + 1] = RequiredConfs(h)]
  BY NewConfirmations
<1>2. p \in Producer /\ h'.num = h.num + 1 /\ h.num \in Nat /\ h.num > 0
  <2>1. t \in Nat /\ HTypes /\ AddBlock(t, c, sch)
    BY DEF Counted, CInv
  <2>2. p \in Producer
    BY <2>1, Scheduled
  <2>3. h'.num = h.num + 1
    BY <2>1, AddBlockFields
  <2> QED
    BY <2>1, <2>2, <2>3, HeaderAssumption DEF HTypes
<1>3. RequiredConfs(h) \in Int
  <2>1. Len(h.active) \in Nat
    BY DEF CInv, HTypes
  <2> QED
    BY <2>1 DEF RequiredConfs
<1> HIDE DEF p
<1>4. confirmers' \in [1 .. MaxBlock -> SUBSET Producer]
  BY <1>1, <1>2 DEF CInv, History
<1>5. required' \in [1 .. MaxBlock -> Int]
  BY <1>1, <1>3 DEF CInv, History
<1>6. ASSUME NEW k \in 1 .. MaxBlock, k > h'.num \/ h'.num = 1
      PROVE  confirmers'[k] = {}
  <2>1. k > h.num /\ ~(k <= h.num + 1)
    BY <1>2, <1>6, HeaderAssumption
  <2>2. confirmers[k] = {}
    BY <2>1 DEF CInv, History
  <2>3. confirmers'[k] = confirmers[k]
    BY <1>1, <2>1
  <2> QED
    BY <2>2, <2>3
<1> QED
  BY <1>1, <1>4, <1>5, <1>6 DEF History

(* The counters before the header's confirmations, with the new one.       *)
LEMMA GrownBalanced ==
  ASSUME CInv, NEW t, NEW c, NEW sch, Counted(t, c, sch), NEW i \in 1 .. Len(Grown(h))
  PROVE  LET k == h.num + 1 - (Len(Grown(h)) - i)
         IN k \in 1 .. MaxBlock /\ Grown(h)[i] + Cardinality(confirmers[k]) >= required'[k]
<1> DEFINE k == h.num + 1 - (Len(Grown(h)) - i)
           L == Len(Grown(h))
<1>1. h.num \in 1 .. MaxBlock /\ h.num < MaxBlock /\ h.num \in Nat /\ MaxBlock \in Nat
  BY HeaderAssumption DEF CInv, HTypes, Counted, AddBlock
<1>2. L \in 1 .. h.num /\ Grown(h)[L] = RequiredConfs(h) /\ Len(h.confirm_count) \in Nat
  BY GrownOK DEF CInv, HTypes
<1>3. k \in 1 .. MaxBlock
  BY <1>1, <1>2
<1>4. required' = [required EXCEPT ![h.num + 1] = RequiredConfs(h)]
  BY NewConfirmations
<1>4a. /\ required' = [required EXCEPT ![h.num + 1] = RequiredConfs(h)]
       /\ required \in [1 .. MaxBlock -> Int]
  BY <1>4 DEF CInv, History
<1>5. CASE i = L
  <2>1. k = h.num + 1
    BY <1>1, <1>2, <1>5
  <2>2. confirmers[k] = {}
    BY <1>1, <1>3, <2>1 DEF CInv, History
  <2>3. required'[k] = RequiredConfs(h)
    BY <1>3, <1>4a, <2>1
  <2>4. RequiredConfs(h) \in Int
    <3>1. Len(h.active) \in Nat
      BY DEF CInv, HTypes
    <3> QED
      BY <3>1 DEF RequiredConfs
  <2> QED
    BY <1>2, <1>3, <1>5, <2>2, <2>3, <2>4, FS_EmptySet
<1>6. CASE i # L
  <2>1. PICK d \in {0, 1} :
          /\ L = Len(h.confirm_count) + 1 - d
          /\ \A j \in 1 .. L - 1 : /\ j + d \in 1 .. Len(h.confirm_count)
                                   /\ Grown(h)[j] = h.confirm_count[j + d]
    BY GrownOK DEF CInv
  <2>2. i \in 1 .. L - 1
    BY <1>2, <1>6
  <2>3. i + d \in 1 .. Len(h.confirm_count) /\ Grown(h)[i] = h.confirm_count[i + d]
    BY <2>1, <2>2
  <2>4. BlockOf(i + d) = k
    <3>1. h.num \in Int /\ Len(h.confirm_count) \in Int /\ d \in Int /\ i \in Int
      BY <1>1, <1>2, <2>1, <2>2
    <3>2. h.num - (Len(h.confirm_count) - (i + d)) = h.num + 1 - (Len(Grown(h)) - i)
      <4>1. PICK C \in Int : C = Len(h.confirm_count)
        BY <3>1
      <4>2. PICK n \in Int : n = h.num
        BY <3>1
      <4>3. Len(Grown(h)) = C + 1 - d
        BY <2>1, <4>1
      <4>4. n - (C - (i + d)) = n + 1 - ((C + 1 - d) - i)
        BY <3>1
      <4> QED
        BY <4>1, <4>2, <4>3, <4>4
    <3> QED
      BY <3>2 DEF BlockOf
  <2>5. h.confirm_count[i + d] + Cardinality(confirmers[k]) >= required[k]
    BY <2>3, <2>4 DEF CInv, Balanced
  <2>6. required'[k] = required[k]
    BY <1>1, <1>2, <1>3, <1>4a, <2>2
  <2> QED
    BY <1>3, <2>3, <2>5, <2>6
<1> QED
  BY <1>5, <1>6

(* The entries that the header completes or keeps after it.                *)
LEMMA AddBlockBalanced ==
  ASSUME CInv, NEW t, NEW c, NEW sch, Counted(t, c, sch)
  PROVE  Balanced'
<1> DEFINE counts == Grown(h)
           k == Kept(counts, c)
           num(i) == h.num + 1 - (Len(counts) - i)
<1>1. /\ counts \in Seq(Int) /\ Len(counts) \in 1 .. h.num /\ Len(counts) > 0
      /\ Len(counts) \in Nat /\ h.num \in Nat /\ c \in Nat
  <2>1. counts \in Seq(Int) /\ Len(counts) \in 1 .. h.num
    BY GrownOK DEF CInv
  <2>2. h.num \in Nat /\ c \in Nat
    BY HeaderAssumption DEF CInv, HTypes, Counted
  <2> QED
    BY <2>1, <2>2
<1>2. h'.num = h.num + 1 /\ h'.confirm_count = DecrementedCounts(counts, c)
  BY AddBlockFields DEF Counted
<1>3. /\ Len(h'.confirm_count) = Len(counts) - k
      /\ \A j \in 1 .. Len(counts) - k :
           /\ k + j \in 1 .. Len(counts)
           /\ h'.confirm_count[j] = IF k + j \in Confirmed(counts, c)
                                    THEN counts[k + j] - 1 ELSE counts[k + j]
  BY <1>1, <1>2, DecrementedOK
<1>4. k \in 0 .. Len(counts)
  BY <1>1, ConfirmedOK
<1>5. ASSUME NEW i \in 1 .. Len(counts)
      PROVE  i \in Confirmed(counts, c) <=> Hits(num(i), c)
  <2>1. \A j : NumOf(h, counts, j) = num(j)
    BY DEF NumOf
  <2>2. \A j \in Confirmed(counts, c) : j \in Int
    BY <1>1, ConfirmedOK
  <2>3. \A j \in Int : num(j) = num(i) => j = i
    BY <1>1
  <2> HIDE DEF num
  <2> QED
    BY <2>1, <2>2, <2>3 DEF Hits
<1>6. \A m \in 1 .. MaxBlock :
         /\ Cardinality(confirmers[m]) \in Nat
         /\ Cardinality(confirmers'[m]) = IF Hits(m, c) THEN Cardinality(confirmers[m]) + 1
                                          ELSE Cardinality(confirmers[m])
  BY NewConfirmations
<1>7. \A i \in 1 .. Len(counts) :
         num(i) \in 1 .. MaxBlock /\ counts[i] + Cardinality(confirmers[num(i)]) >= required'[num(i)]
  BY GrownBalanced
<1>8. required' \in [1 .. MaxBlock -> Int]
  BY AddBlockHistory DEF History
<1> HIDE DEF counts, k
<1>9. ASSUME NEW j \in 1 .. Len(h'.confirm_count)
      PROVE  h'.confirm_count[j] + Cardinality(confirmers'[BlockOf(j)']) >= required'[BlockOf(j)']
  <2> DEFINE i == k + j
  <2>1. /\ i \in 1 .. Len(counts)
        /\ h'.confirm_count[j] = IF i \in Confirmed(counts, c) THEN counts[i] - 1 ELSE counts[i]
    BY <1>3
  <2>2. BlockOf(j)' = num(i)
    <3>2. PICK L \in Nat : L = Len(counts)
      BY <1>1
    <3>3. k \in Int /\ j \in Int
      BY <1>1, <1>3, <1>4
    <3>4. h.num + 1 - ((L - k) - j) = h.num + 1 - (L - (k + j))
      BY <1>1, <3>3
    <3>5. Len(h'.confirm_count) = L - k /\ num(i) = h.num + 1 - (L - (k + j))
      BY <1>3, <3>2
    <3>6. BlockOf(j)' = h.num + 1 - ((L - k) - j)
      <4>1. PICK N \in Int : N = h.num + 1
        BY <1>1
      <4>0. L - k \in Int
        BY <3>3
      <4>2. PICK C \in Int : C = L - k
        BY <4>0, Zenon
      <4>3. h'.num = N /\ Len(h'.confirm_count) = C
        BY <1>2, <3>5, <4>1, <4>2
      <4>4. h'.num - (Len(h'.confirm_count) - j) = N - (C - j)
        BY <4>3, Zenon
      <4>5. N - (C - j) = h.num + 1 - ((L - k) - j)
        <5>1. C - j = (L - k) - j
          BY <4>2, Zenon
        <5>2. N - (C - j) = N - ((L - k) - j)
          BY <5>1, Zenon
        <5> QED
          BY <1>1, <3>3, <4>1, <5>2
      <4>6. BlockOf(j)' = h'.num - (Len(h'.confirm_count) - j)
        BY DEF BlockOf
      <4> QED
        BY <4>4, <4>5, <4>6, Zenon
    <3> HIDE DEF num, i
    <3> QED
      BY <3>4, <3>5, <3>6
  <2> HIDE DEF i
  <2>3. num(i) \in 1 .. MaxBlock /\ counts[i] + Cardinality(confirmers[num(i)]) >= required'[num(i)]
    BY <1>7, <2>1
  <2>4. counts[i] \in Int
    BY <1>1, <2>1
  <2>5. i \in Confirmed(counts, c) <=> Hits(num(i), c)
    BY <1>5, <2>1
  <2> HIDE DEF num
  <2>6. /\ Cardinality(confirmers[num(i)]) \in Nat /\ required'[num(i)] \in Int
        /\ Cardinality(confirmers'[num(i)]) =
             IF Hits(num(i), c) THEN Cardinality(confirmers[num(i)]) + 1
             ELSE Cardinality(confirmers[num(i)])
    BY <1>6, <1>8, <2>3
  <2>7. CASE i \in Confirmed(counts, c)
    BY <2>1, <2>2, <2>3, <2>4, <2>5, <2>6, <2>7
  <2>8. CASE i \notin Confirmed(counts, c)
    BY <2>1, <2>2, <2>3, <2>4, <2>5, <2>6, <2>8
  <2> QED
    BY <2>7, <2>8
<1> QED
  BY <1>9 DEF Balanced

(* The block that the header proposes as irreversible has its confirmers.  *)
LEMMA AddBlockDistinct ==
  ASSUME CInv, NEW t, NEW c, NEW sch, Counted(t, c, sch)
  PROVE  DistinctConfirmers'
<1> DEFINE counts == Grown(h)
           num(i) == h.num + 1 - (Len(counts) - i)
<1>1. /\ counts \in Seq(Int) /\ Len(counts) \in 1 .. h.num /\ Len(counts) > 0
      /\ Len(counts) \in Nat /\ h.num \in Nat /\ h.num \in 1 .. MaxBlock /\ c \in Nat
      /\ MaxBlock \in Nat
  <2>1. counts \in Seq(Int) /\ Len(counts) \in 1 .. h.num
    BY GrownOK DEF CInv
  <2>2. h.num \in Nat /\ h.num \in 1 .. MaxBlock /\ c \in Nat /\ MaxBlock \in Nat
    BY HeaderAssumption DEF CInv, HTypes, Counted
  <2> QED
    BY <2>1, <2>2
<1>2. h'.proposed = (IF Complete(counts, c) = {} THEN h.proposed
                     ELSE NumOf(h, counts, Hit(counts, c)))
  BY AddBlockFields DEF Counted
<1>3. \A m \in 1 .. MaxBlock :
         /\ Cardinality(confirmers[m]) \in Nat
         /\ Cardinality(confirmers'[m]) = IF Hits(m, c) THEN Cardinality(confirmers[m]) + 1
                                          ELSE Cardinality(confirmers[m])
  BY NewConfirmations
<1>4. /\ required' = [required EXCEPT ![h.num + 1] = RequiredConfs(h)]
      /\ required \in [1 .. MaxBlock -> Int] /\ required' \in [1 .. MaxBlock -> Int]
  <2>1. required' = [required EXCEPT ![h.num + 1] = RequiredConfs(h)]
    BY NewConfirmations
  <2>2. required' \in [1 .. MaxBlock -> Int]
    BY AddBlockHistory DEF History
  <2> QED
    BY <2>1, <2>2 DEF CInv, History
<1>5. CASE Complete(counts, c) = {}
  <2> DEFINE m == h.proposed
  <2> SUFFICES ASSUME m > 0 PROVE Cardinality(confirmers'[m]) >= required'[m]
    BY <1>2, <1>5 DEF DistinctConfirmers
  <2>1. m \in 1 .. MaxBlock /\ m <= h.num
    BY <1>1 DEF CInv, HTypes
  <2>2. required'[m] = required[m]
    BY <1>1, <1>4, <2>1
  <2>3. Cardinality(confirmers[m]) >= required[m]
    BY DEF CInv, DistinctConfirmers
  <2>4. required[m] \in Int
    BY <1>4, <2>1
  <2> HIDE DEF m
  <2> QED
    BY <1>3, <2>1, <2>2, <2>3, <2>4
<1>6. CASE Complete(counts, c) # {}
  <2> DEFINE i == Hit(counts, c)
             m == num(i)
  <2>1. i \in 1 .. Len(counts) /\ i \in Confirmed(counts, c)
    BY <1>1, <1>6, ConfirmedOK DEF Kept
  <2>2. counts[i] = 1
    BY <1>1, <1>6, HitOK
  <2>3. h'.proposed = m /\ NumOf(h, counts, i) = m
    BY <1>2, <1>6 DEF NumOf
  <2>4. Hits(m, c)
    BY <2>1, <2>3 DEF Hits
  <2>5. m \in 1 .. MaxBlock /\ counts[i] + Cardinality(confirmers[m]) >= required'[m]
    BY <2>1, GrownBalanced
  <2>6. required'[m] \in Int
    BY <1>4, <2>5
  <2> HIDE DEF m, i
  <2>7. Cardinality(confirmers'[m]) >= required'[m]
    BY <1>3, <2>2, <2>4, <2>5, <2>6
  <2> QED
    BY <2>3, <2>7 DEF DistinctConfirmers
<1> QED
  BY <1>5, <1>6

(* Nobody is forgotten who could confirm a block again.                    *)
LEMMA AddBlockRemembered ==
  ASSUME CInv, NEW t, NEW c, NEW sch, Counted(t, c, sch)
  PROVE  Remembered'
<1> DEFINE p == get_scheduled_producer(h, t)
           lib == calc_dpos_last_irreversible(h, p)
           f == IF Promoted(h, p) THEN Carried(h, h.produced, lib) ELSE h.produced
<1>1. h'.num = h.num + 1 /\ h'.produced = With(f, p, h.num + 1)
  BY AddBlockFields DEF Counted
<1>2. h'.pending.producers # <<>> =>
        h'.pending.block = h.num + 1 \/ (h'.pending = h.pending /\ ~Promoted(h, p))
  BY AddBlockPending DEF Counted, CInv
<1>3. /\ confirmers' = [k \in 1 .. MaxBlock |->
                          IF Hits(k, c) THEN confirmers[k] \cup {p} ELSE confirmers[k]]
  BY NewConfirmations
<1>4. \A k \in 1 .. MaxBlock : k > h'.num => confirmers'[k] = {}
  BY AddBlockHistory DEF History
<1>5. h.num \in Nat /\ MaxBlock \in Nat /\ lib \in Int
  <2>1. lib \in 0 .. h.num
    BY LibOK DEF CInv
  <2> QED
    BY <2>1, HeaderAssumption DEF CInv, HTypes
<1>6. h.pending.block \in Int
  BY DEF CInv, HInv, Schedule
<1>7. \A k \in 1 .. MaxBlock : \A q \in confirmers[k] :
        IF q \in DOMAIN h.produced THEN k <= h.produced[q]
        ELSE h.pending.producers # <<>> => k <= h.pending.block
  BY DEF CInv, Remembered
<1>8. Promoted(h, p) => h.pending.producers # <<>> /\ lib >= h.pending.block
  BY DEF Promoted
<1>9. DOMAIN h'.produced = DOMAIN f \cup {p} /\ h'.produced[p] = h.num + 1
      /\ \A q \in DOMAIN f : h'.produced[q] = IF q = p THEN h.num + 1 ELSE f[q]
  <2> HIDE DEF f, p
  <2>1. h'.produced = [q \in DOMAIN f \cup {p} |-> IF q = p THEN h.num + 1 ELSE f[q]]
    BY <1>1 DEF With
  <2> QED
    BY <2>1
<1>10. Promoted(h, p) =>
         /\ DOMAIN f = Members(h.pending.producers)
         /\ \A q \in DOMAIN f : f[q] = IF q \in DOMAIN h.produced THEN h.produced[q] ELSE lib
  BY CarriedOK
<1>11. ~Promoted(h, p) => f = h.produced
  OBVIOUS
<1> HIDE DEF p, lib, f
<1>12. ASSUME NEW k \in 1 .. MaxBlock, NEW q \in confirmers'[k]
       PROVE  IF q \in DOMAIN h'.produced THEN k <= h'.produced[q]
              ELSE h'.pending.producers # <<>> => k <= h'.pending.block
  <2>1. k <= h.num + 1 /\ k \in Int
    BY <1>1, <1>4, <1>5, <1>12
  <2>2. CASE q = p
    BY <1>9, <2>1, <2>2
  <2>3. CASE q # p
    <3>1. q \in confirmers[k]
      BY <1>3, <2>3
    <3>2. IF q \in DOMAIN h.produced THEN k <= h.produced[q]
          ELSE h.pending.producers # <<>> => k <= h.pending.block
      BY <1>7, <3>1
    <3>3. CASE q \in DOMAIN f
      <4>1. q \in DOMAIN h'.produced /\ h'.produced[q] = f[q]
        BY <1>9, <2>3, <3>3
      <4>2. k <= f[q]
        <5>1. CASE ~Promoted(h, p)
          BY <1>11, <3>2, <3>3, <5>1
        <5>2. CASE Promoted(h, p)
          <6>1. f[q] = IF q \in DOMAIN h.produced THEN h.produced[q] ELSE lib
            BY <1>10, <3>3, <5>2
          <6>2. h.pending.producers # <<>> /\ lib >= h.pending.block
            BY <1>8, <5>2
          <6> QED
            BY <1>5, <1>6, <2>1, <3>2, <6>1, <6>2
        <5> QED
          BY <5>1, <5>2
      <4> QED
        BY <4>1, <4>2
    <3>4. CASE q \notin DOMAIN f
      <4>1. q \notin DOMAIN h'.produced
        BY <1>9, <2>3, <3>4
      <4>2. ASSUME h'.pending.producers # <<>> PROVE k <= h'.pending.block
        <5>1. CASE h'.pending.block = h.num + 1
          BY <2>1, <5>1
        <5>2. CASE h'.pending = h.pending /\ ~Promoted(h, p)
          BY <1>11, <3>2, <3>4, <4>2, <5>2
        <5> QED
          BY <1>2, <4>2, <5>1, <5>2
      <4> QED
        BY <4>1, <4>2
    <3> QED
      BY <3>3, <3>4
  <2> QED
    BY <2>2, <2>3
<1> QED
  BY <1>12 DEF Remembered

(* A producer that becomes active has a record.                            *)
LEMMA AddBlockKnown ==
  ASSUME CInv, NEW t, NEW c, NEW sch, Counted(t, c, sch)
  PROVE  ActiveKnown'
<1> DEFINE p == get_scheduled_producer(h, t)
           lib == calc_dpos_last_irreversible(h, p)
           f == IF Promoted(h, p) THEN Carried(h, h.produced, lib) ELSE h.produced
<1>1. /\ h'.num = h.num + 1 /\ h'.produced = With(f, p, h.num + 1)
      /\ h'.active = IF Promoted(h, p) THEN h.pending.producers ELSE h.active
  BY AddBlockFields DEF Counted
<1>2. DOMAIN h'.produced = DOMAIN f \cup {p}
  <2> HIDE DEF f, p
  <2>1. h'.produced = [q \in DOMAIN f \cup {p} |-> IF q = p THEN h.num + 1 ELSE f[q]]
    BY <1>1 DEF With
  <2> QED
    BY <2>1
<1>3. h.num \in Nat /\ h.num > 0 /\ p \in Members(h.active)
  <2>1. h.num \in Nat /\ h.num > 0
    BY HeaderAssumption DEF CInv, HTypes
  <2>2. p \in Members(h.active)
    BY Scheduled DEF CInv, Counted
  <2> QED
    BY <2>1, <2>2
<1>4. h'.num # 1
  BY <1>1, <1>3
<1>5. Members(h'.active) \subseteq DOMAIN h'.produced
  <2>1. CASE Promoted(h, p)
    <3>1. DOMAIN f = Members(h.pending.producers)
      BY <2>1, CarriedOK
    <3> HIDE DEF f, p
    <3> QED
      BY <1>1, <1>2, <2>1, <3>1
  <2>2. CASE ~Promoted(h, p) /\ h.num # 1
    <3>1. Members(h.active) \subseteq DOMAIN h.produced
      BY <2>2 DEF CInv, ActiveKnown
    <3> QED
      BY <1>1, <1>2, <2>2, <3>1
  <2>3. CASE ~Promoted(h, p) /\ h.num = 1
    <3>1. h.active = <<Initial>>
      BY <2>3 DEF CInv, ActiveKnown
    <3>2. Members(h.active) = {Initial}
      BY <3>1 DEF Members
    <3> HIDE DEF f, p
    <3> QED
      BY <1>1, <1>2, <1>3, <2>3, <3>2
  <2> QED
    BY <2>1, <2>2, <2>3
<1> QED
  BY <1>4, <1>5 DEF ActiveKnown

(* The genesis state and the steps that add no block.                      *)
LEMMA InitTypes == Init => HTypes
<1> SUFFICES ASSUME Init PROVE HTypes
  OBVIOUS
<1>1. /\ h.num = 1 /\ h.confirm_count = <<>> /\ h.proposed = 0 /\ h.lib = 0
      /\ h.active = <<Initial>> /\ h.produced = <<>> /\ h.implied = <<>>
      /\ slot = 0 /\ watermark = [p \in Producer |-> 0]
  BY DEF Init
<1>2. DOMAIN h.produced = {} /\ DOMAIN h.implied = {}
  BY <1>1
<1>3. Initial \in Producer /\ MaxBlock \in Nat \ {0}
  BY HeaderAssumption
<1>4. h.active \in Seq(Producer) /\ h.active # <<>>
  BY <1>1, <1>3
<1>5. h.confirm_count \in Seq(Int) /\ Len(h.confirm_count) < h.num
  BY <1>1
<1>6. IsFiniteSet(DOMAIN h.implied)
  BY <1>2, FS_EmptySet
<1>7. /\ h.implied \in [DOMAIN h.implied -> 0 .. h.num]
      /\ h.produced \in [DOMAIN h.produced -> 0 .. h.num]
  BY <1>1, <1>2
<1>8. /\ h.num \in 1 .. MaxBlock /\ h.proposed \in 0 .. h.num /\ h.lib \in 0 .. h.num
      /\ slot \in Nat /\ watermark \in [Producer -> Nat]
  BY <1>1, <1>3
<1> QED
  BY <1>2, <1>4, <1>5, <1>6, <1>7, <1>8 DEF HTypes

LEMMA InitCInv == Init => CInv
<1> SUFFICES ASSUME Init PROVE CInv
  OBVIOUS
<1>1. HInv /\ HTypes
  BY InitHInv, InitTypes
<1>2. /\ h.num = 1 /\ h.confirm_count = <<>> /\ h.proposed = 0 /\ h.active = <<Initial>>
      /\ confirmers = [k \in 1 .. MaxBlock |-> {}]
      /\ required = [k \in 1 .. MaxBlock |-> 0]
  BY DEF Init
<1>3. History
  BY <1>2, FS_EmptySet DEF History
<1>4. Balanced
  BY <1>2 DEF Balanced
<1>5. Remembered
  BY <1>2 DEF Remembered
<1>6. ActiveKnown /\ DistinctConfirmers
  BY <1>2 DEF ActiveKnown, DistinctConfirmers
<1> QED
  BY <1>1, <1>3, <1>4, <1>5, <1>6 DEF CInv

LEMMA RestartTypes ==
  ASSUME HTypes, NEW p \in Restarting, Restart(p)
  PROVE  HTypes'
<1>1. h' = h /\ slot' = slot /\ watermark' = [watermark EXCEPT ![p] = 0]
  BY DEF Restart
<1>2. watermark' \in [Producer -> Nat]
  BY <1>1 DEF HTypes
<1> QED
  BY <1>1, <1>2 DEF HTypes

LEMMA RestartCInv ==
  ASSUME CInv, NEW p \in Restarting, Restart(p)
  PROVE  CInv'
<1>1. h' = h /\ proposed' = proposed /\ confirmers' = confirmers /\ required' = required
  BY DEF Restart
<1>2. HTypes'
  BY RestartTypes DEF CInv
<1>3. HInv' /\ History' /\ Balanced' /\ Remembered' /\ ActiveKnown' /\ DistinctConfirmers'
  BY <1>1 DEF CInv, HInv, Latest, History, Balanced, BlockOf, Remembered, ActiveKnown,
              DistinctConfirmers
<1> QED
  BY <1>2, <1>3 DEF CInv

LEMMA StutterCInv ==
  ASSUME CInv, UNCHANGED vars
  PROVE  CInv'
BY DEF vars, CInv, HInv, HTypes, Latest, History, Balanced, BlockOf, Remembered, ActiveKnown,
       DistinctConfirmers

(* A block keeps the invariant.                                            *)
LEMMA CountedCInv ==
  ASSUME CInv, NEW t, NEW c, NEW sch \in Seq(Producer), Counted(t, c, sch)
  PROVE  CInv'
<1>1. HInv /\ HTypes /\ t \in Nat /\ c \in Nat /\ AddBlock(t, c, sch)
  <2>1. h.num \in Nat
    BY DEF CInv, HInv
  <2> QED
    BY <2>1 DEF CInv, Counted
<1>2. HInv'
  BY <1>1, AddBlockHInv
<1>3. HTypes'
  BY <1>1, AddBlockTypes
<1>4. History' /\ Balanced' /\ Remembered' /\ ActiveKnown' /\ DistinctConfirmers'
  BY AddBlockHistory, AddBlockBalanced, AddBlockRemembered, AddBlockKnown, AddBlockDistinct
<1> QED
  BY <1>2, <1>3, <1>4 DEF CInv

(* producer_plugin never counts further back than the last irreversible    *)
(* block.                                                                  *)
LEMMA OwnCount ==
  ASSUME HTypes, NEW p \in Producer
  PROVE  /\ blocks_to_confirm(p) \in 0 .. h.num
         /\ blocks_to_confirm(p) <= h.num - h.lib
         /\ watermark[p] # 0 /\ watermark[p] < h.num => blocks_to_confirm(p) <= h.num - watermark[p]
         /\ watermark[p] = 0 \/ watermark[p] >= h.num => blocks_to_confirm(p) = 0
<1>1. h.num \in Nat /\ h.lib \in 0 .. h.num /\ watermark[p] \in Nat
  BY HeaderAssumption DEF HTypes
<1> QED
  BY <1>1 DEF blocks_to_confirm

(* The behaviours of the chain in which no header counts further back than *)
(* the first block: what producer_plugin confirms never does, and a count  *)
(* is a uint16_t, so past block 65535 none can.                            *)
CountedNext ==
  \/ \E t \in slot + 1 .. slot + MaxGap, c \in Confirms, sch \in Schedules \cup {<<>>} :
        /\ c <= h.num + 1
        /\ get_scheduled_producer(h, t) \in Free /\ AddBlock(t, c, sch)
  \/ OwnBlock
  \/ \E p \in Restarting : Restart(p)

CountedSpec == Init /\ [][CountedNext]_vars

LEMMA OwnBlockCounted ==
  ASSUME HTypes, OwnBlock
  PROVE  \E t, c : \E sch \in Seq(Producer) : Counted(t, c, sch)
<1>1. PICK t \in slot + 1 .. slot + MaxGap, sch \in Schedules \cup {<<>>} :
        AddBlock(t, blocks_to_confirm(get_scheduled_producer(h, t)), sch)
  BY DEF OwnBlock
<1>2. t \in Nat /\ h.num \in Nat
  BY <1>1, HeaderAssumption DEF HTypes
<1>3. blocks_to_confirm(get_scheduled_producer(h, t)) \in 0 .. h.num + 1
  <2>1. get_scheduled_producer(h, t) \in Producer
    BY <1>2, Scheduled
  <2>2. blocks_to_confirm(get_scheduled_producer(h, t)) \in 0 .. h.num
    BY <2>1, OwnCount
  <2> QED
    BY <1>2, <2>2
<1>4. sch \in Seq(Producer)
  BY ScheduleTypes
<1> QED
  BY <1>1, <1>2, <1>3, <1>4 DEF Counted

LEMMA NextCInv == CInv /\ [CountedNext]_vars => CInv'
<1> SUFFICES ASSUME CInv, [CountedNext]_vars PROVE CInv'
  OBVIOUS
<1>0. HTypes /\ h.num \in Nat /\ slot \in Nat
  BY HeaderAssumption DEF CInv, HInv, HTypes
<1>1. ASSUME NEW t \in slot + 1 .. slot + MaxGap, NEW c \in Confirms,
             NEW sch \in Schedules \cup {<<>>}, c <= h.num + 1, AddBlock(t, c, sch)
      PROVE  CInv'
  <2>1. Counted(t, c, sch)
    BY <1>0, <1>1, HeaderAssumption DEF Counted
  <2>2. sch \in Seq(Producer)
    BY ScheduleTypes
  <2> QED
    BY <2>1, <2>2, CountedCInv
<1>2. CASE OwnBlock
  BY <1>0, <1>2, OwnBlockCounted, CountedCInv
<1>3. ASSUME NEW p \in Restarting, Restart(p) PROVE CInv'
  BY <1>3, RestartCInv
<1>4. CASE UNCHANGED vars
  BY <1>4, StutterCInv
<1> QED
  BY <1>1, <1>2, <1>3, <1>4 DEF CountedNext

(* confirm_count counts nobody twice: whatever valid headers the producers *)
(* in Free sign, whatever schedules are proposed and promoted and whoever  *)
(* restarts, a block becomes proposed as irreversible only after as many   *)
(* different producers confirmed it as its schedule required.  The counts  *)
(* must not reach below the first block: ConfirmAllowed subtracts them on  *)
(* uint32_t and lets through one that wraps.                               *)
THEOREM ConfirmersDistinct == CountedSpec => []DistinctConfirmers
<1>1. CInv => DistinctConfirmers
  BY DEF CInv
<1> QED
  BY <1>1, InitCInv, NextCInv, PTL DEF CountedSpec
-----------------------------------------------------------------------------
(* No producer implies more than is proposed, what is proposed is no       *)
(* longer counted, and after genesis exactly the active producers imply    *)
(* something.                                                              *)
Ordered ==
  /\ \A q \in DOMAIN h.implied : h.implied[q] <= h.proposed
  /\ h.proposed + Len(h.confirm_count) <= h.num
  /\ IF h.num = 1
     THEN DOMAIN h.implied = {} /\ h.pending.producers # <<>> /\ h.pending.block = 0
     ELSE DOMAIN h.implied = Members(h.active)

(* The inductive invariant behind ChildPreferred.                          *)
PInv == HInv /\ HTypes /\ Ordered

(* No block after the first is irreversible before it is proposed.         *)
LEMMA LibProposed ==
  ASSUME PInv, NEW p
  PROVE  calc_dpos_last_irreversible(h, p) <= h.proposed
<1>1. /\ h.num \in Nat /\ h.proposed \in 0 .. h.num /\ IsFiniteSet(DOMAIN h.implied)
      /\ h.implied \in [DOMAIN h.implied -> 0 .. h.num]
      /\ \A q \in DOMAIN h.implied : h.implied[q] <= h.proposed
  BY HeaderAssumption DEF PInv, HTypes, Ordered
<1>2. CASE DOMAIN h.implied = {}
  <2>1. calc_dpos_last_irreversible(h, p) = 0
    BY <1>2 DEF calc_dpos_last_irreversible
  <2> QED
    BY <1>1, <2>1
<1>3. CASE DOMAIN h.implied # {}
  <2>1. PICK q \in DOMAIN h.implied : calc_dpos_last_irreversible(h, p) = ImpliedBy(h, p, q)
    BY <1>1, <1>3, CalcRanked DEF Implying
  <2> QED
    BY <1>1, <2>1 DEF ImpliedBy
<1> QED
  BY <1>2, <1>3

(* A block keeps the invariant and proposes no lower block.                *)
LEMMA AddBlockOrdered ==
  ASSUME PInv, NEW t \in Nat, NEW c \in Nat, NEW sch, AddBlock(t, c, sch)
  PROVE  Ordered' /\ h'.proposed >= h.proposed
<1> DEFINE p == get_scheduled_producer(h, t)
           lib == calc_dpos_last_irreversible(h, p)
           counts == Grown(h)
<1>1. /\ h'.num = h.num + 1
      /\ h'.confirm_count = DecrementedCounts(counts, c)
      /\ h'.proposed = (IF Complete(counts, c) = {} THEN h.proposed
                        ELSE NumOf(h, counts, Hit(counts, c)))
      /\ h'.active = (IF Promoted(h, p) THEN h.pending.producers ELSE h.active)
      /\ h'.implied = (IF Promoted(h, p)
                       THEN [q \in DOMAIN Carried(h, h.implied, lib) |->
                               IF q = p THEN h.proposed ELSE Carried(h, h.implied, lib)[q]]
                       ELSE With(h.implied, p, h.proposed))
  BY AddBlockFields
<1>2. /\ HInv /\ HTypes /\ Ordered /\ h.num \in Nat \ {0} /\ h.proposed \in Nat
      /\ h.implied \in [DOMAIN h.implied -> Nat]
  BY HeaderAssumption DEF PInv, HTypes
<1>3. lib <= h.proposed /\ lib \in Nat
  BY <1>2, LibOK, LibProposed
<1>4. p \in Members(h.active)
  BY <1>2, Scheduled
<1>5. /\ counts \in Seq(Int) /\ Len(counts) \in 1 .. h.num /\ Len(counts) > 0
      /\ Len(counts) <= Len(h.confirm_count) + 1
  BY <1>2, GrownOK DEF HTypes
<1>6. /\ Len(DecrementedCounts(counts, c)) = Len(counts) - Kept(counts, c)
      /\ Kept(counts, c) \in 0 .. Len(counts)
  BY <1>5, DecrementedOK, ConfirmedOK
<1>7. h.proposed + Len(h.confirm_count) <= h.num /\ Len(h.confirm_count) \in Nat
  BY <1>2 DEF Ordered, HTypes
<1> HIDE DEF p, lib, counts
<1>8. h'.proposed >= h.proposed /\ h'.proposed + Len(h'.confirm_count) <= h'.num
  <2>1. CASE Complete(counts, c) = {}
    <3>1. Kept(counts, c) = 0
      BY <2>1 DEF Kept
    <3> QED
      BY <1>1, <1>2, <1>5, <1>6, <1>7, <2>1, <3>1
  <2>2. CASE Complete(counts, c) # {}
    <3>1. Kept(counts, c) = Hit(counts, c) /\ Hit(counts, c) \in 1 .. Len(counts)
      BY <1>5, <2>2, ConfirmedOK DEF Kept
    <3>2. h'.proposed = h.num + 1 - (Len(counts) - Hit(counts, c))
      BY <1>1, <2>2 DEF NumOf
    <3>3. Len(h'.confirm_count) = Len(counts) - Hit(counts, c)
      BY <1>1, <1>6, <3>1
    <3>4. \A n, m, k, L \in Nat : \A i \in 1 .. L :
            /\ m + k <= n /\ L <= k + 1
            => /\ n + 1 - (L - i) >= m
               /\ n + 1 - (L - i) + (L - i) <= n + 1
      OBVIOUS
    <3>5. /\ h.num + 1 - (Len(counts) - Hit(counts, c)) >= h.proposed
          /\ h.num + 1 - (Len(counts) - Hit(counts, c)) + (Len(counts) - Hit(counts, c)) <= h.num + 1
      <4>1. /\ h.num \in Nat /\ h.proposed \in Nat /\ Len(h.confirm_count) \in Nat
            /\ Len(counts) \in Nat /\ Hit(counts, c) \in 1 .. Len(counts)
            /\ h.proposed + Len(h.confirm_count) <= h.num
            /\ Len(counts) <= Len(h.confirm_count) + 1
        BY <1>2, <1>5, <1>7, <3>1
      <4> QED
        BY <3>4, <4>1
    <3> QED
      BY <1>1, <3>2, <3>3, <3>5
  <2> QED
    BY <2>1, <2>2
<1>9. h'.proposed \in Int
  BY <1>1, <1>2, <1>5, ConfirmedOK DEF NumOf, Kept
<1>10. DOMAIN h'.implied = Members(h'.active) /\ \A q \in DOMAIN h'.implied : h'.implied[q] <= h.proposed
  <2>1. CASE Promoted(h, p)
    <3>1. /\ DOMAIN Carried(h, h.implied, lib) = Members(h.pending.producers)
          /\ \A q \in Members(h.pending.producers) :
               Carried(h, h.implied, lib)[q] = IF q \in DOMAIN h.implied THEN h.implied[q] ELSE lib
      BY CarriedOK
    <3>2. /\ h'.active = h.pending.producers
          /\ h'.implied = [q \in Members(h.pending.producers) |->
                             IF q = p THEN h.proposed ELSE Carried(h, h.implied, lib)[q]]
      BY <1>1, <2>1, <3>1
    <3>3. \A q \in DOMAIN h.implied : h.implied[q] <= h.proposed
      BY <1>2 DEF Ordered
    <3> QED
      BY <1>2, <1>3, <3>1, <3>2, <3>3
  <2>2. CASE ~Promoted(h, p)
    <3>1. h.num # 1
      BY <1>2, <1>3, <2>2 DEF Promoted, Ordered, lib
    <3>2. DOMAIN h.implied = Members(h.active) /\ \A q \in DOMAIN h.implied : h.implied[q] <= h.proposed
      BY <1>2, <3>1 DEF Ordered
    <3>3. h'.active = h.active
          /\ h'.implied = [q \in DOMAIN h.implied \cup {p} |->
                             IF q = p THEN h.proposed ELSE h.implied[q]]
      BY <1>1, <2>2 DEF With
    <3> QED
      BY <1>2, <1>4, <3>2, <3>3
  <2> QED
    BY <2>1, <2>2
<1>11. ASSUME NEW q \in DOMAIN h'.implied PROVE h'.implied[q] <= h'.proposed
  <2>1. h'.implied[q] \in Int
    BY AddBlockTypes, <1>2, HeaderAssumption DEF HTypes
  <2> QED
    BY <1>2, <1>8, <1>9, <1>10, <2>1
<1>12. h'.num # 1
  BY <1>1, <1>2
<1> QED
  BY <1>8, <1>10, <1>11, <1>12 DEF Ordered

(* The numbers that are implied after a block are not below those before,  *)
(* and a producer new to the schedule starts at the last irreversible one. *)
LEMMA BlockPreferred ==
  ASSUME PInv, HTypes', Ordered', NEW t \in Nat, NEW c \in Nat, NEW sch, AddBlock(t, c, sch),
         Slack(h.active) <= Slack(h'.active), NEW b \in Members(h'.active)
  PROVE  calc_dpos_last_irreversible(h', b) >= h'.lib
<1> DEFINE p == get_scheduled_producer(h, t)
           lib == calc_dpos_last_irreversible(h, p)
           x == calc_dpos_last_irreversible(h', b)
<1>1. /\ h'.num = h.num + 1 /\ h'.lib = lib
      /\ h'.implied = (IF Promoted(h, p)
                       THEN [q \in DOMAIN Carried(h, h.implied, lib) |->
                               IF q = p THEN h.proposed ELSE Carried(h, h.implied, lib)[q]]
                       ELSE With(h.implied, p, h.proposed))
  BY AddBlockFields
<1>2. /\ HInv /\ HTypes /\ Ordered /\ h.num \in Nat \ {0} /\ h'.num \in Nat
      /\ h.proposed \in 0 .. h.num /\ h'.proposed \in 0 .. h'.num
      /\ IsFiniteSet(DOMAIN h.implied) /\ h.implied \in [DOMAIN h.implied -> 0 .. h.num]
      /\ IsFiniteSet(DOMAIN h'.implied) /\ h'.implied \in [DOMAIN h'.implied -> 0 .. h'.num]
  <2>1. HInv /\ HTypes /\ Ordered
    BY DEF PInv
  <2>2. /\ h.num \in Nat \ {0} /\ h.proposed \in 0 .. h.num
        /\ IsFiniteSet(DOMAIN h.implied) /\ h.implied \in [DOMAIN h.implied -> 0 .. h.num]
    <3>1. /\ h.num \in 1 .. MaxBlock /\ h.proposed \in 0 .. h.num
          /\ IsFiniteSet(DOMAIN h.implied) /\ h.implied \in [DOMAIN h.implied -> 0 .. h.num]
      BY <2>1, Zenon DEF HTypes
    <3> QED
      BY <3>1, HeaderAssumption
  <2>3. /\ h'.num \in Nat /\ h'.proposed \in 0 .. h'.num
        /\ IsFiniteSet(DOMAIN h'.implied) /\ h'.implied \in [DOMAIN h'.implied -> 0 .. h'.num]
    BY HeaderAssumption DEF HTypes
  <2> QED
    BY <2>1, <2>2, <2>3
<1>3. lib <= h.proposed /\ lib \in Nat /\ h'.proposed >= h.proposed
  BY <1>2, LibOK, LibProposed, AddBlockOrdered
<1>4. DOMAIN h'.implied = Members(h'.active) /\ DOMAIN h'.implied # {}
  BY <1>1, <1>2 DEF Ordered
<1> HIDE DEF p, lib
<1>5. /\ x \in Nat /\ Rank(h') \in Nat /\ Rank(h') < Cardinality(UpTo(h', b, x))
  <2>1. /\ x \in {ImpliedBy(h', b, q) : q \in DOMAIN h'.implied}
        /\ Rank(h') \in Nat /\ Rank(h') < Cardinality(UpTo(h', b, x))
    BY <1>2, <1>4, CalcRanked DEF Implying
  <2> QED
    BY <1>2, <2>1 DEF ImpliedBy
<1>6. CASE h.num = 1
  <2>1. DOMAIN h.implied = {}
    BY <1>2, <1>6 DEF Ordered
  <2>2. lib = 0
    BY <2>1 DEF calc_dpos_last_irreversible, lib
  <2> QED
    BY <1>1, <1>5, <2>2
<1>7. CASE h.num # 1
  <2>1. DOMAIN h.implied = Members(h.active)
    BY <1>2, <1>7 DEF Ordered
  <2>2. p \in DOMAIN h.implied
    BY <1>2, <2>1, Scheduled DEF p
  <2>3. Cardinality(Below(h, p, lib)) <= Rank(h) /\ Rank(h) \in Nat
    <3>1. DOMAIN h.implied # {}
      BY <2>2
    <3> QED
      BY <1>2, <3>1, CalcRanked DEF lib, Implying
  <2>4. ASSUME NEW q \in DOMAIN h'.implied, ImpliedBy(h', b, q) < lib
        PROVE  q \in DOMAIN h.implied /\ ImpliedBy(h, p, q) < lib
    <3>1. q # b
      BY <1>2, <1>3, <2>4 DEF ImpliedBy
    <3>2. h'.implied[q] < lib
      BY <2>4, <3>1 DEF ImpliedBy
    <3>3. CASE Promoted(h, p)
      <4>1. h'.implied[q] = IF q = p THEN h.proposed
                            ELSE IF q \in DOMAIN h.implied THEN h.implied[q] ELSE lib
        BY <1>1, <3>3, CarriedOK
      <4> QED
        BY <1>2, <1>3, <2>2, <3>2, <4>1 DEF ImpliedBy
    <3>4. CASE ~Promoted(h, p)
      <4>1. h'.implied = [k \in DOMAIN h.implied \cup {p} |->
                            IF k = p THEN h.proposed ELSE h.implied[k]]
        BY <1>1, <3>4 DEF With
      <4> QED
        BY <1>2, <1>3, <2>2, <3>2, <4>1 DEF ImpliedBy
    <3> QED
      BY <3>3, <3>4
  <2>5. ASSUME x < lib PROVE FALSE
    <3>1. UpTo(h', b, x) \subseteq Below(h, p, lib)
      <4> SUFFICES ASSUME NEW q \in DOMAIN h'.implied, ImpliedBy(h', b, q) <= x
                   PROVE  q \in Below(h, p, lib)
        BY DEF UpTo
      <4>1. ImpliedBy(h', b, q) \in Nat
        BY <1>2 DEF ImpliedBy
      <4>2. ImpliedBy(h', b, q) < lib
        BY <1>3, <1>5, <2>5, <4>1
      <4> QED
        BY <2>4, <4>2 DEF Below
    <3>2. IsFiniteSet(Below(h, p, lib))
      BY <1>2, FS_Subset DEF Below
    <3>3. /\ Cardinality(UpTo(h', b, x)) <= Cardinality(Below(h, p, lib))
          /\ Cardinality(UpTo(h', b, x)) \in Nat /\ Cardinality(Below(h, p, lib)) \in Nat
      BY <3>1, <3>2, FS_Subset, FS_CardinalityType
    <3>4. Rank(h) = Slack(h.active) /\ Rank(h') = Slack(h'.active)
      BY <1>4, <2>1 DEF Rank, Slack
    <3> QED
      BY <1>5, <2>3, <3>3, <3>4
  <2> QED
    BY <1>1, <1>3, <1>5, <2>5
<1> QED
  BY <1>6, <1>7

LEMMA NextPreferred ==
  ASSUME PInv, [Next]_vars
  PROVE  /\ PInv'
         /\ [Slack(h.active) <= Slack(h'.active) =>
               \A p \in Members(h'.active) : calc_dpos_last_irreversible(h', p) >= h'.lib]_h
<1>0. HInv' /\ HInv /\ HTypes /\ Ordered /\ slot \in Nat
  BY NextHInv DEF PInv, HTypes
<1>1. ASSUME NEW t \in Nat, NEW c \in Nat, NEW sch, AddBlock(t, c, sch)
      PROVE  /\ PInv'
             /\ Slack(h.active) <= Slack(h'.active) =>
                  \A p \in Members(h'.active) : calc_dpos_last_irreversible(h', p) >= h'.lib
  <2>1. HTypes' /\ Ordered'
    BY <1>0, <1>1, AddBlockTypes, AddBlockOrdered
  <2> QED
    BY <1>0, <1>1, <2>1, BlockPreferred DEF PInv
<1>2. CASE AnyBlock
  BY <1>0, <1>1, <1>2, HeaderAssumption DEF AnyBlock
<1>3. CASE OwnBlock
  <2>1. PICK t, c, sch : Counted(t, c, sch)
    BY <1>0, <1>3, OwnBlockCounted
  <2>2. t \in Nat /\ c \in Nat /\ AddBlock(t, c, sch)
    BY <1>0, <2>1 DEF Counted, HInv
  <2> QED
    BY <1>1, <2>2
<1>4. ASSUME NEW p \in Restarting, Restart(p) PROVE PInv' /\ h' = h
  <2>1. HTypes' /\ h' = h
    BY <1>0, <1>4, RestartTypes DEF Restart
  <2> QED
    BY <1>0, <2>1 DEF PInv, Ordered
<1>5. CASE UNCHANGED vars
  BY <1>0, <1>5 DEF vars, PInv, HTypes, Ordered
<1> QED
  BY <1>2, <1>3, <1>4, <1>5 DEF Next, vars

(* Whatever headers the producers sign and whatever schedules come, the    *)
(* last irreversible block of a block is at least its parent's, so that    *)
(* fork_db prefers it, unless the parent activated a schedule of a smaller *)
(* slack: calc_dpos_last_irreversible never falls for another reason.      *)
THEOREM IrreversibleKept == Spec => ChildPreferred
<1>1. Init => PInv
  <2> SUFFICES ASSUME Init PROVE PInv
    OBVIOUS
  <2>1. /\ h.num = 1 /\ h.confirm_count = <<>> /\ h.proposed = 0 /\ h.implied = <<>>
        /\ h.pending.producers = <<Initial>> /\ h.pending.block = 0
    BY DEF Init, NoSchedule
  <2>2. DOMAIN h.implied = {} /\ h.pending.producers # <<>> /\ Len(h.confirm_count) = 0
    BY <2>1
  <2> QED
    BY <2>1, <2>2, InitHInv, InitTypes DEF PInv, Ordered
<1> QED
  BY <1>1, NextPreferred, PTL DEF Spec, ChildPreferred
-----------------------------------------------------------------------------
(* The record that the header state has of a producer is not above the     *)
(* watermark of its own node, except for one that a promotion brought up   *)
(* to the last irreversible block.                                         *)
Watermarked ==
  \A q \in DOMAIN h.produced :
    watermark[q] # 0 => h.produced[q] <= watermark[q] \/ h.produced[q] <= h.lib

(* What the node then confirms begins above that record.                   *)
LEMMA WatermarkAccepted == HTypes /\ Watermarked => OwnBlockAccepted
<1> SUFFICES ASSUME HTypes, Watermarked, NEW t \in slot + 1 .. slot + MaxGap,
                    get_scheduled_producer(h, t) \in DOMAIN h.produced
             PROVE  LET p == get_scheduled_producer(h, t)
                    IN h.produced[p] < (h.num + 1 - blocks_to_confirm(p)) % Word
  BY DEF OwnBlockAccepted, ConfirmAllowed
<1> DEFINE p == get_scheduled_producer(h, t)
           c == blocks_to_confirm(p)
<1>1. t \in Nat /\ h.num \in Nat /\ h.lib \in 0 .. h.num
      /\ h.num <= MaxBlock /\ MaxBlock \in Nat /\ Word \in Nat /\ MaxBlock + 1 < Word
  BY HeaderAssumption DEF HTypes
<1>2. p \in Producer
  BY <1>1, Scheduled
<1>3. /\ c \in 0 .. h.num /\ c <= h.num - h.lib
      /\ watermark[p] # 0 /\ watermark[p] < h.num => c <= h.num - watermark[p]
      /\ watermark[p] = 0 \/ watermark[p] >= h.num => c = 0
  BY <1>2, OwnCount
<1>4. watermark[p] \in Nat /\ h.produced[p] \in 0 .. h.num
  BY <1>2 DEF HTypes
<1>5. watermark[p] # 0 => h.produced[p] <= watermark[p] \/ h.produced[p] <= h.lib
  BY DEF Watermarked
<1> HIDE DEF c, p
<1>6. PICK x \in Nat : x = h.num + 1 - c /\ x < Word
  BY <1>1, <1>3
<1>7. x % Word = x
  BY <1>1, <1>6
<1>8. h.produced[p] < x
  BY <1>1, <1>3, <1>4, <1>5, <1>6
<1>9. h.produced[p] < (h.num + 1 - c) % Word
  BY <1>6, <1>7, <1>8
<1> QED
  BY <1>9 DEF c, p

(* Adding a block that does not take back the last irreversible one.       *)
LEMMA AddBlockWatermarked ==
  ASSUME HInv, HTypes, Watermarked, NEW t \in Nat, NEW c \in Nat, NEW sch, AddBlock(t, c, sch),
         h'.lib >= h.lib
  PROVE  Watermarked'
<1> DEFINE p == get_scheduled_producer(h, t)
           lib == calc_dpos_last_irreversible(h, p)
           f == IF Promoted(h, p) THEN Carried(h, h.produced, lib) ELSE h.produced
<1>1. h'.num = h.num + 1 /\ h'.lib = lib /\ h'.produced = With(f, p, h.num + 1)
  BY AddBlockFields
<1>2. watermark' = [watermark EXCEPT ![p] = h.num + 1]
  <2>1. Next_(h, p, c).num = h.num + 1
    BY DEF Next_
  <2> QED
    BY <2>1 DEF AddBlock
<1>3. p \in Producer /\ h.num \in Nat /\ h.lib \in Int /\ lib \in Int
  <2>1. lib \in 0 .. h.num
    BY LibOK
  <2>2. p \in Producer
    BY Scheduled
  <2> QED
    BY <2>1, <2>2, HeaderAssumption DEF HTypes
<1>4. /\ watermark \in [Producer -> Nat] /\ DOMAIN h.produced \subseteq Producer
      /\ \A q \in DOMAIN h.produced : h.produced[q] \in Int
  BY HeaderAssumption DEF HTypes
<1>5. DOMAIN f \subseteq Producer
      /\ \A q \in DOMAIN f : \/ q \in DOMAIN h.produced /\ f[q] = h.produced[q]
                             \/ f[q] = lib
  <2>1. CASE Promoted(h, p)
    <3>1. /\ DOMAIN f = Members(h.pending.producers)
          /\ \A q \in DOMAIN f : f[q] = IF q \in DOMAIN h.produced THEN h.produced[q] ELSE lib
      BY <2>1, CarriedOK
    <3>2. Members(h.pending.producers) \subseteq Producer
      BY MembersFinite DEF HInv, Schedule
    <3> HIDE DEF f
    <3> QED
      BY <3>1, <3>2
  <2>2. CASE ~Promoted(h, p)
    BY <1>4, <2>2
  <2> QED
    BY <2>1, <2>2
<1>6. /\ DOMAIN h'.produced = DOMAIN f \cup {p} /\ h'.produced[p] = h.num + 1
      /\ \A q \in DOMAIN f : q # p => h'.produced[q] = f[q]
  <2> HIDE DEF f, p
  <2>1. h'.produced = [q \in DOMAIN f \cup {p} |-> IF q = p THEN h.num + 1 ELSE f[q]]
    BY <1>1 DEF With
  <2> QED
    BY <2>1
<1> HIDE DEF f, p, lib
<1>7. ASSUME NEW q \in DOMAIN h'.produced, watermark'[q] # 0
      PROVE  h'.produced[q] <= watermark'[q] \/ h'.produced[q] <= h'.lib
  <2>1. CASE q = p
    <3>1. watermark'[q] = h.num + 1 /\ h'.produced[q] = h.num + 1
      BY <1>2, <1>3, <1>4, <1>6, <2>1
    <3> QED
      BY <1>3, <3>1
  <2>2. CASE q # p
    <3>1. q \in DOMAIN f /\ h'.produced[q] = f[q] /\ q \in Producer
      BY <1>5, <1>6, <2>2
    <3>2. watermark'[q] = watermark[q] /\ watermark[q] \in Nat
      BY <1>2, <1>4, <2>2, <3>1
    <3>3. CASE f[q] = lib
      BY <1>1, <1>3, <3>1, <3>3
    <3>4. CASE q \in DOMAIN h.produced /\ f[q] = h.produced[q]
      <4>1. h.produced[q] <= watermark[q] \/ h.produced[q] <= h.lib
        BY <1>7, <3>2, <3>4 DEF Watermarked
      <4>2. h.produced[q] \in Int
        BY <1>4, <3>4
      <4> QED
        BY <1>1, <1>3, <3>1, <3>2, <3>4, <4>1, <4>2
    <3> QED
      BY <1>5, <3>1, <3>3, <3>4
  <2> QED
    BY <2>1, <2>2
<1> QED
  BY <1>7 DEF Watermarked

(* The inductive invariant behind OwnBlockAccepted.                        *)
WInv == HInv /\ HTypes /\ Watermarked

LEMMA NextWInv ==
  ASSUME WInv, [Next]_vars, [h'.lib >= h.lib]_h
  PROVE  WInv'
<1>0. HInv' /\ HInv /\ HTypes /\ Watermarked
  BY NextHInv DEF WInv
<1>1. h.lib \in Int /\ slot \in Nat
  BY <1>0, HeaderAssumption DEF HTypes
<1>2. ASSUME NEW t \in Nat, NEW c \in Nat, NEW sch, AddBlock(t, c, sch) PROVE WInv'
  <2>1. HTypes'
    BY <1>0, <1>2, AddBlockTypes
  <2>2. h'.lib >= h.lib
    <3>1. h'.num = h.num + 1 /\ h.num \in Nat
      BY <1>0, <1>2, AddBlockFields DEF HInv
    <3>2. h' # h
      BY <3>1
    <3> QED
      BY <3>2
  <2>3. Watermarked'
    BY <1>0, <1>2, <2>2, AddBlockWatermarked
  <2> QED
    BY <1>0, <2>1, <2>3 DEF WInv
<1>3. CASE AnyBlock
  BY <1>1, <1>2, <1>3, HeaderAssumption DEF AnyBlock
<1>4. CASE OwnBlock
  <2>1. PICK t, c, sch : Counted(t, c, sch)
    BY <1>0, <1>4, OwnBlockCounted
  <2>2. t \in Nat /\ c \in Nat /\ AddBlock(t, c, sch)
    BY <1>0, <2>1 DEF Counted, HInv
  <2> QED
    BY <1>2, <2>2
<1>5. ASSUME NEW p \in Restarting, Restart(p) PROVE WInv'
  <2>1. HTypes'
    BY <1>0, <1>5, RestartTypes
  <2>2. h' = h /\ watermark' = [watermark EXCEPT ![p] = 0]
    BY <1>5 DEF Restart
  <2>3. DOMAIN h.produced \subseteq Producer /\ watermark \in [Producer -> Nat]
    BY <1>0 DEF HTypes
  <2>4. Watermarked'
    BY <1>0, <2>2, <2>3 DEF Watermarked
  <2> QED
    BY <1>0, <2>1, <2>4 DEF WInv
<1>6. CASE UNCHANGED vars
  <2>1. HTypes' /\ Watermarked'
    BY <1>0, <1>6 DEF vars, HTypes, Watermarked
  <2> QED
    BY <1>0, <2>1 DEF WInv
<1> QED
  BY <1>3, <1>4, <1>5, <1>6 DEF Next

(* While no block takes back the last irreversible block of its parent,    *)
(* the controller of a producer accepts what its producer_plugin confirms: *)
(* the blocks above its watermark and the last irreversible block lie      *)
(* above the last block that the header state knows of it, whatever        *)
(* restarts and changes of schedule lie between and whatever the producers *)
(* in Free sign.  By IrreversibleKept a block can take it back only right  *)
(* after the slack of the schedule has shrunk.                             *)
THEOREM OwnBlocksAccepted == Spec /\ LibKept => []OwnBlockAccepted
<1>1. Init => WInv
  <2>1. Init => Watermarked
    <3> SUFFICES ASSUME Init PROVE Watermarked
      OBVIOUS
    <3>1. h.produced = <<>>
      BY DEF Init
    <3>2. DOMAIN h.produced = {}
      BY <3>1
    <3> QED
      BY <3>2 DEF Watermarked
  <2> QED
    BY <2>1, InitHInv, InitTypes DEF WInv
<1>2. WInv /\ [Next]_vars /\ [h'.lib >= h.lib]_h => WInv'
  BY NextWInv
<1>3. WInv => OwnBlockAccepted
  BY WatermarkAccepted DEF WInv
<1> QED
  BY <1>1, <1>2, <1>3, PTL DEF Spec, LibKept
=============================================================================
