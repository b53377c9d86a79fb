------------------------- MODULE ForkDatabase_proofs -------------------------
(***************************************************************************)
(* Proofs about ForkDatabase for every tree of blocks: the index stays a   *)
(* tree on the root, the head stays the best validated block, advancing    *)
(* the root never fails half way, and what close writes, open accepts.     *)
(***************************************************************************)
EXTENDS ForkDatabase, WellFoundedInduction, TLAPS

(* The inductive invariant.  fork_db.dat must satisfy what the database    *)
(* satisfied when it was written.                                          *)
DbOK(d) ==
  /\ d \in ForkDb
  /\ d.validated \subseteq d.index \cup {d.root}
  /\ LinkedTo(d)

FInv ==
  /\ DbOK(fdb) /\ fdb.root \in fdb.validated
  /\ status \in {"open", "closed"}
  /\ status = "open" => BestHead(fdb) /\ file = NoFile
  /\ file # NoFile => 
       /\ DbOK(file) /\ BestHead(file) /\ file.root \in file.validated
       /\ fdb.root = file.root /\ fdb.head = file.head

-----------------------------------------------------------------------------
(* The order of the index.                                                 *)

(* A nonempty set of naturals has a least element.                         *)
LEMMA LeastNat ==
  ASSUME NEW T, T \subseteq Nat, T # {}
  PROVE  \E x \in T : \A y \in T : x <= y
<1> DEFINE R == {ss \in Nat \X Nat : ss[1] < ss[2]}
<1>1. R = OpToRel(<, Nat)
  BY Zenon DEF OpToRel
<1>2. IsWellFoundedOn(R, Nat)
  BY <1>1, NatLessThanWellFounded, Zenon
<1>3. PICK x \in T : \A y \in T : ~ (<<y, x>> \in R)
  BY <1>2, WFMin, Zenon
<1>4. ASSUME NEW y \in T PROVE x <= y
  <2>1. x \in Nat /\ y \in Nat
    OBVIOUS
  <2>2. ~(y < x)
    <3> SUFFICES ASSUME y < x PROVE FALSE
      OBVIOUS
    <3>1. <<y, x>> \in Nat \X Nat /\ <<y, x>>[1] < <<y, x>>[2]
      BY <2>1
    <3>2. <<y, x>> \in R
      BY <3>1, Zenon
    <3>3. QED
      BY <1>3, <3>2, Zenon
  <2>3. QED
    BY <2>1, <2>2
<1>5. QED
  BY <1>4

(* Block numbers are bounded, so a nonempty set of blocks has a best one:  *)
(* begin() of by_lib_block_num is well defined.                            *)
LEMMA BestExists ==
  ASSUME NEW S, S \subseteq Block, S # {}
  PROVE  Best(S) \in S /\ Foremost(Best(S), S)
<1>1. PICK x \in S : \A c \in S : lib[c] <= lib[x]
  <2> DEFINE T == {MaxNum - lib[c] : c \in S}
  <2>1. T \subseteq Nat /\ T # {}
    BY NumAssumption
  <2>2. PICK t \in T : \A y \in T : t <= y
    BY <2>1, LeastNat
  <2>3. PICK e \in S : t = MaxNum - lib[e]
    BY <2>2
  <2>4. \A c \in S : MaxNum - lib[e] <= MaxNum - lib[c]
    BY <2>2, <2>3
  <2>5. QED
    BY <2>4, NumAssumption
<1> DEFINE S1 == {c \in S : lib[c] = lib[x]}
<1>2. PICK y \in S1 : \A c \in S1 : num[c] <= num[y]
  <2> DEFINE T == {MaxNum - num[c] : c \in S1}
  <2>1. T \subseteq Nat /\ T # {}
    BY NumAssumption
  <2>2. PICK t \in T : \A u \in T : t <= u
    BY <2>1, LeastNat
  <2>3. PICK e \in S1 : t = MaxNum - num[e]
    BY <2>2
  <2>4. \A c \in S1 : MaxNum - num[e] <= MaxNum - num[c]
    BY <2>2, <2>3
  <2>5. QED
    BY <2>4, NumAssumption
<1> DEFINE S2 == {c \in S1 : num[c] = num[y]}
<1>3. PICK z \in S2 : \A c \in S2 : rank[z] <= rank[c]
  <2> DEFINE T == {rank[c] : c \in S2}
  <2>1. T \subseteq Nat /\ T # {}
    BY NumAssumption
  <2>2. PICK t \in T : \A u \in T : t <= u
    BY <2>1, LeastNat
  <2>3. QED
    BY <2>2, NumAssumption
<1>4. Foremost(z, S)
  <2> SUFFICES ASSUME NEW c \in S \ {z}
               PROVE  first_preferred(z, c) \/ (~first_preferred(c, z) /\ rank[z] < rank[c])
    BY DEF Foremost
  <2>1. /\ lib[c] \in Nat /\ num[c] \in Nat /\ rank[c] \in Nat
        /\ lib[z] \in Nat /\ num[z] \in Nat /\ rank[z] \in Nat
        /\ rank[c] # rank[z]
    BY NumAssumption
  <2>2. CASE lib[c] # lib[x]
    BY <1>1, <2>1, <2>2 DEF first_preferred
  <2>3. CASE lib[c] = lib[x] /\ num[c] # num[y]
    BY <1>2, <2>1, <2>3 DEF first_preferred
  <2>4. CASE lib[c] = lib[x] /\ num[c] = num[y]
    BY <1>3, <2>1, <2>4 DEF first_preferred
  <2>5. QED
    BY <2>2, <2>3, <2>4
<1>5. QED
  BY <1>3, <1>4 DEF Best

(* Preference is a strict weak order.                                      *)
LEMMA PreferenceOrder ==
  ASSUME NEW a \in Block, NEW b \in Block, NEW c \in Block
  PROVE  /\ first_preferred(a, b) => ~first_preferred(b, a)
         /\ ~first_preferred(a, b) /\ ~first_preferred(b, c) => ~first_preferred(a, c)
BY NumAssumption DEF first_preferred

(* No block of a set is preferred to its best one.                         *)
LEMMA NoneBetter ==
  ASSUME NEW S, S \subseteq Block, S # {}, NEW b \in S
  PROVE  ~first_preferred(b, Best(S))
<1>1. Best(S) \in Block /\ Foremost(Best(S), S)
  BY BestExists
<1>2. QED
  BY <1>1, PreferenceOrder DEF Foremost

-----------------------------------------------------------------------------
(* The tree.                                                               *)

(* A block is among its ancestors, and two blocks that are ancestors of    *)
(* each other are the same.                                                *)
LEMMA TreeFacts ==
  ASSUME NEW b \in Block
  PROVE  /\ b \in anc[b] /\ anc[b] \subseteq Block
         /\ \A c \in anc[b] : b \in anc[c] => b = c
         /\ b # Genesis => prev[b] \in Block /\ b \notin anc[prev[b]]
<1>1. b \in anc[b] /\ anc[b] \subseteq Block
  BY TreeAssumption
<1>2. \A c \in anc[b] : b \in anc[c] => b = c
  BY <1>1, NumAssumption
<1>3. b # Genesis => prev[b] \in Block /\ b \notin anc[prev[b]]
  <2> SUFFICES ASSUME b # Genesis PROVE prev[b] \in Block /\ b \notin anc[prev[b]]
    OBVIOUS
  <2>1. prev[b] \in Block /\ num[b] = num[prev[b]] + 1 /\ num[b] \in Nat /\ num[prev[b]] \in Nat
    BY TreeAssumption, NumAssumption
  <2>2. b \in anc[prev[b]] => b = prev[b] \/ num[b] < num[prev[b]]
    BY <2>1, NumAssumption
  <2>3. QED
    BY <2>1, <2>2
<1>4. QED
  BY <1>1, <1>2, <1>3

-----------------------------------------------------------------------------
(* The operations.                                                         *)

(* reset leaves the root alone.                                            *)
LEMMA ResetOK ==
  ASSUME NEW b \in Block
  PROVE  DbOK(reset(b)) /\ BestHead(reset(b))
BY DEF reset, DbOK, BestHead, LinkedTo, ForkDb, Valid

(* add keeps the tree and takes the best validated block as head.          *)
LEMMA AddOK ==
  ASSUME NEW d, DbOK(d), BestHead(d), NEW b \in Block,
         b # Genesis, Known(d, prev[b]), b \notin d.index
  PROVE  /\ DbOK(add(d, b)) /\ BestHead(add(d, b)) /\ add(d, b).root = d.root
         /\ add(d, b).index = d.index \cup {b} /\ add(d, b).validated = d.validated
<1> DEFINE e == [d EXCEPT !.index = @ \cup {b}]
           h == IF Valid(e) = {} THEN d.head ELSE Best(Valid(e))
<1>1. d \in ForkDb /\ d.root \in Block /\ d.index \subseteq Block
  BY DEF DbOK, ForkDb
<1>2. /\ e.index = d.index \cup {b} /\ e.root = d.root
      /\ e.validated = d.validated /\ e.head = d.head /\ e \in ForkDb
  BY <1>1 DEF ForkDb
<1>3. /\ add(d, b).index = d.index \cup {b} /\ add(d, b).root = d.root
      /\ add(d, b).validated = d.validated /\ add(d, b).head = h
  BY <1>1, <1>2 DEF add, ForkDb
<1>4. Valid(e) \subseteq Block /\ (Valid(e) # {} => h \in Valid(e))
  BY <1>1, <1>2, BestExists DEF Valid
<1>5. add(d, b) \in ForkDb
  <2>1. h \in Block
    BY <1>1, <1>4 DEF ForkDb
  <2>2. QED
    BY <1>2, <2>1 DEF add, ForkDb
<1>6. d.root \in anc[b] /\ anc[b] \ anc[d.root] \subseteq d.index \cup {b} /\ b # d.root
  <2>1. /\ prev[b] \in Block /\ anc[b] = {b} \cup anc[prev[b]]
        /\ b \notin anc[prev[b]] /\ prev[b] \in anc[prev[b]]
    BY TreeAssumption, TreeFacts
  <2>2. d.root \in anc[prev[b]] /\ anc[prev[b]] \ anc[d.root] \subseteq d.index
    BY <2>1 DEF Known, DbOK, LinkedTo
  <2>3. QED
    BY <2>1, <2>2
<1>7. DbOK(add(d, b))
  BY <1>3, <1>5, <1>6 DEF DbOK, LinkedTo
<1>8. BestHead(add(d, b))
  <2>1. Valid(add(d, b)) = Valid(e)
    BY <1>2, <1>3 DEF Valid
  <2>2. CASE Valid(e) = {}
    <3>1. d.head = d.root
      BY <1>2, <2>2 DEF BestHead, Valid
    <3>2. QED
      BY <1>3, <2>1, <2>2, <3>1 DEF BestHead
  <2>3. CASE Valid(e) # {}
    <3>1. \A c \in Valid(e) : ~first_preferred(c, h)
      BY <1>4, <2>3, NoneBetter
    <3>2. QED
      BY <1>3, <1>4, <2>1, <2>3, <3>1 DEF BestHead
  <2>4. QED
    BY <2>2, <2>3
<1>9. QED
  BY <1>3, <1>7, <1>8

(* mark_valid moves the head to a strictly preferred block only.           *)
LEMMA MarkValidOK ==
  ASSUME NEW d, DbOK(d), BestHead(d), NEW b \in d.index
  PROVE  /\ DbOK(mark_valid(d, b)) /\ BestHead(mark_valid(d, b)) /\ mark_valid(d, b).root = d.root
         /\ mark_valid(d, b).index = d.index /\ mark_valid(d, b).validated = d.validated \cup {b}
<1>1. CASE b \in d.validated
  BY <1>1 DEF mark_valid
<1>2. CASE b \notin d.validated
  <2> DEFINE e == [d EXCEPT !.validated = @ \cup {b}]
             h == IF first_preferred(Best(Valid(e)), d.head) THEN Best(Valid(e)) ELSE d.head
  <2>1. d \in ForkDb /\ d.root \in Block /\ d.index \subseteq Block /\ d.head \in Block
    BY DEF DbOK, ForkDb
  <2>2. /\ e.index = d.index /\ e.root = d.root /\ e.head = d.head
        /\ e.validated = d.validated \cup {b} /\ e \in ForkDb
    BY <2>1 DEF ForkDb
  <2>3. /\ mark_valid(d, b).index = d.index /\ mark_valid(d, b).root = d.root
        /\ mark_valid(d, b).validated = d.validated \cup {b} /\ mark_valid(d, b).head = h
    BY <1>2, <2>1, <2>2 DEF mark_valid, ForkDb
  <2>4. /\ Valid(e) \subseteq Block /\ b \in Valid(e) /\ Best(Valid(e)) \in Valid(e)
        /\ Valid(e) = Valid(d) \cup {b}
        /\ Valid(mark_valid(d, b)) = Valid(e)
    <3>1. Valid(e) \subseteq Block /\ b \in Valid(e) /\ Valid(e) = Valid(d) \cup {b}
      BY <2>1, <2>2 DEF Valid
    <3>2. Best(Valid(e)) \in Valid(e)
      BY <3>1, BestExists
    <3>3. QED
      BY <2>2, <2>3, <3>1, <3>2 DEF Valid
  <2>5. h \in Block /\ mark_valid(d, b) \in ForkDb
    BY <1>2, <2>1, <2>2, <2>4 DEF mark_valid, ForkDb
  <2>6. DbOK(mark_valid(d, b))
    BY <2>3, <2>5 DEF DbOK, LinkedTo
  <2>7. \A c \in Valid(e) : ~first_preferred(c, Best(Valid(e)))
    BY <2>4, NoneBetter
  <2>8. \A c \in Valid(e) : ~first_preferred(c, h)
    BY <2>1, <2>4, <2>7, PreferenceOrder
  <2>9. BestHead(mark_valid(d, b))
    BY <2>3, <2>4, <2>8 DEF BestHead
  <2>10. QED
    BY <2>3, <2>6, <2>9
<1>3. QED
  BY <1>1, <1>2

(* remove takes whole subtrees, so what stays is still a tree.             *)
LEMMA RemoveOK ==
  ASSUME NEW d, DbOK(d), BestHead(d), NEW b \in d.index, ~RemoveThrows(d, b)
  PROVE  /\ DbOK(remove(d, b)) /\ BestHead(remove(d, b))
         /\ remove(d, b).root = d.root /\ remove(d, b).head = d.head
         /\ remove(d, b).index = d.index \ RemoveQueue(d, b)
         /\ remove(d, b).validated = d.validated \ (RemoveQueue(d, b) \cap d.index)
<1> DEFINE Q == RemoveQueue(d, b)
<1>1. /\ d \in ForkDb /\ d.root \in Block /\ d.index \subseteq Block /\ d.validated \subseteq Block
      /\ d.head \in Block /\ d.root \notin d.index /\ b \in Block
  BY DEF DbOK, ForkDb, LinkedTo
<1>2. /\ remove(d, b).index = d.index \ Q /\ remove(d, b).root = d.root
      /\ remove(d, b).validated = d.validated \ (Q \cap d.index)
      /\ remove(d, b).head = d.head /\ remove(d, b) \in ForkDb
  BY <1>1 DEF remove, Without, ForkDb
<1>3. ASSUME NEW c \in d.index \ Q, NEW x \in anc[c] \ anc[d.root]
      PROVE  x \in d.index \ Q
  <2>1. x \in d.index /\ x \in Block /\ c \in Block /\ anc[x] \subseteq anc[c]
    BY <1>1, TreeAssumption DEF DbOK, LinkedTo
  <2>2. SUFFICES ASSUME x \in Q PROVE FALSE
    BY <2>1
  <2>3. b \in anc[x]
    BY <2>1, <2>2, TreeFacts DEF RemoveQueue
  <2>4. b \in anc[c]
    BY <2>1, <2>3
  <2>5. anc[d.root] \subseteq anc[b]
    BY <1>1, TreeAssumption DEF DbOK, LinkedTo
  <2>6. anc[c] \ anc[b] \subseteq d.index
    BY <2>5 DEF DbOK, LinkedTo
  <2>7. c \in Q
    BY <2>4, <2>6 DEF RemoveQueue
  <2>8. QED
    BY <2>7
<1>4. DbOK(remove(d, b))
  BY <1>1, <1>2, <1>3 DEF DbOK, LinkedTo
<1>5. BestHead(remove(d, b))
  BY <1>2 DEF BestHead, Valid, RemoveThrows
<1>6. QED
  BY <1>2, <1>4, <1>5

(* On the branch of the head, advance_root removes nothing the head is on. *)
LEMMA AdvanceNeverThrows ==
  ASSUME NEW d, DbOK(d), NEW b \in d.index, d.head \in Block, b \in anc[d.head]
  PROVE  ~AdvanceThrows(d, b)
<1> DEFINE e == [d EXCEPT !.index = @ \ {b}]
<1>1. /\ d \in ForkDb /\ d.index \subseteq Block /\ d.root \in Block /\ b \in d.index /\ b \in Block
  BY DEF DbOK, ForkDb, Valid
<1>2. e.index = d.index \ {b} /\ e.head = d.head
  BY <1>1 DEF ForkDb
<1>3. SUFFICES ASSUME NEW p \in BlocksToRemove(d, b), d.head \in RemoveQueue(e, p) PROVE FALSE
  BY <1>2 DEF AdvanceThrows, RemoveThrows
<1>4. p \in anc[b] /\ p # b /\ p \in Block /\ b \notin anc[p]
  BY <1>1, TreeFacts DEF BlocksToRemove
<1>5. d.head # p
  BY <1>4
<1>6. anc[d.head] \ anc[p] \subseteq d.index \ {b}
  BY <1>2, <1>3, <1>5 DEF RemoveQueue
<1>7. QED
  BY <1>4, <1>6

(* advance_root keeps exactly the blocks built on the new root.            *)
LEMMA AdvanceOK ==
  ASSUME NEW d, DbOK(d), BestHead(d), NEW b \in d.index, b \in anc[d.head]
  PROVE  /\ DbOK(advance_root(d, b)) /\ BestHead(advance_root(d, b))
         /\ advance_root(d, b).root = b /\ advance_root(d, b).head = d.head
         /\ advance_root(d, b).index \subseteq d.index
         /\ advance_root(d, b).validated \subseteq d.validated
         /\ b \in d.validated => b \in advance_root(d, b).validated
<1> DEFINE e == [d EXCEPT !.index = @ \ {b}]
           P == BlocksToRemove(d, b)
           gone == UNION {RemoveQueue(e, p) : p \in P}
           r == advance_root(d, b)
<1>1. /\ d \in ForkDb /\ d.root \in Block /\ d.index \subseteq Block /\ d.validated \subseteq Block
      /\ d.head \in Block /\ d.root \notin d.index /\ b \in Block /\ b \in d.index
  BY DEF DbOK, ForkDb, LinkedTo
<1>2. /\ e.index = d.index \ {b} /\ e.root = d.root /\ e.head = d.head
      /\ e.validated = d.validated /\ e \in ForkDb
  BY <1>1 DEF ForkDb
<1>3. /\ r.index = (d.index \ {b}) \ gone /\ r.root = b /\ r.head = d.head
      /\ r.validated = (d.validated \ (gone \cap (d.index \ {b}))) \ {d.root}
      /\ r \in ForkDb
  BY <1>1, <1>2 DEF advance_root, Without, ForkDb
<1>4. /\ d.root \in anc[b] /\ d.root # b /\ d.root \in P
      /\ anc[d.root] \subseteq anc[b]
  BY <1>1, TreeAssumption DEF DbOK, LinkedTo, BlocksToRemove
<1>5. \A p \in P : p \in anc[b] /\ p \in Block /\ b \notin anc[p]
  BY <1>1, TreeFacts DEF BlocksToRemove
<1>6. ASSUME NEW c \in d.index \ {b}
      PROVE  c \notin gone <=> b \in anc[c]
  <2>1. c \in Block /\ d.root \in anc[c] /\ anc[c] \ anc[d.root] \subseteq d.index
    BY <1>1 DEF DbOK, LinkedTo
  <2>2. ASSUME b \notin anc[c] PROVE c \in gone
    <3>1. anc[c] \ anc[d.root] \subseteq d.index \ {b}
      BY <2>1, <2>2
    <3>2. c \in RemoveQueue(e, d.root)
      BY <1>2, <2>1, <3>1 DEF RemoveQueue
    <3>3. QED
      BY <1>4, <3>2
  <2>3. ASSUME b \in anc[c] PROVE c \notin gone
    <3>1. SUFFICES ASSUME NEW p \in P, c \in RemoveQueue(e, p) PROVE FALSE
      BY <2>3
    <3>2. c # p
      BY <1>5, <2>3
    <3>3. anc[c] \ anc[p] \subseteq d.index \ {b}
      BY <1>2, <3>1, <3>2 DEF RemoveQueue
    <3>4. QED
      BY <1>5, <2>3, <3>3
  <2>4. QED
    BY <2>2, <2>3
<1>7. r.index = {c \in d.index \ {b} : b \in anc[c]}
  BY <1>3, <1>6
<1>8. ASSUME NEW c \in r.index, NEW x \in anc[c] \ anc[b]
      PROVE  x \in r.index
  <2>1. c \in d.index /\ c \in Block /\ b \in anc[c]
    BY <1>1, <1>7
  <2>2. x \in d.index /\ x # b
    BY <1>1, <1>4, <2>1, TreeFacts DEF DbOK, LinkedTo
  <2>3. b \in anc[x]
    BY <2>1, TreeAssumption
  <2>4. QED
    BY <1>7, <2>2, <2>3
<1>9. /\ b \in d.validated => b \in r.validated
      /\ r.validated \subseteq d.validated
      /\ r.validated \subseteq r.index \cup {b}
  BY <1>1, <1>3, <1>4 DEF DbOK
<1>10. DbOK(r)
  BY <1>3, <1>7, <1>8, <1>9 DEF DbOK, LinkedTo
<1>11. BestHead(r)
  <2>1. r.head = r.root \/ r.head \in Valid(r)
    <3>1. CASE d.head = b
      BY <1>3, <3>1
    <3>2. CASE d.head # b
      <4>1. d.head # d.root
        BY <1>1, <1>4, <3>2, TreeFacts
      <4>2. d.head \in d.index /\ d.head \in d.validated
        BY <4>1 DEF BestHead, Valid
      <4>3. d.head \in r.index
        BY <1>7, <3>2, <4>2
      <4>4. d.head \in r.validated
        BY <1>3, <4>1, <4>2, <4>3
      <4>5. QED
        BY <1>3, <4>3, <4>4 DEF Valid
    <3>3. QED
      BY <3>1, <3>2
  <2>2. Valid(r) \subseteq Valid(d)
    BY <1>3 DEF Valid
  <2>3. QED
    BY <1>3, <2>1, <2>2 DEF BestHead
<1>12. QED
  BY <1>3, <1>7, <1>9, <1>10, <1>11

(* rollback_head_to_root leaves the root as the only validated block.      *)
LEMMA RollbackOK ==
  ASSUME NEW d, DbOK(d)
  PROVE  /\ DbOK(rollback_head_to_root(d)) /\ BestHead(rollback_head_to_root(d))
         /\ rollback_head_to_root(d).root = d.root /\ rollback_head_to_root(d).head = d.root
         /\ rollback_head_to_root(d).index = d.index
         /\ rollback_head_to_root(d).validated = {d.root}
<1> DEFINE r == rollback_head_to_root(d)
<1>1. d \in ForkDb /\ d.root \notin d.index
  BY DEF DbOK, LinkedTo
<1>2. /\ r.index = d.index /\ r.root = d.root /\ r.head = d.root /\ r.validated = {d.root}
      /\ r \in ForkDb
  BY <1>1 DEF rollback_head_to_root, ForkDb
<1>3. DbOK(r)
  BY <1>2 DEF DbOK, LinkedTo
<1>4. BestHead(r)
  BY <1>1, <1>2 DEF BestHead, Valid
<1>5. QED
  BY <1>2, <1>3, <1>4

(* pending_head is the best block of the index, validated or not.          *)
LEMMA PendingBest ==
  ASSUME NEW d, DbOK(d), BestHead(d)
  PROVE  /\ pending_head(d) = d.head \/ pending_head(d) \in d.index \ d.validated
         /\ \A b \in d.index : ~first_preferred(b, pending_head(d))
<1> DEFINE U == Unvalidated(d)
<1>1. d.index \subseteq Block /\ d.head \in Block
  BY DEF DbOK, ForkDb
<1>2. U \subseteq Block /\ (U # {} => Best(U) \in U /\ \A c \in U : ~first_preferred(c, Best(U)))
  BY <1>1, BestExists, NoneBetter DEF Unvalidated
<1>3. pending_head(d) = d.head \/ pending_head(d) \in d.index \ d.validated
  BY <1>2 DEF pending_head, Unvalidated
<1>4. ASSUME NEW b \in d.index PROVE ~first_preferred(b, pending_head(d))
  <2>1. b \in Block /\ (b \in Valid(d) \/ b \in U)
    BY <1>1 DEF Valid, Unvalidated
  <2>2. b \in Valid(d) => ~first_preferred(b, d.head)
    BY DEF BestHead
  <2>3. CASE U # {} /\ first_preferred(Best(U), d.head)
    <3>1. pending_head(d) = Best(U) /\ Best(U) \in Block
      BY <1>2, <2>3 DEF pending_head
    <3>2. ~first_preferred(d.head, Best(U))
      BY <1>1, <2>3, <3>1, PreferenceOrder
    <3>3. QED
      BY <1>1, <1>2, <2>1, <2>2, <3>1, <3>2, PreferenceOrder
  <2>4. CASE ~(U # {} /\ first_preferred(Best(U), d.head))
    <3>1. pending_head(d) = d.head
      BY <2>4 DEF pending_head
    <3>2. QED
      BY <1>1, <1>2, <2>1, <2>2, <2>4, <3>1, PreferenceOrder
  <2>5. QED
    BY <2>3, <2>4
<1>5. QED
  BY <1>3, <1>4

(* What close writes, open accepts: a parent has a lower number and no     *)
(* higher lib than its child, so it is written first.                      *)
LEMMA OpenAccepts ==
  ASSUME NEW d, DbOK(d), BestHead(d)
  PROVE  OpenSucceeds(d)
<1>1. d \in ForkDb /\ d.root \in Block /\ d.index \subseteq Block /\ d.root \notin d.index
  BY DEF DbOK, ForkDb, LinkedTo
<1>2. ASSUME NEW b \in d.index
      PROVE  prev[b] = d.root \/ (prev[b] \in d.index /\ WrittenBefore(d, prev[b], b))
  <2>1. b \in Block /\ d.root \in anc[b] /\ anc[b] \ anc[d.root] \subseteq d.index /\ b # d.root
    BY <1>1 DEF DbOK, LinkedTo
  <2>2. b # Genesis
    BY <2>1, TreeAssumption
  <2>3. /\ prev[b] \in Block /\ anc[b] = {b} \cup anc[prev[b]] /\ prev[b] \in anc[prev[b]]
        /\ d.root \in anc[prev[b]]
    BY <2>1, <2>2, TreeAssumption, TreeFacts
  <2>4. prev[b] = d.root \/ prev[b] \in d.index
    BY <1>1, <2>1, <2>3, TreeFacts
  <2>5. lib[prev[b]] <= lib[b] /\ num[b] = num[prev[b]] + 1
    BY <2>1, <2>2, <2>3, LibAssumption, NumAssumption
  <2>6. first_preferred(b, prev[b])
    BY <2>1, <2>3, <2>5, NumAssumption DEF first_preferred
  <2>7. QED
    BY <2>4, <2>6 DEF WrittenBefore
<1>3. Known(d, d.head)
  BY DEF BestHead, Known, Valid
<1>4. IF Valid(d) = {} THEN d.head = d.root ELSE ~first_preferred(Best(Valid(d)), d.head)
  <2>1. CASE Valid(d) = {}
    BY <2>1 DEF BestHead
  <2>2. CASE Valid(d) # {}
    <3>1. Best(Valid(d)) \in Valid(d)
      BY <1>1, <2>2, BestExists DEF Valid
    <3>2. QED
      BY <2>2, <3>1 DEF BestHead
  <2>3. QED
    BY <2>1, <2>2
<1>5. QED
  BY <1>2, <1>3, <1>4 DEF OpenSucceeds

-----------------------------------------------------------------------------
(* The invariant is inductive.                                             *)

(* The database starts with the genesis block as root and head.            *)
LEMMA InitFInv == Init => FInv
BY ResetOK, TreeAssumption DEF Init, FInv, reset

(* Every step preserves FInv: one case per operation.                      *)
LEMMA NextFInv == FInv /\ [Next]_vars => FInv'
<1> SUFFICES ASSUME FInv, [Next]_vars PROVE FInv'
  OBVIOUS
<1>1. ASSUME NEW b \in Block, Add(b) PROVE FInv'
  BY <1>1, AddOK DEF Add, FInv, add
<1>2. ASSUME NEW b \in Block, MarkValid(b) PROVE FInv'
  BY <1>2, MarkValidOK DEF MarkValid, FInv
<1>3. ASSUME NEW b \in Block, Remove(b) PROVE FInv'
  BY <1>3, RemoveOK DEF Remove, FInv, DbOK, LinkedTo
<1>4. ASSUME NEW b \in Block, AdvanceRoot(b) PROVE FInv'
  <2>1. ~AdvanceThrows(fdb, b)
    BY <1>4, AdvanceNeverThrows DEF AdvanceRoot, FInv, DbOK, ForkDb, Valid
  <2>2. QED
    BY <1>4, <2>1, AdvanceOK DEF AdvanceRoot, FInv, Valid
<1>5. CASE RollbackHeadToRoot
  BY <1>5, RollbackOK DEF RollbackHeadToRoot, FInv
<1>6. CASE Close
  BY <1>6 DEF Close, FInv, DbOK, LinkedTo, ForkDb
<1>7. CASE Open
  BY <1>7, OpenAccepts DEF Open, FInv
<1>8. CASE CrashAndReset
  BY <1>8, ResetOK DEF CrashAndReset, FInv, DbOK, ForkDb, reset
<1>9. CASE UNCHANGED vars
  BY <1>9 DEF vars, FInv
<1>10. QED
  BY <1>1, <1>2, <1>3, <1>4, <1>5, <1>6, <1>7, <1>8, <1>9 DEF Next

-----------------------------------------------------------------------------
(* The theorems.                                                           *)

(* Types, and validated flags only for blocks in memory.                   *)
THEOREM TypeCorrect == Spec => []TypeOK
<1>1. FInv => TypeOK
  BY DEF FInv, DbOK, TypeOK
<1>2. QED
  BY <1>1, InitFInv, NextFInv, PTL DEF Spec

(* No orphaned branch is ever left in the index.                           *)
THEOREM AlwaysLinked == Spec => []Linked
<1>1. FInv => Linked
  BY DEF FInv, DbOK, Linked
<1>2. QED
  BY <1>1, InitFInv, NextFInv, PTL DEF Spec

(* The head is always the best validated block.                            *)
THEOREM HeadAlwaysBest == Spec => []HeadIsBest
<1>1. FInv => HeadIsBest
  BY DEF FInv, HeadIsBest
<1>2. QED
  BY <1>1, InitFInv, NextFInv, PTL DEF Spec

(* advance_root never stops half way and open accepts what close wrote.    *)
THEOREM NeverFails == Spec => []NeverThrows
<1>1. FInv => NeverThrows
  BY DEF FInv, NeverThrows
<1>2. QED
  BY <1>1, InitFInv, NextFInv, PTL DEF Spec

(* No known block is preferred to the one pending_head returns.            *)
THEOREM PendingHeadAlwaysBest == Spec => []PendingHeadIsBest
<1>1. FInv => PendingHeadIsBest
  BY PendingBest DEF FInv, PendingHeadIsBest
<1>2. QED
  BY <1>1, InitFInv, NextFInv, PTL DEF Spec

(* One step and the root: only advance_root moves it, along the head's     *)
(* branch.                                                                 *)
LEMMA RootStep ==
  ASSUME FInv, FInv', [Next]_vars
  PROVE  [fdb.root \in anc[fdb'.root] /\ (status' = "open" => fdb'.root \in anc[fdb'.head])]_vars
<1>1. /\ fdb \in ForkDb /\ fdb.root \in Block /\ fdb.root \in anc[fdb.root]
      /\ fdb' \in ForkDb /\ fdb'.root \in Block /\ fdb'.root \in anc[fdb'.root]
  BY TreeFacts DEF FInv, DbOK, ForkDb
<1>2. status' = "open" => fdb'.root \in anc[fdb'.head]
  BY <1>1 DEF FInv, DbOK, LinkedTo, BestHead, Valid
<1>3. ASSUME NEW b \in Block, AdvanceRoot(b) PROVE fdb.root \in anc[fdb'.root]
  <2>1. fdb'.root = fdb.root \/ fdb'.root = b
    BY <1>3, AdvanceOK DEF AdvanceRoot, FInv, Valid
  <2>2. b \in fdb.index
    BY <1>3 DEF AdvanceRoot, Valid
  <2>3. QED
    BY <1>1, <2>1, <2>2 DEF FInv, DbOK, LinkedTo
<1>4. ASSUME NEW b \in Block, Add(b) \/ MarkValid(b) \/ Remove(b) PROVE fdb'.root = fdb.root
  BY <1>4, AddOK, MarkValidOK, RemoveOK DEF Add, MarkValid, Remove, FInv
<1>5. CASE RollbackHeadToRoot \/ Close \/ Open \/ CrashAndReset \/ UNCHANGED vars
  <2>1. fdb'.root = fdb.root
    BY <1>1, <1>5, RollbackOK
    DEF RollbackHeadToRoot, Close, Open, CrashAndReset, reset, FInv, ForkDb, vars
  <2>2. QED
    BY <1>1, <1>2, <2>1
<1>6. QED
  BY <1>1, <1>2, <1>3, <1>4, <1>5 DEF Next

(* The root only advances, to blocks below the head.                       *)
THEOREM RootOnlyAdvances == Spec => RootAdvances
<1>1. FInv /\ FInv' /\ [Next]_vars => [fdb.root \in anc[fdb'.root] /\ (status' = "open" => fdb'.root \in anc[fdb'.head])]_vars
  BY RootStep
<1>2. QED
  BY <1>1, InitFInv, NextFInv, PTL DEF Spec, RootAdvances

(* One step and the head: add and mark_valid move it to the best validated *)
(* block, which the old head was not preferred to.                         *)
LEMMA HeadStep ==
  ASSUME FInv, FInv', [Next]_vars
  PROVE  [\/ ~first_preferred(fdb.head, fdb'.head)
          \/ Valid(fdb') = {} /\ fdb'.head = fdb'.root]_vars
<1>1. fdb \in ForkDb /\ fdb.head \in Block /\ fdb.index \subseteq Block /\ fdb.root \in Block
  BY DEF FInv, DbOK, ForkDb
<1>2. ~first_preferred(fdb.head, fdb.head)
  BY <1>1, PreferenceOrder
<1>3. ASSUME NEW b \in Block, Add(b) PROVE ~first_preferred(fdb.head, fdb'.head)
  <2> DEFINE e == [fdb EXCEPT !.index = @ \cup {b}]
  <2>1. /\ Valid(e) = Valid(fdb)
        /\ fdb'.head = IF Valid(e) = {} THEN fdb.head ELSE Best(Valid(e))
    <3>1. b \notin fdb.validated
      <4>1. fdb.validated \subseteq fdb.index \cup {fdb.root} /\ b \notin fdb.index
        BY <1>3 DEF FInv, DbOK, Add
      <4>2. b # fdb.root
        <5>1. prev[b] \in Block /\ b \notin anc[prev[b]] /\ prev[b] \in anc[prev[b]]
          BY <1>3, TreeFacts DEF Add
        <5>2. fdb.root \in anc[prev[b]]
          BY <1>3, <5>1 DEF Add, Known, FInv, DbOK, LinkedTo
        <5>3. QED
          BY <5>1, <5>2
      <4>3. QED
        BY <4>1, <4>2
    <3>2. QED
      BY <1>1, <1>3, <3>1 DEF Add, add, Valid, ForkDb
  <2>2. CASE Valid(fdb) = {}
    BY <1>2, <2>1, <2>2
  <2>3. CASE Valid(fdb) # {}
    <3>1. Valid(fdb) \subseteq Block
      BY <1>1 DEF Valid
    <3>2. Best(Valid(fdb)) \in Valid(fdb) /\ fdb'.head = Best(Valid(fdb))
      BY <2>1, <2>3, <3>1, BestExists
    <3>3. CASE fdb.head \in Valid(fdb)
      BY <2>3, <3>1, <3>2, <3>3, NoneBetter
    <3>4. CASE fdb.head = fdb.root
      <4> DEFINE h == Best(Valid(fdb))
      <4>1. h \in Block /\ fdb.root \in anc[h] /\ fdb.root # h
        BY <1>1, <3>2 DEF Valid, FInv, DbOK, LinkedTo
      <4>2. lib[fdb.root] <= lib[h] /\ num[fdb.root] < num[h]
        BY <4>1, LibAssumption, NumAssumption
      <4>3. QED
        BY <1>1, <3>2, <3>4, <4>1, <4>2, NumAssumption DEF first_preferred
    <3>5. QED
      BY <1>3, <3>3, <3>4 DEF FInv, BestHead, Add
  <2>4. QED
    BY <2>2, <2>3
<1>4. ASSUME NEW b \in Block, MarkValid(b) PROVE ~first_preferred(fdb.head, fdb'.head)
  <2> DEFINE e == [fdb EXCEPT !.validated = @ \cup {b}]
  <2>1. \/ fdb' = fdb
        \/ /\ first_preferred(Best(Valid(e)), fdb.head)
           /\ fdb'.head = Best(Valid(e))
        \/ fdb'.head = fdb.head
    BY <1>1, <1>4 DEF MarkValid, mark_valid, ForkDb
  <2>2. fdb'.head \in Block
    BY DEF FInv, DbOK, ForkDb
  <2>3. QED
    BY <1>1, <1>2, <2>1, <2>2, PreferenceOrder
<1>5. ASSUME NEW b \in Block, Remove(b) \/ AdvanceRoot(b) PROVE fdb'.head = fdb.head
  <2>1. CASE Remove(b)
    BY <1>1, <2>1 DEF Remove, remove, Without, ForkDb
  <2>2. CASE AdvanceRoot(b)
    BY <2>2, AdvanceOK DEF AdvanceRoot, FInv, Valid
  <2>3. QED
    BY <1>5, <2>1, <2>2
<1>6. CASE RollbackHeadToRoot \/ CrashAndReset
  <2>1. fdb'.validated = {fdb.root} /\ fdb'.head = fdb.root /\ fdb'.root = fdb.root
    <3>1. CASE RollbackHeadToRoot
      BY <1>1, <3>1 DEF RollbackHeadToRoot, rollback_head_to_root, ForkDb
    <3>2. CASE CrashAndReset
      BY <3>2 DEF CrashAndReset, reset
    <3>3. QED
      BY <1>6, <3>1, <3>2
  <2>2. Valid(fdb') = {}
    BY <2>1 DEF Valid, FInv, DbOK, LinkedTo
  <2>3. QED
    BY <2>1, <2>2
<1>7. CASE Close \/ Open \/ UNCHANGED vars
  <2>1. CASE Close
    BY <1>1, <1>2, <2>1 DEF Close, ForkDb
  <2>2. CASE Open
    BY <1>2, <2>2 DEF Open, FInv
  <2>3. QED
    BY <1>2, <1>7, <2>1, <2>2 DEF vars
<1>8. QED
  BY <1>2, <1>3, <1>4, <1>5, <1>6, <1>7 DEF Next

(* The head never gets worse while its validation stands.                  *)
THEOREM HeadNeverWorse == Spec => HeadNotWorse
<1>1. FInv /\ FInv' /\ [Next]_vars => 
        [\/ ~first_preferred(fdb.head, fdb'.head)
         \/ Valid(fdb') = {} /\ fdb'.head = fdb'.root]_vars
  BY HeadStep
<1>2. QED
  BY <1>1, InitFInv, NextFInv, PTL DEF Spec, HeadNotWorse
=============================================================================
