-------------------------- MODULE Controller_proofs --------------------------
(***************************************************************************)
(* Proofs about Controller, for every tree of blocks, every set of invalid *)
(* ones and any order of blocks, crashes, restarts and changes of the read *)
(* mode.                                                                   *)
(*                                                                         *)
(* 1. CInv: the block log stays one branch, and no block in it is popped.  *)
(*    What has to be shown is that the fork database's head, from which    *)
(*    log_irreversible computes what to append, never makes a block        *)
(*    irreversible that the controller has not applied.  Outside of calls  *)
(*    it makes nothing irreversible that is not in the log (Low); inside,  *)
(*    only the block a switch leads to may.                                *)
(* 2. SInv: the undo states are one for each block from the log's last     *)
(*    block to the head, the stored reversible blocks are those of a branch*)
(*    to the best block, and a switch knows where its branches part.  The  *)
(*    stores agree between calls, and a failed switch is undone.           *)
(* 3. RInv: invalid blocks are kept out (Cleared), the head is known where *)
(*    a switch is undone (Linked), the undo states go down to the root     *)
(*    (Bottom), and as long as no block is invalid both heads are the same *)
(*    (Good).  No assertion fails but the known ones, the best branch is   *)
(*    applied, and a restart keeps the head.                               *)
(***************************************************************************)
EXTENDS Controller, TLAPS

(* The operations of the fork database and the lemmas about them.          *)
F == INSTANCE ForkDatabase_proofs WITH status <- pc

(* The steps of a fork switch, of the log's append, and between calls.     *)
Switching == {"extend", "pop", "apply", "unapply", "reapply"}
Logging == {"log_block", "trim"}
Between == {"idle", "replay", "best", "best_loop"}
Running == Switching \cup Logging \cup Between \cup {"log"}
Starting == {"init", "replay_log"}

(* The blocks of the log.                                                  *)
LogBlocks == {blog[i] : i \in DOMAIN blog}

(* The types of the variables, and when there is a fork database file.     *)
Types ==
  /\ mode \in {"SPECULATIVE", "IRREVERSIBLE"} /\ head \in Block
  /\ reversible \subseteq Block /\ todo \subseteq Block
  /\ branches.first \subseteq Block /\ branches.second \subseteq Block
  /\ pc \in Running \cup Starting \cup {"down", "failed"}
  /\ ret \in {"idle", "replay", "best_loop"}
  /\ blog \in Seq(Block) /\ blog # <<>>
  /\ file # NoFile => pc \in {"down", "failed"}

(* The log is the branch of its last block.                                *)
Chained ==
  /\ \A i \in 2 .. Len(blog) : blog[i] # Genesis /\ prev[blog[i]] = blog[i - 1]
  /\ blog[1] = Genesis /\ LogBlocks \subseteq anc[LogHead]

(* The index is a tree on the root, and the head its best validated block. *)
Tree(d) ==
  /\ d \in ForkDb /\ d.validated \subseteq d.index \cup {d.root} /\ d.root \notin d.index
  /\ \A b \in d.index : d.root \in anc[b] /\ anc[b] \ anc[d.root] \subseteq d.index
  /\ d.head = d.root \/ d.head \in Valid(d)
  /\ \A b \in Valid(d) : ~first_preferred(b, d.head)

(* A fork database that was read or is about to be written has the log's   *)
(* last block as root, or holds nothing but a block of the log.            *)
OnLog(d) == d.root = LogHead \/ \E b \in LogBlocks : d = reset(b)

(* Nothing in S makes a block irreversible that is not in the log.         *)
Low(S) == \A c \in S : lib[c] <= num[LogHead]

(* A file of irreversible mode may, but then nothing of it was applied.    *)
Fresh(d) == Low(d.index) \/ (d.head = d.root /\ reversible = {})

(* The fork database file, as it is read at the next startup.              *)
Stored == file # NoFile => Tree(file) /\ OnLog(file) /\ Fresh(file)

(* What the startup has read, before it has replayed anything.             *)
Started ==
  pc \in Starting =>
    /\ OnLog(fdb) /\ Fresh(fdb) /\ head \in {fdb.head, Genesis}
    /\ mode = "IRREVERSIBLE" => fdb.head = fdb.root

(* The root is the log's last block, and the head descends from it.        *)
Rooted ==
  /\ pc \in Running \ Logging => fdb.root = LogHead
  /\ pc \in Running => LogHead \in anc[head]

(* In irreversible mode the head is the last block of the log.             *)
Irreversible ==
  mode = "IRREVERSIBLE" =>
    /\ pc \notin Switching
    /\ pc \in Running \cup {"replay_log"} => reversible = {}
    /\ pc \in Running => /\ head = LogHead /\ fdb.head = LogHead
                         /\ fdb.validated \subseteq anc[LogHead]

(* The head is the root or a validated block of the fork database.         *)
HeadValid == head = fdb.root \/ head \in Valid(fdb)

(* Blocks are built in speculative mode, between calls.                    *)
Building == pending = "building" => pc \in {"idle", "failed"} /\ mode = "SPECULATIVE"

(* Between the calls, and between the steps of init.                       *)
Resting ==
  mode = "SPECULATIVE" /\ pc \in Between =>
    /\ HeadValid
    /\ pc = "replay" => Fresh(fdb)
    /\ pc = "best" => Low(fdb.index) \/ (fdb.head = fdb.root /\ head = fdb.root /\ reversible = {})
    /\ pc \in {"idle", "best_loop"} => Low(fdb.index)

(* No block of the fork database is better than t.                         *)
Top(t) == \A c \in fdb.index : ~first_preferred(c, t)

(* A child of the head is applied: the only block that may make others     *)
(* irreversible, or the best one of a file of irreversible mode.           *)
Extending ==
  pc = "extend" =>
    \E t \in fdb.index :
      /\ todo = {t} /\ Extends(t) /\ HeadValid
      /\ \/ Low(fdb.index \ {t})
         \/ ret = "best_loop" /\ fdb.head = fdb.root /\ reversible = {} /\ Top(t)

(* The new branch ends in t.                                               *)
NewBranch ==
  pc \in {"pop", "apply"} =>
    \E t \in branches.first :
      /\ branches.first \subseteq anc[t] \cap fdb.index
      /\ pc = "apply" => t \in todo /\ todo \subseteq branches.first
      /\ \/ Low(fdb.index \ {t})
         \/ /\ ret = "best_loop" /\ branches.second = {}
            /\ fdb.validated \subseteq anc[t] /\ Top(t)

(* The old branch, if there is one, ends in s, the head the switch began   *)
(* with.                                                                   *)
OldBranch ==
  pc \in Switching \ {"extend"} =>
    \/ branches.second = {} /\ pc # "reapply"
    \/ \E s \in branches.second \cap Valid(fdb) :
         /\ branches.second \subseteq anc[s] /\ branches.first \cap anc[s] = {}
         /\ \A c \in branches.second : fdb.root \in anc[c]
         /\ pc = "reapply" => s \in todo /\ todo \subseteq branches.second
         /\ pc \in {"unapply", "reapply"} => Low(fdb.index)

(* Something was applied: it is the fork database's head, or makes nothing *)
(* new irreversible.                                                       *)
Applied ==
  pc = "log" /\ mode = "SPECULATIVE" =>
    /\ head \in Valid(fdb)
    /\ \/ Low(fdb.index)
       \/ /\ fdb.head = head
          /\ \A c \in fdb.index : lib[c] <= num[LogHead] \/ lib[c] <= lib[head]

(* The blocks of the branch of f up to the one it makes irreversible are   *)
(* appended, and no block known makes a later one irreversible.            *)
Appending ==
  pc \in Logging =>
    \E f \in fdb.index :
      /\ LogHead \in anc[f] /\ (LogHead = fdb.root \/ LogHead \in fdb.index)
      /\ pc = "log_block" =>
           /\ num[LogHead] < lib[f]
           /\ todo = {b \in anc[f] : num[LogHead] < num[b] /\ num[b] <= lib[f]}
      /\ pc = "trim" =>
           /\ LogHead \in fdb.index
           /\ num[LogHead] <= lib[f]
           /\ todo = {b \in anc[f] : num[LogHead] <= num[b] /\ num[b] <= lib[f]}
      /\ \A c \in fdb.index : lib[c] <= lib[f]
      /\ mode = "SPECULATIVE" => f = fdb.head /\ f = head /\ f \in Valid(fdb)

(* The inductive invariant.                                                *)
CInv ==
  /\ Types /\ Chained /\ Tree(fdb) /\ Stored /\ Started /\ Rooted /\ Irreversible
  /\ Building /\ Resting /\ Extending /\ NewBranch /\ OldBranch /\ Applied /\ Appending

-----------------------------------------------------------------------------
(* The fork database's lemmas, carried over.                               *)

(* The instance's assumptions are this module's.                           *)
LEMMA SameAssumptions ==
  F!TreeAssumption /\ F!NumAssumption /\ F!LibAssumption /\ F!FileAssumption
BY TreeAssumption, NumAssumption, LibAssumption, ControllerAssumption
DEF F!TreeAssumption, F!NumAssumption, F!LibAssumption, F!FileAssumption, F!ForkDb, ForkDb

(* Tree is what ForkDatabase_proofs requires of a database.                *)
LEMMA SameTree ==
  ASSUME NEW d
  PROVE  Tree(d) <=> F!DbOK(d) /\ F!BestHead(d)
BY DEF Tree, ForkDb, Valid, first_preferred,
       F!DbOK, F!BestHead, F!LinkedTo, F!ForkDb, F!Valid, F!first_preferred

(* Both modules mean the same by the best block.                           *)
LEMMA SameBest ==
  ASSUME NEW S
  PROVE  F!Best(S) = Best(S)
BY DEF F!Best, Best, F!Foremost, Foremost, F!first_preferred, first_preferred

(* Both modules mean the same by the operations.                           *)
LEMMA SameOperations ==
  ASSUME NEW d, NEW b
  PROVE  /\ F!reset(b) = reset(b)
         /\ F!add(d, b) = add(d, b)
         /\ F!mark_valid(d, b) = mark_valid(d, b)
         /\ F!RemoveQueue(d, b) = RemoveQueue(d, b) /\ F!RemoveThrows(d, b) = RemoveThrows(d, b)
         /\ F!remove(d, b) = remove(d, b)
         /\ F!advance_root(d, b) = advance_root(d, b)
         /\ F!rollback_head_to_root(d) = rollback_head_to_root(d)
         /\ F!pending_head(d) = pending_head(d)
         /\ F!Known(d, b) = Known(d, b)
<1>1. F!RemoveQueue(d, b) = RemoveQueue(d, b) /\ F!RemoveThrows(d, b) = RemoveThrows(d, b)
  BY DEF F!RemoveQueue, RemoveQueue, F!RemoveThrows, RemoveThrows
<1>2. F!remove(d, b) = remove(d, b)
  BY <1>1 DEF F!remove, remove, F!Without, Without
<1>3. F!advance_root(d, b) = advance_root(d, b)
  BY Zenon DEF F!advance_root, advance_root, F!Without, Without, F!BlocksToRemove, BlocksToRemove,
         F!RemoveQueue, RemoveQueue
<1>4. F!add(d, b) = add(d, b)
  BY Zenon DEF F!add, add, F!Best, Best, F!Foremost, Foremost, F!first_preferred, first_preferred,
               F!Valid, Valid
<1>5. F!mark_valid(d, b) = mark_valid(d, b)
  BY Zenon DEF F!mark_valid, mark_valid, F!Best, Best, F!Foremost, Foremost, F!Valid, Valid,
               F!first_preferred, first_preferred
<1>6. F!pending_head(d) = pending_head(d)
  BY SameBest DEF F!pending_head, pending_head, F!Unvalidated, Unvalidated, F!first_preferred, first_preferred
<1>7. /\ F!reset(b) = reset(b) /\ F!rollback_head_to_root(d) = rollback_head_to_root(d)
      /\ F!Known(d, b) = Known(d, b)
  BY DEF F!reset, reset, F!rollback_head_to_root, rollback_head_to_root, F!Known, Known
<1>8. QED
  BY <1>1, <1>2, <1>3, <1>4, <1>5, <1>6, <1>7

(* reset leaves a tree.                                                    *)
LEMMA ResetTree ==
  ASSUME NEW b \in Block
  PROVE  Tree(reset(b))
BY DEF Tree, reset, ForkDb, Valid

(* add leaves a tree, with one more block in its index.                    *)
LEMMA AddTree ==
  ASSUME NEW d, Tree(d), NEW b \in Block, b # Genesis, Known(d, prev[b]), b \notin d.index
  PROVE  /\ Tree(add(d, b)) /\ add(d, b).root = d.root
         /\ add(d, b).index = d.index \cup {b} /\ add(d, b).validated = d.validated
<1>1. F!DbOK(d) /\ F!BestHead(d) /\ F!Known(d, prev[b])
  BY SameTree, SameOperations
<1>2. /\ F!DbOK(F!add(d, b)) /\ F!BestHead(F!add(d, b)) /\ F!add(d, b).root = d.root
      /\ F!add(d, b).index = d.index \cup {b} /\ F!add(d, b).validated = d.validated
  BY F!AddOK, SameAssumptions, <1>1, Zenon
<1>3. QED
  BY <1>2, SameTree, SameOperations

(* mark_valid leaves a tree, with one more validated block.                *)
LEMMA MarkTree ==
  ASSUME NEW d, Tree(d), NEW b \in d.index
  PROVE  /\ Tree(mark_valid(d, b)) /\ mark_valid(d, b).root = d.root
         /\ mark_valid(d, b).index = d.index /\ mark_valid(d, b).validated = d.validated \cup {b}
<1>1. F!DbOK(d) /\ F!BestHead(d)
  BY SameTree
<1>2. /\ F!DbOK(F!mark_valid(d, b)) /\ F!BestHead(F!mark_valid(d, b))
      /\ F!mark_valid(d, b).root = d.root /\ F!mark_valid(d, b).index = d.index
      /\ F!mark_valid(d, b).validated = d.validated \cup {b}
  BY F!MarkValidOK, SameAssumptions, <1>1, Zenon
<1>3. QED
  BY <1>2, SameTree, SameOperations

(* remove leaves a tree, without the block and its descendants.            *)
LEMMA RemoveTree ==
  ASSUME NEW d, Tree(d), NEW b \in d.index, ~RemoveThrows(d, b)
  PROVE  /\ Tree(remove(d, b)) /\ remove(d, b).root = d.root /\ remove(d, b).head = d.head
         /\ remove(d, b).index = {c \in d.index : b \notin anc[c]}
         /\ Valid(remove(d, b)) = {c \in Valid(d) : b \notin anc[c]}
<1>1. F!DbOK(d) /\ F!BestHead(d) /\ ~F!RemoveThrows(d, b)
  BY SameTree, SameOperations
<1>2. /\ F!DbOK(F!remove(d, b)) /\ F!BestHead(F!remove(d, b))
      /\ F!remove(d, b).root = d.root /\ F!remove(d, b).head = d.head
      /\ F!remove(d, b).index = d.index \ F!RemoveQueue(d, b)
      /\ F!remove(d, b).validated = d.validated \ (F!RemoveQueue(d, b) \cap d.index)
  BY F!RemoveOK, SameAssumptions, <1>1, Zenon
<1>3. ASSUME NEW c \in d.index PROVE c \in RemoveQueue(d, b) <=> b \in anc[c]
  <2>1. /\ b \in Block /\ c \in Block /\ d.root \in anc[b] /\ d.root \in Block
        /\ anc[c] \ anc[d.root] \subseteq d.index
    BY DEF Tree, ForkDb
  <2>2. anc[d.root] \subseteq anc[b] /\ b \in anc[b]
    BY <2>1, TreeAssumption
  <2>3. QED
    BY <2>1, <2>2 DEF RemoveQueue
<1>4. QED
  BY <1>2, <1>3, SameTree, SameOperations DEF Valid

(* advance_root along the head's branch leaves a tree on the new root.     *)
LEMMA AdvanceTree ==
  ASSUME NEW d, Tree(d), NEW b \in d.index, b \in anc[d.head]
  PROVE  /\ Tree(advance_root(d, b)) /\ advance_root(d, b).root = b
         /\ advance_root(d, b).head = d.head
         /\ advance_root(d, b).index \subseteq d.index
         /\ advance_root(d, b).validated \subseteq d.validated
<1>1. F!DbOK(d) /\ F!BestHead(d)
  BY SameTree
<1>2. /\ F!DbOK(F!advance_root(d, b)) /\ F!BestHead(F!advance_root(d, b))
      /\ F!advance_root(d, b).root = b /\ F!advance_root(d, b).head = d.head
      /\ F!advance_root(d, b).index \subseteq d.index
      /\ F!advance_root(d, b).validated \subseteq d.validated
  BY F!AdvanceOK, SameAssumptions, <1>1, Zenon
<1>3. QED
  BY <1>2, SameTree, SameOperations, Zenon

(* rollback_head_to_root leaves a tree with the same index.                *)
LEMMA RollbackTree ==
  ASSUME NEW d, Tree(d)
  PROVE  /\ Tree(rollback_head_to_root(d)) /\ rollback_head_to_root(d).root = d.root
         /\ rollback_head_to_root(d).head = d.root /\ rollback_head_to_root(d).index = d.index
<1>1. F!DbOK(d)
  BY SameTree
<1>2. /\ F!DbOK(F!rollback_head_to_root(d)) /\ F!BestHead(F!rollback_head_to_root(d))
      /\ F!rollback_head_to_root(d).root = d.root /\ F!rollback_head_to_root(d).head = d.root
      /\ F!rollback_head_to_root(d).index = d.index
  BY F!RollbackOK, SameAssumptions, <1>1, Zenon
<1>3. QED
  BY <1>2, SameTree, SameOperations, Zenon

(* pending_head is the best block of the tree.                             *)
LEMMA PendingTree ==
  ASSUME NEW d, Tree(d)
  PROVE  /\ pending_head(d) = d.head \/ pending_head(d) \in d.index \ d.validated
         /\ pending_head(d) \in d.index \cup {d.root}
         /\ \A b \in d.index : ~first_preferred(b, pending_head(d))
<1>1. F!DbOK(d) /\ F!BestHead(d)
  BY SameTree
<1>2. /\ F!pending_head(d) = d.head \/ F!pending_head(d) \in d.index \ d.validated
      /\ \A b \in d.index : ~F!first_preferred(b, F!pending_head(d))
  BY F!PendingBest, SameAssumptions, <1>1, Zenon
<1>3. /\ pending_head(d) = d.head \/ pending_head(d) \in d.index \ d.validated
      /\ \A b \in d.index : ~first_preferred(b, pending_head(d))
  BY <1>2, SameOperations DEF F!first_preferred, first_preferred
<1>4. QED
  BY <1>3 DEF Tree, Valid

-----------------------------------------------------------------------------
(* The tree of blocks.                                                     *)

(* Numbers and libs along the ancestors of a block.                        *)
LEMMA Ancestors ==
  ASSUME NEW b \in Block
  PROVE  /\ b \in anc[b] /\ anc[b] \subseteq Block
         /\ \A a \in anc[b] : anc[a] \subseteq anc[b] /\ (a = b \/ num[a] < num[b])
         /\ \A a \in anc[b] : lib[a] <= lib[b] /\ num[a] \in Nat /\ lib[a] \in Nat
         /\ num[b] \in Nat /\ lib[b] \in Nat /\ lib[b] <= num[b]
<1>1. b \in anc[b] /\ anc[b] \subseteq Block
  BY TreeAssumption
<1>2. QED
  BY <1>1, TreeAssumption, NumAssumption, LibAssumption, LibBelow

(* The child of a block has it and its ancestors below.                    *)
LEMMA Child ==
  ASSUME NEW b \in Block, b # Genesis
  PROVE  /\ prev[b] \in Block /\ anc[b] = {b} \cup anc[prev[b]]
         /\ num[b] = num[prev[b]] + 1 /\ b \notin anc[prev[b]]
<1>1. prev[b] \in Block /\ anc[b] = {b} \cup anc[prev[b]] /\ num[b] = num[prev[b]] + 1
  BY TreeAssumption, NumAssumption
<1>2. num[b] \in Nat /\ num[prev[b]] \in Nat
  BY <1>1, Ancestors
<1>3. b \in anc[prev[b]] => b = prev[b] \/ num[b] < num[prev[b]]
  BY <1>1, Ancestors
<1>4. QED
  BY <1>1, <1>2, <1>3

(* Two blocks of a branch are one above the other, by their numbers.       *)
LEMMA OnOneBranch ==
  ASSUME NEW f \in Block, NEW a \in anc[f], NEW b \in anc[f]
  PROVE  /\ num[a] <= num[b] => a \in anc[b]
         /\ num[a] = num[b] => a = b
<1>1. a \in Block /\ b \in Block /\ (a \in anc[b] \/ b \in anc[a])
  BY TreeAssumption, Ancestors
<1>2. /\ num[a] \in Nat /\ num[b] \in Nat /\ a \in anc[a]
      /\ a \in anc[b] => a = b \/ num[a] < num[b]
      /\ b \in anc[a] => a = b \/ num[b] < num[a]
  BY <1>1, Ancestors
<1>3. QED
  BY <1>1, <1>2

(* Numbers are bounded: a set of blocks has a lowest and a highest one.    *)
LEMMA LowestIn ==
  ASSUME NEW S, S \subseteq Block, S # {}
  PROVE  Lowest(S) \in S /\ \A c \in S : num[Lowest(S)] <= num[c]
<1> DEFINE T == {num[c] : c \in S}
<1>1. T \subseteq Nat /\ T # {}
  BY NumAssumption
<1>2. PICK t \in T : \A y \in T : t <= y
  BY <1>1, F!LeastNat, SameAssumptions, Zenon
<1>3. PICK e \in S : t = num[e]
  BY <1>2
<1>4. \A c \in S : num[e] <= num[c]
  BY <1>2, <1>3
<1>5. QED
  BY <1>4 DEF Lowest

(* The same for the highest one.                                           *)
LEMMA HighestIn ==
  ASSUME NEW S, S \subseteq Block, S # {}
  PROVE  Highest(S) \in S /\ \A c \in S : num[c] <= num[Highest(S)]
<1> DEFINE T == {MaxNum - num[c] : c \in S}
<1>1. T \subseteq Nat /\ T # {}
  BY NumAssumption
<1>2. PICK t \in T : \A y \in T : t <= y
  BY <1>1, F!LeastNat, SameAssumptions, Zenon
<1>3. PICK e \in S : t = MaxNum - num[e]
  BY <1>2
<1>4. \A c \in S : MaxNum - num[e] <= MaxNum - num[c]
  BY <1>2, <1>3
<1>5. \A c \in S : num[c] <= num[e]
  BY <1>4, NumAssumption
<1>6. QED
  BY <1>5 DEF Highest

(* Between a block and a higher one of its branch there is a child.        *)
LEMMA NextOnBranch ==
  ASSUME NEW f \in Block, NEW a \in anc[f], a # f
  PROVE  \E c \in anc[f] : c # Genesis /\ prev[c] = a /\ num[c] = num[a] + 1
<1> DEFINE S == {c \in anc[f] : a \in anc[c] /\ c # a}
           c == Lowest(S)
<1>1. S \subseteq Block /\ f \in S
  BY Ancestors
<1>2. c \in S /\ \A x \in S : num[c] <= num[x]
  BY <1>1, LowestIn
<1> HIDE DEF c
<1>3. c \in Block /\ c # Genesis
  BY <1>1, <1>2, TreeAssumption
<1>4. prev[c] \in Block /\ anc[c] = {c} \cup anc[prev[c]] /\ num[c] = num[prev[c]] + 1
  BY <1>3, Child
<1>5. a \in anc[prev[c]] /\ prev[c] \in anc[f]
  BY <1>2, <1>3, <1>4, Ancestors
<1>6. prev[c] = a
  <2>1. SUFFICES ASSUME prev[c] \in S PROVE FALSE
    BY <1>5
  <2>2. num[c] <= num[prev[c]] /\ num[prev[c]] \in Nat
    BY <1>2, <1>4, <2>1, Ancestors
  <2>3. QED
    BY <1>4, <2>2
<1>7. QED
  BY <1>2, <1>3, <1>4, <1>6

-----------------------------------------------------------------------------
(* Fork databases.                                                         *)

(* Every block of the index is preferred to the root.                      *)
LEMMA AboveRoot ==
  ASSUME NEW d, Tree(d)
  PROVE  /\ d.root \in Block /\ d.head \in Block /\ d.index \subseteq Block
         /\ d.root \in anc[d.root] /\ d.root \in anc[d.head]
         /\ \A c \in d.index : /\ d.root \in anc[c] /\ c \notin anc[d.root]
                             /\ num[d.root] < num[c] /\ first_preferred(c, d.root)
<1>1. d.root \in Block /\ d.head \in Block /\ d.index \subseteq Block /\ d.root \in anc[d.root]
  BY Ancestors DEF Tree, ForkDb
<1>2. ASSUME NEW c \in d.index
      PROVE  /\ d.root \in anc[c] /\ c \notin anc[d.root]
             /\ num[d.root] < num[c] /\ first_preferred(c, d.root)
  <2>1. c \in Block /\ d.root \in anc[c] /\ d.root # c
    BY <1>1 DEF Tree
  <2>2. /\ num[d.root] \in Nat /\ num[c] \in Nat /\ lib[d.root] \in Nat /\ lib[c] \in Nat
        /\ num[d.root] < num[c] /\ lib[d.root] <= lib[c]
        /\ c \in anc[d.root] => num[c] < num[d.root]
    BY <1>1, <2>1, Ancestors
  <2>3. QED
    BY <2>1, <2>2 DEF first_preferred
<1>3. d.root \in anc[d.head]
  BY <1>1, <1>2 DEF Tree, Valid
<1>4. QED
  BY <1>1, <1>2, <1>3

(* If the head is the root no other block is validated, and conversely.    *)
LEMMA NoneValid ==
  ASSUME NEW d, Tree(d), d.head = d.root \/ d.validated \subseteq anc[d.root]
  PROVE  Valid(d) = {} /\ d.validated \subseteq {d.root} /\ d.head = d.root
<1>1. Valid(d) = {}
  <2>1. CASE d.head = d.root
    BY <2>1, AboveRoot DEF Tree, Valid
  <2>2. CASE d.validated \subseteq anc[d.root]
    BY <2>2, AboveRoot DEF Valid
  <2>3. QED
    BY <2>1, <2>2
<1>2. QED
  BY <1>1 DEF Tree, Valid

(* A validated block above all the others is the head.                     *)
LEMMA BestOnBranch ==
  ASSUME NEW d, Tree(d), NEW t \in Valid(d), d.validated \subseteq anc[t]
  PROVE  d.head = t
<1>1. t \in d.index /\ t \in Block /\ d.head \in Block
  BY AboveRoot DEF Valid
<1>2. d.head \in anc[t]
  BY <1>1, AboveRoot DEF Tree, Valid
<1>3. ~first_preferred(t, d.head)
  BY DEF Tree
<1>4. /\ lib[d.head] <= lib[t] /\ (d.head = t \/ num[d.head] < num[t])
      /\ num[t] \in Nat /\ num[d.head] \in Nat /\ lib[t] \in Nat /\ lib[d.head] \in Nat
  BY <1>1, <1>2, Ancestors
<1>5. QED
  BY <1>3, <1>4 DEF first_preferred

(* A block that no block of the index is preferred to is not below h.      *)
LEMMA BestNotBelow ==
  ASSUME NEW d, Tree(d), NEW p \in d.index \cup {d.root},
         \A c \in d.index : ~first_preferred(c, p),
         NEW h, h = d.root \/ h \in d.index, p # h
  PROVE  p \in d.index /\ p \notin anc[h]
<1>1. p \in Block /\ h \in Block
  BY AboveRoot
<1>2. p \in d.index
  BY AboveRoot
<1>3. p \notin anc[h]
  <2>1. CASE h = d.root
    BY <1>2, <2>1, AboveRoot
  <2>2. CASE h \in d.index
    <3> SUFFICES ASSUME p \in anc[h] PROVE FALSE
      OBVIOUS
    <3>1. /\ lib[p] <= lib[h] /\ num[p] < num[h] /\ lib[p] \in Nat /\ lib[h] \in Nat
          /\ num[p] \in Nat /\ num[h] \in Nat
      BY <1>1, Ancestors
    <3>2. QED
      BY <2>2, <3>1 DEF first_preferred
  <2>3. QED
    BY <2>1, <2>2
<1>4. QED
  BY <1>2, <1>3

(* A block is marked valid that alone may make something irreversible, or  *)
(* that ends the only validated branch and is the best: if it does, it     *)
(* becomes the head.                                                       *)
LEMMA TargetMarked ==
  ASSUME NEW d, Tree(d), NEW t \in d.index,
         \/ \A c \in d.index \ {t} : lib[c] <= num[d.root]
         \/ d.validated \subseteq anc[t] /\ \A c \in d.index : ~first_preferred(c, t),
         NEW m, m = mark_valid(d, t)
  PROVE  /\ Tree(m) /\ m.root = d.root /\ m.index = d.index /\ t \in Valid(m)
         /\ \/ \A c \in m.index : lib[c] <= num[d.root]
            \/ /\ m.head = t
               /\ \A c \in m.index : lib[c] <= num[d.root] \/ lib[c] <= lib[t]
<1>1. /\ Tree(m) /\ m.root = d.root /\ m.index = d.index
      /\ m.validated = d.validated \cup {t} /\ t \in Valid(m)
  BY MarkTree DEF Valid
<1>2. t \in Block /\ d.index \subseteq Block /\ d.root \in Block /\ m.head \in d.index \cup {d.root}
  BY <1>1, AboveRoot DEF Tree, Valid
<1>3. \A c \in Block : lib[c] \in Nat /\ num[c] \in Nat /\ lib[c] <= num[c] /\ c \in anc[c]
  BY Ancestors
<1>4. CASE \A c \in d.index \ {t} : lib[c] <= num[d.root]
  <2>1. CASE lib[t] <= num[d.root]
    BY <1>1, <1>4, <2>1
  <2>2. CASE ~(lib[t] <= num[d.root])
    <3>1. ~first_preferred(t, m.head)
      BY <1>1 DEF Tree
    <3>2. lib[t] <= lib[m.head]
      BY <1>2, <1>3, <3>1 DEF first_preferred
    <3>3. m.head = t
      BY <1>2, <1>3, <1>4, <2>2, <3>2
    <3>4. QED
      BY <1>1, <1>2, <1>3, <1>4, <3>3
  <2>3. QED
    BY <2>1, <2>2
<1>5. CASE d.validated \subseteq anc[t] /\ \A c \in d.index : ~first_preferred(c, t)
  <2>1. m.validated \subseteq anc[t]
    BY <1>1, <1>2, <1>3, <1>5
  <2>2. m.head = t
    BY <1>1, <2>1, BestOnBranch
  <2>3. ASSUME NEW c \in d.index PROVE lib[c] <= lib[t]
    <3>1. ~(lib[c] > lib[t])
      BY <1>5 DEF first_preferred
    <3>2. lib[c] \in Nat /\ lib[t] \in Nat
      BY <1>2, <1>3
    <3>3. QED
      BY <3>1, <3>2
  <2>4. QED
    BY <1>1, <2>2, <2>3
<1>6. QED
  BY <1>4, <1>5

-----------------------------------------------------------------------------
(* The log.                                                                *)

(* The log's blocks are below its last one.                                *)
LEMMA LogFacts ==
  ASSUME Types, Chained
  PROVE  /\ LogHead \in Block /\ LogHead \in LogBlocks /\ Genesis \in LogBlocks
         /\ LogBlocks \subseteq Block
         /\ \A b \in LogBlocks : num[LogHead] <= num[b] => b = LogHead
<1>1. /\ Len(blog) \in Nat /\ 1 \in DOMAIN blog /\ Len(blog) \in DOMAIN blog
      /\ \A i \in DOMAIN blog : blog[i] \in Block
  BY DEF Types
<1>2. LogHead \in Block /\ LogHead \in LogBlocks /\ Genesis \in LogBlocks /\ LogBlocks \subseteq Block
  BY <1>1 DEF LogHead, LogBlocks, Chained
<1>3. ASSUME NEW b \in LogBlocks, num[LogHead] <= num[b] PROVE b = LogHead
  <2>1. b \in anc[LogHead] /\ b \in Block
    BY <1>2 DEF Chained
  <2>2. b = LogHead \/ num[b] < num[LogHead]
    BY <1>2, <2>1, Ancestors
  <2>3. num[b] \in Nat /\ num[LogHead] \in Nat
    BY <1>2, <2>1, Ancestors
  <2>4. QED
    BY <1>3, <2>2, <2>3
<1>4. QED
  BY <1>2, <1>3

(* A step that leaves the log alone.                                       *)
LEMMA SameLog ==
  ASSUME Chained, UNCHANGED blog
  PROVE  Chained' /\ LogHead' = LogHead /\ LogBlocks' = LogBlocks
BY DEF Chained, LogHead, LogBlocks

-----------------------------------------------------------------------------
(* What is left to show when a step ends at a given point.                 *)

(* An assertion fails: the process goes no further.                        *)
LEMMA ToFailed ==
  ASSUME CInv, UNCHANGED <<blog, file>>, pc' = "failed", Types', Tree(fdb'), Building',
         file = NoFile \/ UNCHANGED reversible
  PROVE  CInv'
<1>1. Chained' /\ LogHead' = LogHead /\ LogBlocks' = LogBlocks
  BY SameLog DEF CInv
<1>2. Stored'
  BY <1>1 DEF CInv, Stored, OnLog, Fresh, Low
<1>3. /\ Started' /\ Rooted' /\ Irreversible' /\ Resting' /\ Extending' /\ NewBranch'
      /\ OldBranch' /\ Applied' /\ Appending'
  BY DEF Started, Rooted, Irreversible, Resting, Extending, NewBranch, OldBranch, Applied,
         Appending, Starting, Running, Switching, Logging, Between
<1>4. QED
  BY <1>1, <1>2, <1>3 DEF CInv

(* The process ends: what it wrote must serve the next start.              *)
LEMMA ToDown ==
  ASSUME CInv, UNCHANGED blog, pc' = "down", Types', Tree(fdb'), pending' # "building",
         \/ file' = NoFile
         \/ /\ Tree(file') /\ OnLog(file')
            /\ Low(file'.index) \/ (file'.head = file'.root /\ reversible' = {})
  PROVE  CInv'
<1>1. Chained' /\ LogHead' = LogHead /\ LogBlocks' = LogBlocks
  BY SameLog DEF CInv
<1>2. Stored'
  BY <1>1 DEF CInv, Stored, OnLog, Fresh, Low
<1>3. /\ Started' /\ Rooted' /\ Irreversible' /\ Resting' /\ Extending' /\ NewBranch'
      /\ OldBranch' /\ Applied' /\ Appending' /\ Building'
  BY DEF Started, Rooted, Irreversible, Resting, Extending, NewBranch, OldBranch, Applied,
         Appending, Starting, Running, Switching, Logging, Between, Building
<1>4. QED
  BY <1>1, <1>2, <1>3 DEF CInv

(* A call ends, and nothing more has become irreversible.                  *)
LEMMA ToBetween ==
  ASSUME CInv, UNCHANGED <<blog, mode>>, pc' \in {"idle", "replay", "best_loop"}, Types', Tree(fdb'),
         file' = NoFile, pending' # "building" \/ (pc' = "idle" /\ mode = "SPECULATIVE"),
         fdb'.root = LogHead, LogHead \in anc[head'],
         mode = "SPECULATIVE" => /\ head' = fdb'.root \/ head' \in Valid(fdb')
                                 /\ Low(fdb'.index),
         mode = "IRREVERSIBLE" => /\ reversible' = {} /\ head' = LogHead /\ fdb'.head = LogHead
                                  /\ fdb'.validated \subseteq anc[LogHead]
  PROVE  CInv'
<1>1. Chained' /\ LogHead' = LogHead /\ LogBlocks' = LogBlocks
  BY SameLog DEF CInv
<1>2. /\ Stored' /\ Started' /\ Extending' /\ NewBranch' /\ OldBranch' /\ Applied' /\ Appending'
      /\ Building'
  BY DEF Stored, Started, Extending, NewBranch, OldBranch, Applied, Appending, Starting, Switching,
         Logging, Building
<1>3. Rooted' /\ Irreversible'
  BY <1>1 DEF Rooted, Irreversible, Running, Switching, Logging, Between
<1>4. Resting'
  BY <1>1 DEF Resting, HeadValid, Valid, Fresh, Low, Between
<1>5. QED
  BY <1>1, <1>2, <1>3, <1>4 DEF CInv

(* A call throws: back to the caller, or out of startup.                   *)
LEMMA Threw ==
  ASSUME CInv, Throw(fdb'), pc \in Running, UNCHANGED <<blog, mode>>, pending' # "building",
         Tree(fdb'), head' \in Block, reversible' \subseteq Block,
         fdb'.root = LogHead, LogHead \in anc[head'],
         ret = "idle" /\ mode = "SPECULATIVE" =>
           /\ head' = fdb'.root \/ head' \in Valid(fdb')
           /\ Low(fdb'.index),
         ret # "idle" => Low(fdb'.index) \/ (fdb'.head = fdb'.root /\ reversible' = {}),
         mode = "IRREVERSIBLE" => /\ reversible' = {} /\ head' = LogHead /\ fdb'.head = LogHead
                                  /\ fdb'.validated \subseteq anc[LogHead]
  PROVE  CInv'
<1>1. file = NoFile
  BY DEF CInv, Types, Running, Switching, Logging, Between
<1>2. Types'
  BY <1>1 DEF CInv, Types, Throw, Goto, Leave, NoBranches, Running, Between
<1>3. CASE ret = "idle"
  <2>1. pc' = "idle" /\ file' = NoFile
    BY <1>1, <1>3 DEF Throw, Goto
  <2>2. QED
    BY <1>2, <1>3, <2>1, ToBetween
<1>4. CASE ret # "idle"
  <2>1. pc' = "down" /\ file' = fdb' /\ OnLog(file')
    BY <1>4 DEF Throw, Goto, OnLog
  <2>2. QED
    BY <1>2, <1>4, <2>1, ToDown
<1>5. QED
  BY <1>3, <1>4

(* A fork switch goes on.                                                  *)
LEMMA ToSwitching ==
  ASSUME CInv, UNCHANGED <<blog, mode>>, pc' \in Switching \ {"extend"}, Types', Tree(fdb'),
         file' = NoFile, pending' # "building", mode = "SPECULATIVE",
         fdb'.root = LogHead, LogHead \in anc[head'], NewBranch', OldBranch'
  PROVE  CInv'
<1>1. Chained' /\ LogHead' = LogHead /\ LogBlocks' = LogBlocks
  BY SameLog DEF CInv
<1>2. /\ Stored' /\ Started' /\ Extending' /\ Applied' /\ Appending' /\ Building' /\ Resting'
  BY DEF Stored, Started, Extending, Applied, Appending, Starting, Switching,
         Logging, Building, Resting, Between
<1>3. Rooted' /\ Irreversible'
  BY <1>1 DEF Rooted, Irreversible, Running, Switching, Logging, Between
<1>4. QED
  BY <1>1, <1>2, <1>3 DEF CInv

(* A block was applied, or added in irreversible mode.                     *)
LEMMA ToLog ==
  ASSUME CInv, UNCHANGED <<blog, mode>>, pc' = "log", Types', Tree(fdb'),
         file' = NoFile, pending' # "building",
         fdb'.root = LogHead, LogHead \in anc[head'],
         mode = "SPECULATIVE" =>
           /\ head' \in Valid(fdb')
           /\ \/ Low(fdb'.index)
              \/ /\ fdb'.head = head'
                 /\ \A c \in fdb'.index : lib[c] <= num[LogHead] \/ lib[c] <= lib[head'],
         mode = "IRREVERSIBLE" => /\ reversible' = {} /\ head' = LogHead /\ fdb'.head = LogHead
                                  /\ fdb'.validated \subseteq anc[LogHead]
  PROVE  CInv'
<1>1. Chained' /\ LogHead' = LogHead /\ LogBlocks' = LogBlocks
  BY SameLog DEF CInv
<1>2. /\ Stored' /\ Started' /\ Extending' /\ NewBranch' /\ OldBranch' /\ Appending' /\ Building'
      /\ Resting'
  BY DEF Stored, Started, Extending, NewBranch, OldBranch, Appending, Starting, Switching,
         Logging, Building, Resting, Between
<1>3. Rooted' /\ Irreversible'
  BY <1>1 DEF Rooted, Irreversible, Running, Switching, Logging, Between
<1>4. Applied'
  BY <1>1 DEF Applied, Valid, Low
<1>5. QED
  BY <1>1, <1>2, <1>3, <1>4 DEF CInv

-----------------------------------------------------------------------------
(* The steps of maybe_switch_forks.                                        *)

(* What holds in all of them.                                              *)
LEMMA InSwitch ==
  ASSUME CInv, pc \in Switching
  PROVE  /\ file = NoFile /\ mode = "SPECULATIVE" /\ pending # "building"
         /\ fdb.root = LogHead /\ LogHead \in anc[head] /\ Tree(fdb) /\ pc \in Running
         /\ LogHead \in Block /\ head \in Block /\ fdb.index \subseteq Block
<1>1. LogHead \in Block
  BY LogFacts DEF CInv
<1>2. fdb.index \subseteq Block
  BY AboveRoot DEF CInv
<1>3. QED
  BY <1>1, <1>2 DEF CInv, Types, Irreversible, Building, Rooted, Running, Switching, Logging

(* Extend: the block fails and goes, or is applied.                        *)
LEMMA ExtendStep == CInv /\ Extend => CInv'
<1> SUFFICES ASSUME CInv, Extend PROVE CInv'
  OBVIOUS
<1>1. /\ file = NoFile /\ mode = "SPECULATIVE" /\ pending # "building"
      /\ fdb.root = LogHead /\ LogHead \in anc[head] /\ Tree(fdb) /\ pc \in Running
      /\ LogHead \in Block /\ head \in Block /\ fdb.index \subseteq Block
  BY InSwitch DEF Extend, Switching
<1>2. PICK t \in fdb.index :
        /\ todo = {t} /\ Extends(t) /\ HeadValid
        /\ \/ Low(fdb.index \ {t})
           \/ ret = "best_loop" /\ fdb.head = fdb.root /\ reversible = {} /\ Top(t)
  BY DEF Extend, CInv, Extending
<1>3. /\ t \in Block /\ t # Genesis /\ prev[t] = head
      /\ t \in anc[t] /\ anc[t] = {t} \cup anc[head] /\ t \notin anc[head]
  BY <1>1, <1>2, Child, Ancestors DEF Extends
<1>4. CASE pc' = "failed"
  <2>1. UNCHANGED <<chain, ret, branches, todo>>
    BY <1>2, <1>4 DEF Extend, Fail, Throw, Goto
  <2>2. Types' /\ Building'
    BY <1>1, <1>4, <2>1 DEF CInv, Types, Building, chain
  <2>3. QED
    BY <1>1, <1>4, <2>1, <2>2, ToFailed DEF chain
<1>5. CASE /\ ~RemoveThrows(fdb, t) /\ fdb' = remove(fdb, t) /\ Throw(fdb')
           /\ UNCHANGED <<invalid, mode, head, db, pending, reversible, blog>>
  <2>1. /\ Tree(fdb') /\ fdb'.root = fdb.root /\ fdb'.head = fdb.head
        /\ fdb'.index = {c \in fdb.index : t \notin anc[c]}
        /\ Valid(fdb') = {c \in Valid(fdb) : t \notin anc[c]}
    BY <1>1, <1>5, RemoveTree
  <2>2. head' = fdb'.root \/ head' \in Valid(fdb')
    BY <1>2, <1>3, <1>5, <2>1 DEF HeadValid
  <2>3. Low(fdb'.index) \/ (ret = "best_loop" /\ fdb'.head = fdb'.root /\ reversible' = {})
    BY <1>2, <1>3, <1>5, <2>1 DEF Low
  <2>4. reversible' \subseteq Block
    BY <1>5 DEF CInv, Types
  <2>5. QED
    BY <1>1, <1>5, <2>1, <2>2, <2>3, <2>4, Threw
<1>6. CASE /\ apply_block(t) /\ fdb' = mark_valid(fdb, t) /\ pc' = "log"
           /\ UNCHANGED <<ret, branches, todo, mode, pending, blog, file>>
  <2>1. \/ \A c \in fdb.index \ {t} : lib[c] <= num[fdb.root]
        \/ fdb.validated \subseteq anc[t] /\ \A c \in fdb.index : ~first_preferred(c, t)
    <3>1. fdb.head = fdb.root => fdb.validated \subseteq {fdb.root}
      BY <1>1, NoneValid
    <3>2. QED
      BY <1>1, <1>2, <1>3, <3>1 DEF Low, Top
  <2>2. /\ Tree(fdb') /\ fdb'.root = fdb.root /\ fdb'.index = fdb.index /\ t \in Valid(fdb')
        /\ \/ \A c \in fdb'.index : lib[c] <= num[fdb.root]
           \/ /\ fdb'.head = t
              /\ \A c \in fdb'.index : lib[c] <= num[fdb.root] \/ lib[c] <= lib[t]
    BY <1>1, <1>6, <2>1, TargetMarked
  <2>3. Types'
    BY <1>1, <1>3, <1>6 DEF apply_block, CInv, Types, Running
  <2>4. head' = t /\ LogHead \in anc[head']
    BY <1>1, <1>3, <1>6 DEF apply_block
  <2>5. QED
    BY <1>1, <1>6, <2>2, <2>3, <2>4, ToLog DEF Low
<1>7. QED
  BY <1>2, <1>4, <1>5, <1>6 DEF Extend, Fail, Goto

(* pop_block goes down to the root at most.                                *)
LEMMA PopAbove ==
  ASSUME CInv, pc \in Switching, CanPop, pop_block
  PROVE  head' \in Block /\ fdb.root \in anc[head'] /\ reversible' \subseteq Block
<1>1. head \in Block /\ reversible \subseteq Block /\ Tree(fdb)
  BY DEF CInv, Types
<1>2. prev[head] \in Block
  BY <1>1, Child DEF CanPop
<1>3. QED
  BY <1>1, <1>2, AboveRoot DEF CanPop, pop_block, Known

(* PopOld: the head stays above the root.                                  *)
LEMMA PopOldStep == CInv /\ PopOld => CInv'
<1> SUFFICES ASSUME CInv, PopOld PROVE CInv'
  OBVIOUS
<1>1. /\ file = NoFile /\ mode = "SPECULATIVE" /\ pending # "building"
      /\ fdb.root = LogHead /\ LogHead \in anc[head] /\ Tree(fdb) /\ pc \in Running
      /\ LogHead \in Block /\ head \in Block /\ fdb.index \subseteq Block
  BY InSwitch DEF PopOld, Switching
<1>2. CASE ~CanPop
  <2>1. pc' = "failed" /\ UNCHANGED <<chain, ret, branches, todo>>
    BY <1>2 DEF PopOld, Fail
  <2>2. Types' /\ Building'
    BY <1>1, <2>1 DEF CInv, Types, Building, chain
  <2>3. QED
    BY <1>1, <2>1, <2>2, ToFailed DEF chain
<1>3. CASE CanPop
  <2>1. pop_block /\ UNCHANGED <<invalid, mode, fdb, pending, blog, file, ret, branches>>
    BY <1>3 DEF PopOld, Fail
  <2>2. head' \in Block /\ fdb.root \in anc[head'] /\ reversible' \subseteq Block
    BY <1>3, <2>1, PopAbove DEF PopOld, Switching
  <2>3. \/ pc' = "pop" /\ todo' \subseteq todo
        \/ pc' = "apply" /\ todo' = branches.first
        \/ pc' = "failed" /\ UNCHANGED todo
    BY <1>3 DEF PopOld, Fail, Goto
  <2>4. Types' /\ (pc' = "failed" => Building')
    BY <1>1, <2>1, <2>2, <2>3 DEF CInv, Types, Running, Switching, Building
  <2>5. CASE pc' = "failed"
    BY <1>1, <2>1, <2>4, <2>5, ToFailed
  <2>6. CASE pc' \in {"pop", "apply"}
    <3>1. LogHead' = LogHead
      BY <2>1 DEF LogHead
    <3>2. NewBranch'
      BY <2>1, <2>3, <2>6, <3>1 DEF PopOld, CInv, NewBranch, Low, Top
    <3>3. OldBranch'
      BY <2>1, <2>3, <2>6, <3>1 DEF PopOld, CInv, OldBranch, Switching, Valid
    <3>4. QED
      BY <1>1, <2>1, <2>2, <2>4, <2>6, <3>2, <3>3, ToSwitching DEF Switching
  <2>7. QED
    BY <2>3, <2>5, <2>6
<1>4. QED
  BY <1>2, <1>3

(* The step to the old branch after a failure.                             *)
LEMMA ReversedStep ==
  ASSUME CInv, pc \in {"apply", "unapply"}, NEW h, Reversed(h),
         UNCHANGED <<mode, pending, blog, file>>, head' \in Block, reversible' \subseteq Block,
         Tree(fdb'), fdb'.root = LogHead, LogHead \in anc[head'],
         branches.second # {} =>
           /\ Low(fdb'.index)
           /\ \E s \in branches.second \cap Valid(fdb') :
                /\ branches.second \subseteq anc[s] /\ branches.first \cap anc[s] = {}
                /\ \A c \in branches.second : LogHead \in anc[c]
  PROVE  CInv'
<1>1. /\ file = NoFile /\ mode = "SPECULATIVE" /\ pending # "building"
  BY InSwitch DEF Switching
<1>2. CASE pc' = "failed"
  <2>1. UNCHANGED <<ret, branches, todo>>
    BY <1>2 DEF Reversed, Fail, Goto
  <2>2. Types' /\ Building'
    BY <1>1, <1>2, <2>1 DEF CInv, Types, Building
  <2>3. QED
    BY <1>1, <1>2, <2>2, ToFailed
<1>3. CASE pc' = "reapply"
  <2>1. branches.second # {} /\ todo' = branches.second /\ UNCHANGED <<ret, branches>>
    BY <1>3 DEF Reversed, Fail, Goto
  <2>2. Types'
    BY <1>1, <1>3, <2>1 DEF CInv, Types, Running, Switching
  <2>3. LogHead' = LogHead
    BY DEF LogHead
  <2>4. OldBranch' /\ NewBranch'
    BY <1>3, <2>1, <2>3 DEF OldBranch, NewBranch, Low, Valid
  <2>5. QED
    BY <1>1, <1>3, <2>2, <2>4, ToSwitching DEF Switching
<1>4. QED
  BY <1>2, <1>3 DEF Reversed, Fail, Goto

(* ApplyNew: the last block applied is the one the switch leads to.        *)
LEMMA ApplyNewStep == CInv /\ ApplyNew => CInv'
<1> SUFFICES ASSUME CInv, ApplyNew PROVE CInv'
  OBVIOUS
<1>1. /\ file = NoFile /\ mode = "SPECULATIVE" /\ pending # "building"
      /\ fdb.root = LogHead /\ LogHead \in anc[head] /\ Tree(fdb) /\ pc \in Running
      /\ LogHead \in Block /\ head \in Block /\ fdb.index \subseteq Block /\ pc = "apply"
  BY InSwitch DEF ApplyNew, Switching
<1>2. PICK t \in branches.first :
        /\ branches.first \subseteq anc[t] \cap fdb.index
        /\ t \in todo /\ todo \subseteq branches.first
        /\ \/ Low(fdb.index \ {t})
           \/ /\ ret = "best_loop" /\ branches.second = {}
              /\ fdb.validated \subseteq anc[t] /\ Top(t)
  BY <1>1 DEF CInv, NewBranch
<1>3. \/ branches.second = {}
      \/ \E s \in branches.second \cap Valid(fdb) :
           /\ branches.second \subseteq anc[s] /\ branches.first \cap anc[s] = {}
           /\ \A c \in branches.second : fdb.root \in anc[c]
  BY <1>1 DEF CInv, OldBranch, Switching
<1> DEFINE b == Lowest(todo)
           applied == {c \in branches.first : num[c] < num[b]}
<1>4. t \in Block /\ b \in todo /\ (\A c \in todo : num[b] <= num[c])
  BY <1>1, <1>2, LowestIn
<1>5. b \in branches.first /\ b \in fdb.index /\ b \in anc[t] /\ b \in Block
  BY <1>1, <1>2, <1>4
<1>6. \/ pc' = "failed" /\ UNCHANGED <<chain, ret, branches, todo>>
      \/ /\ ~RemoveThrows(fdb, b) /\ fdb' = remove(fdb, b)
         /\ IF applied = {} THEN Reversed(head)
            ELSE Goto("unapply") /\ todo' = applied /\ UNCHANGED <<ret, branches>>
         /\ UNCHANGED <<invalid, mode, head, db, pending, reversible, blog, file>>
      \/ /\ apply_block(b) /\ fdb' = mark_valid(fdb, b)
         /\ Goto(IF todo = {b} THEN "log" ELSE "apply")
         /\ todo' = todo \ {b} /\ UNCHANGED <<ret, branches>>
         /\ UNCHANGED <<invalid, mode, pending, blog, file>>
  BY Zenon DEF ApplyNew, Fail
<1> HIDE DEF b
<1>7. CASE pc' = "failed" /\ UNCHANGED <<chain, ret, branches, todo>>
  <2>1. Types' /\ Building'
    BY <1>1, <1>7 DEF CInv, Types, Building, chain
  <2>2. QED
    BY <1>1, <1>7, <2>1, ToFailed DEF chain
<1>8. CASE /\ ~RemoveThrows(fdb, b) /\ fdb' = remove(fdb, b)
           /\ IF applied = {} THEN Reversed(head)
              ELSE Goto("unapply") /\ todo' = applied /\ UNCHANGED <<ret, branches>>
           /\ UNCHANGED <<invalid, mode, head, db, pending, reversible, blog, file>>
  <2>1. /\ Tree(fdb') /\ fdb'.root = fdb.root
        /\ fdb'.index = {c \in fdb.index : b \notin anc[c]}
        /\ Valid(fdb') = {c \in Valid(fdb) : b \notin anc[c]}
    BY <1>1, <1>5, <1>8, RemoveTree
  <2>2. branches.second # {} =>
          /\ Low(fdb'.index)
          /\ \E s \in branches.second \cap Valid(fdb') :
               /\ branches.second \subseteq anc[s] /\ branches.first \cap anc[s] = {}
               /\ \A c \in branches.second : LogHead \in anc[c]
    <3> SUFFICES ASSUME branches.second # {}
                 PROVE  /\ Low(fdb'.index)
                        /\ \E s \in branches.second \cap Valid(fdb') :
                             /\ branches.second \subseteq anc[s] /\ branches.first \cap anc[s] = {}
                             /\ \A c \in branches.second : LogHead \in anc[c]
      OBVIOUS
    <3>1. Low(fdb'.index)
      BY <1>2, <1>5, <2>1 DEF Low
    <3>2. PICK s \in branches.second \cap Valid(fdb) :
           /\ branches.second \subseteq anc[s] /\ branches.first \cap anc[s] = {}
           /\ \A c \in branches.second : fdb.root \in anc[c]
      BY <1>3
    <3>3. s \in Valid(fdb')
      BY <1>5, <2>1, <3>2
    <3>4. QED
      BY <1>1, <3>1, <3>2, <3>3
  <2>3. head' \in Block /\ reversible' \subseteq Block
    BY <1>1, <1>8 DEF CInv, Types
  <2>4. CASE applied = {}
    BY <1>1, <1>8, <2>1, <2>2, <2>3, <2>4, ReversedStep
  <2>5. CASE applied # {}
    <3>1. pc' = "unapply" /\ todo' = applied /\ UNCHANGED <<ret, branches>>
      BY <1>8, <2>5 DEF Goto
    <3>2. Types'
      BY <1>1, <1>8, <2>3, <3>1 DEF CInv, Types, Running, Switching
    <3>3. LogHead' = LogHead
      BY <1>8 DEF LogHead
    <3>4. OldBranch' /\ NewBranch'
      BY <1>1, <2>1, <2>2, <3>1, <3>3 DEF OldBranch, NewBranch, Low, Valid
    <3>5. QED
      BY <1>1, <1>8, <2>1, <3>1, <3>2, <3>4, ToSwitching DEF Switching
  <2>6. QED
    BY <2>4, <2>5
<1>9. CASE /\ apply_block(b) /\ fdb' = mark_valid(fdb, b)
           /\ Goto(IF todo = {b} THEN "log" ELSE "apply")
           /\ todo' = todo \ {b} /\ UNCHANGED <<ret, branches>>
           /\ UNCHANGED <<invalid, mode, pending, blog, file>>
  <2>1. head' = b /\ head' \in Block /\ reversible' \subseteq Block
    BY <1>5, <1>9 DEF apply_block, CInv, Types
  <2>2. LogHead \in anc[head']
    BY <1>1, <1>5, <2>1, AboveRoot
  <2>3. pc' = (IF todo = {b} THEN "log" ELSE "apply")
    BY <1>9 DEF Goto
  <2>4. Types'
    BY <1>1, <1>9, <2>1, <2>3 DEF CInv, Types, Running, Switching
  <2>5. CASE todo = {b}
    <3>1. b = t
      BY <1>2, <2>5
    <3>2. \/ \A c \in fdb.index \ {t} : lib[c] <= num[fdb.root]
          \/ fdb.validated \subseteq anc[t] /\ \A c \in fdb.index : ~first_preferred(c, t)
      BY <1>1, <1>2 DEF Low, Top
    <3>3. /\ Tree(fdb') /\ fdb'.root = fdb.root /\ fdb'.index = fdb.index /\ t \in Valid(fdb')
          /\ \/ \A c \in fdb'.index : lib[c] <= num[fdb.root]
             \/ /\ fdb'.head = t
                /\ \A c \in fdb'.index : lib[c] <= num[fdb.root] \/ lib[c] <= lib[t]
      BY <1>1, <1>5, <1>9, <3>1, <3>2, TargetMarked
    <3>4. QED
      BY <1>1, <1>9, <2>1, <2>2, <2>3, <2>4, <2>5, <3>1, <3>3, ToLog DEF Low
  <2>6. CASE todo # {b}
    <3>1. b # t
      <4>1. PICK c \in todo : c # b
        BY <1>4, <2>6
      <4>2. SUFFICES ASSUME b = t PROVE FALSE
        OBVIOUS
      <4>3. c \in anc[t] /\ num[t] <= num[c]
        BY <1>2, <1>4, <4>1, <4>2
      <4>4. num[c] < num[t] /\ num[c] \in Nat /\ num[t] \in Nat
        BY <1>4, <4>1, <4>2, <4>3, Ancestors
      <4>5. QED
        BY <4>3, <4>4
    <3>2. /\ Tree(fdb') /\ fdb'.root = fdb.root /\ fdb'.index = fdb.index
          /\ fdb'.validated = fdb.validated \cup {b}
      BY <1>1, <1>5, <1>9, MarkTree
    <3>3. LogHead' = LogHead /\ pc' = "apply"
      BY <1>9, <2>3, <2>6 DEF LogHead
    <3>4. NewBranch'
      BY <1>2, <1>5, <1>9, <3>1, <3>2, <3>3 DEF NewBranch, Low, Top
    <3>5. OldBranch'
      BY <1>3, <1>9, <3>2, <3>3 DEF OldBranch, Valid
    <3>6. QED
      BY <1>1, <1>9, <2>1, <2>2, <2>4, <3>2, <3>3, <3>4, <3>5, ToSwitching DEF Switching
  <2>7. QED
    BY <2>5, <2>6
<1>10. QED
  BY <1>6, <1>7, <1>8, <1>9

(* PopNew: the head stays above the root.                                  *)
LEMMA PopNewStep == CInv /\ PopNew => CInv'
<1> SUFFICES ASSUME CInv, PopNew PROVE CInv'
  OBVIOUS
<1>1. /\ file = NoFile /\ mode = "SPECULATIVE" /\ pending # "building"
      /\ fdb.root = LogHead /\ LogHead \in anc[head] /\ Tree(fdb) /\ pc \in Running
      /\ LogHead \in Block /\ head \in Block /\ fdb.index \subseteq Block /\ pc = "unapply"
  BY InSwitch DEF PopNew, Switching
<1>2. CASE ~CanPop
  <2>1. pc' = "failed" /\ UNCHANGED <<chain, ret, branches, todo>>
    BY <1>2 DEF PopNew, Fail
  <2>2. Types' /\ Building'
    BY <1>1, <2>1 DEF CInv, Types, Building, chain
  <2>3. QED
    BY <1>1, <2>1, <2>2, ToFailed DEF chain
<1>3. CASE CanPop
  <2>1. pop_block /\ UNCHANGED <<invalid, mode, fdb, pending, blog, file>>
    BY <1>3 DEF PopNew
  <2>2. head' \in Block /\ fdb.root \in anc[head'] /\ reversible' \subseteq Block
    BY <1>1, <1>3, <2>1, PopAbove DEF Switching
  <2>3. branches.second # {} =>
          /\ Low(fdb.index)
          /\ \E s \in branches.second \cap Valid(fdb) :
               /\ branches.second \subseteq anc[s] /\ branches.first \cap anc[s] = {}
               /\ \A c \in branches.second : LogHead \in anc[c]
    BY <1>1 DEF CInv, OldBranch, Switching
  <2>4. CASE Reversed(head')
    BY <1>1, <2>1, <2>2, <2>3, <2>4, ReversedStep
  <2>5. CASE pc' = "unapply" /\ todo' \subseteq todo /\ UNCHANGED <<ret, branches>>
    <3>1. Types'
      BY <1>1, <2>1, <2>2, <2>5 DEF CInv, Types, Running, Switching
    <3>2. LogHead' = LogHead
      BY <2>1 DEF LogHead
    <3>3. OldBranch' /\ NewBranch'
      BY <1>1, <2>1, <2>3, <2>5, <3>2 DEF OldBranch, NewBranch, Low, Valid
    <3>4. QED
      BY <1>1, <2>1, <2>2, <2>5, <3>1, <3>3, ToSwitching DEF Switching
  <2>6. QED
    BY <1>3, <2>4, <2>5 DEF PopNew, Goto
<1>4. QED
  BY <1>2, <1>3

(* ReapplyOld: the last block applied is the old head, still validated.    *)
LEMMA ReapplyOldStep == CInv /\ ReapplyOld => CInv'
<1> SUFFICES ASSUME CInv, ReapplyOld PROVE CInv'
  OBVIOUS
<1>1. /\ file = NoFile /\ mode = "SPECULATIVE" /\ pending # "building"
      /\ fdb.root = LogHead /\ LogHead \in anc[head] /\ Tree(fdb) /\ pc \in Running
      /\ LogHead \in Block /\ head \in Block /\ fdb.index \subseteq Block /\ pc = "reapply"
  BY InSwitch DEF ReapplyOld, Switching
<1>2. PICK s \in branches.second \cap Valid(fdb) :
        /\ branches.second \subseteq anc[s] /\ branches.first \cap anc[s] = {}
        /\ \A c \in branches.second : fdb.root \in anc[c]
        /\ s \in todo /\ todo \subseteq branches.second /\ Low(fdb.index)
  BY <1>1 DEF CInv, OldBranch, Switching
<1> DEFINE b == Lowest(todo)
<1>3. s \in Block /\ todo \subseteq Block /\ b \in todo /\ (\A c \in todo : num[b] <= num[c])
  BY <1>1, <1>2, LowestIn DEF CInv, Types
<1>4. \/ pc' = "failed" /\ UNCHANGED <<chain, ret, branches, todo>>
      \/ /\ apply_block(b) /\ UNCHANGED <<invalid, mode, fdb, pending, blog>>
         /\ todo = {b} /\ Throw(fdb)
      \/ /\ apply_block(b) /\ UNCHANGED <<invalid, mode, fdb, pending, blog>>
         /\ todo # {b} /\ Goto("reapply") /\ todo' = todo \ {b} /\ UNCHANGED <<ret, branches, file>>
  BY Zenon DEF ReapplyOld, Fail
<1> HIDE DEF b
<1>5. CASE pc' = "failed" /\ UNCHANGED <<chain, ret, branches, todo>>
  <2>1. Types' /\ Building'
    BY <1>1, <1>5 DEF CInv, Types, Building, chain
  <2>2. QED
    BY <1>1, <1>5, <2>1, ToFailed DEF chain
<1>6. ASSUME apply_block(b)
      PROVE  head' = b /\ head' \in Block /\ LogHead \in anc[head'] /\ reversible' \subseteq Block
  BY <1>1, <1>2, <1>3, <1>6 DEF apply_block, CInv, Types
<1>7. CASE /\ apply_block(b) /\ UNCHANGED <<invalid, mode, fdb, pending, blog>>
           /\ todo = {b} /\ Throw(fdb)
  <2>1. head' \in Valid(fdb')
    BY <1>2, <1>6, <1>7
  <2>2. Low(fdb'.index)
    BY <1>2, <1>7
  <2>3. QED
    BY <1>1, <1>6, <1>7, <2>1, <2>2, Threw
<1>8. CASE /\ apply_block(b) /\ UNCHANGED <<invalid, mode, fdb, pending, blog>>
           /\ todo # {b} /\ Goto("reapply") /\ todo' = todo \ {b} /\ UNCHANGED <<ret, branches, file>>
  <2>1. b # s
    <3>1. PICK c \in todo : c # b
      BY <1>3, <1>8
    <3>2. SUFFICES ASSUME b = s PROVE FALSE
      OBVIOUS
    <3>3. c \in anc[s] /\ num[s] <= num[c]
      BY <1>2, <1>3, <3>1, <3>2
    <3>4. num[c] < num[s] /\ num[c] \in Nat /\ num[s] \in Nat
      BY <1>3, <3>1, <3>2, <3>3, Ancestors
    <3>5. QED
      BY <3>3, <3>4
  <2>2. pc' = "reapply" /\ LogHead' = LogHead
    BY <1>8 DEF Goto, LogHead
  <2>3. Types'
    BY <1>1, <1>6, <1>8, <2>2 DEF CInv, Types, Running, Switching
  <2>4. OldBranch' /\ NewBranch'
    BY <1>2, <1>8, <2>1, <2>2 DEF OldBranch, NewBranch, Low, Valid
  <2>5. QED
    BY <1>1, <1>6, <1>8, <2>2, <2>3, <2>4, ToSwitching DEF Switching
<1>9. QED
  BY <1>4, <1>5, <1>7, <1>8

-----------------------------------------------------------------------------
(* log_irreversible.                                                       *)

(* What holds in the steps of log_irreversible.                            *)
LEMMA InLog ==
  ASSUME CInv, pc \in Logging \cup {"log"}
  PROVE  /\ file = NoFile /\ pending # "building" /\ mode \in {"SPECULATIVE", "IRREVERSIBLE"}
         /\ LogHead \in anc[head] /\ Tree(fdb) /\ pc \in Running
         /\ LogHead \in Block /\ head \in Block /\ fdb.index \subseteq Block
         /\ ret \in {"idle", "replay", "best_loop"}
         /\ mode = "IRREVERSIBLE" => /\ reversible = {} /\ head = LogHead /\ fdb.head = LogHead
                                     /\ fdb.validated \subseteq anc[LogHead]
<1>1. LogHead \in Block
  BY LogFacts DEF CInv
<1>2. fdb.index \subseteq Block
  BY AboveRoot DEF CInv
<1>3. QED
  BY <1>1, <1>2 DEF CInv, Types, Irreversible, Building, Rooted, Running, Switching, Logging

(* log_irreversible goes on.                                               *)
LEMMA ToLogging ==
  ASSUME CInv, pc' \in Logging, Types', Chained', Tree(fdb'), UNCHANGED mode,
         file' = NoFile, pending' # "building", LogHead' \in anc[head'], Appending',
         mode = "IRREVERSIBLE" => /\ reversible' = {} /\ head' = LogHead' /\ fdb'.head = LogHead'
                                  /\ fdb'.validated \subseteq anc[LogHead']
  PROVE  CInv'
<1>1. /\ Stored' /\ Started' /\ Extending' /\ NewBranch' /\ OldBranch' /\ Building'
      /\ Resting' /\ Applied'
  BY DEF Stored, Started, Extending, NewBranch, OldBranch, Starting, Switching,
         Logging, Building, Resting, Between, Applied
<1>2. Rooted' /\ Irreversible'
  BY DEF Rooted, Irreversible, Running, Switching, Logging, Between
<1>3. QED
  BY <1>1, <1>2 DEF CInv

(* LogIrreversible: what it will append is on the branch of the head.      *)
LEMMA LogIrreversibleStep == CInv /\ LogIrreversible => CInv'
<1> SUFFICES ASSUME CInv, LogIrreversible PROVE CInv'
  OBVIOUS
<1>1. /\ file = NoFile /\ pending # "building" /\ mode \in {"SPECULATIVE", "IRREVERSIBLE"}
      /\ LogHead \in anc[head] /\ Tree(fdb) /\ pc = "log"
      /\ LogHead \in Block /\ head \in Block /\ fdb.index \subseteq Block
      /\ ret \in {"idle", "replay", "best_loop"}
      /\ mode = "IRREVERSIBLE" => /\ reversible = {} /\ head = LogHead /\ fdb.head = LogHead
                                  /\ fdb.validated \subseteq anc[LogHead]
  BY InLog DEF LogIrreversible
<1>2. fdb.root = LogHead
  BY <1>1 DEF CInv, Rooted, Running, Logging
<1> DEFINE f == ForkHead
<1>3. UNCHANGED <<invalid, mode, fdb, head, db, pending, reversible, blog, file>>
  BY DEF LogIrreversible, chain
<1>4. mode = "SPECULATIVE" =>
        /\ head \in Valid(fdb) /\ f = fdb.head
        /\ \/ Low(fdb.index)
           \/ /\ fdb.head = head
              /\ \A c \in fdb.index : lib[c] <= num[LogHead] \/ lib[c] <= lib[head]
  BY <1>1 DEF CInv, Applied, ForkHead
<1>5. f \in fdb.index \cup {fdb.root}
  <2>1. pending_head(fdb) \in fdb.index \cup {fdb.root}
    BY <1>1, PendingTree
  <2>2. QED
    BY <1>1, <2>1 DEF ForkHead, Tree, Valid
<1>6. \A c \in Block : lib[c] \in Nat /\ num[c] \in Nat /\ lib[c] <= num[c]
  BY Ancestors
<1>7. f \in Block
  BY <1>1, <1>2, <1>5
<1>8. CASE lib[f] <= num[LogHead]
  <2>1. Return
    BY <1>2, <1>8 DEF LogIrreversible
  <2>2. pc' = ret /\ Types'
    BY <1>1, <1>3, <2>1 DEF Return, Goto, Leave, NoBranches, CInv, Types, Running, Between
  <2>3. mode = "SPECULATIVE" => Low(fdb.index)
    <3> SUFFICES ASSUME mode = "SPECULATIVE", NEW c \in fdb.index,
                        fdb.head = head, lib[c] <= lib[head]
                 PROVE  lib[c] <= num[LogHead]
      BY <1>4 DEF Low
    <3>1. lib[head] <= num[LogHead] /\ c \in Block
      BY <1>1, <1>4, <1>8
    <3>2. QED
      BY <1>1, <1>6, <3>1
  <2>4. QED
    BY <1>1, <1>2, <1>3, <1>4, <2>2, <2>3, ToBetween DEF Valid
<1>9. CASE ~(lib[f] <= num[LogHead])
  <2>1. /\ pc' = "log_block" /\ UNCHANGED <<ret, branches>>
        /\ todo' = {b \in fetch_branch(fdb, f) : num[b] <= lib[f]}
    BY <1>2, <1>9 DEF LogIrreversible, Goto
  <2>2. f \in fdb.index /\ num[LogHead] < lib[f]
    BY <1>1, <1>2, <1>5, <1>6, <1>7, <1>9
  <2>3. LogHead \in anc[f] /\ anc[f] \ anc[LogHead] \subseteq fdb.index /\ anc[f] \subseteq Block
    BY <1>1, <1>2, <1>7, <2>2, Ancestors DEF Tree
  <2>4. ASSUME NEW b \in anc[f]
        PROVE  b \in fetch_branch(fdb, f) <=> num[LogHead] < num[b]
    <3>1. b \in fetch_branch(fdb, f) => num[LogHead] < num[b]
      BY <1>1, <1>2, AboveRoot DEF fetch_branch
    <3>2. ASSUME num[LogHead] < num[b] PROVE b \in fetch_branch(fdb, f)
      <4>1. b \in Block /\ num[b] \in Nat /\ num[LogHead] \in Nat
        BY <1>1, <1>6, <2>3
      <4>2. LogHead \in anc[b]
        BY <1>7, <2>3, <3>2, <4>1, OnOneBranch
      <4>3. b \notin anc[LogHead]
        BY <1>1, <3>2, <4>1, Ancestors
      <4>4. anc[LogHead] \subseteq anc[b]
        BY <4>1, <4>2, Ancestors
      <4>5. QED
        BY <2>2, <2>3, <4>3, <4>4 DEF fetch_branch
    <3>3. QED
      BY <3>1, <3>2
  <2>5. todo' = {b \in anc[f] : num[LogHead] < num[b] /\ num[b] <= lib[f]}
    BY <2>1, <2>4 DEF fetch_branch
  <2>6. /\ \A c \in fdb.index : lib[c] <= lib[f]
        /\ mode = "SPECULATIVE" => f = fdb.head /\ f = head /\ f \in Valid(fdb)
    <3>1. CASE mode = "SPECULATIVE"
      <4>1. ~Low(fdb.index)
        BY <1>9, <2>2, <3>1 DEF Low
      <4>2. f = head /\ f = fdb.head /\ f \in Valid(fdb)
        BY <1>4, <3>1, <4>1
      <4>3. ASSUME NEW c \in fdb.index PROVE lib[c] <= lib[f]
        <5>1. lib[c] <= num[LogHead] \/ lib[c] <= lib[f]
          BY <1>4, <3>1, <4>1, <4>2
        <5>2. lib[c] \in Nat /\ lib[f] \in Nat /\ num[LogHead] \in Nat
          BY <1>1, <1>6, <1>7
        <5>3. QED
          BY <2>2, <5>1, <5>2
      <4>4. QED
        BY <4>2, <4>3
    <3>2. CASE mode = "IRREVERSIBLE"
      <4>1. \A c \in fdb.index : ~first_preferred(c, f)
        BY <1>1, <3>2, PendingTree DEF ForkHead
      <4>2. QED
        BY <1>1, <1>6, <1>7, <3>2, <4>1 DEF first_preferred
    <3>3. QED
      BY <1>1, <3>1, <3>2
  <2>7. Types'
    BY <1>1, <1>3, <2>1, <2>3, <2>5 DEF CInv, Types, Running, Logging
  <2>8. Chained' /\ LogHead' = LogHead
    BY <1>3, SameLog DEF CInv
  <2> HIDE DEF f
  <2>9. Appending'
    BY <1>1, <1>2, <1>3, <2>1, <2>2, <2>3, <2>5, <2>6, <2>8 DEF Appending, Valid
  <2>10. QED
    BY <1>1, <1>3, <2>1, <2>7, <2>8, <2>9, ToLogging DEF Logging
<1>10. QED
  BY <1>8, <1>9

(* A child of the log's last block is appended.                            *)
LEMMA LogGrows ==
  ASSUME Types, Chained, NEW b \in Block, b # Genesis, prev[b] = LogHead, blog' = Append(blog, b)
  PROVE  Chained' /\ LogHead' = b /\ blog' \in Seq(Block) /\ blog' # <<>>
<1> DEFINE n == Len(blog)
<1>1. blog \in Seq(Block) /\ n \in Nat /\ n >= 1 /\ DOMAIN blog = 1 .. n
  BY DEF Types
<1>2. /\ blog' \in Seq(Block) /\ Len(blog') = n + 1 /\ DOMAIN blog' = 1 .. n + 1
      /\ \A i \in 1 .. n : blog'[i] = blog[i]
      /\ blog'[n + 1] = b
  BY <1>1
<1> HIDE DEF n
<1>3. blog' # <<>> /\ LogHead' = b
  BY <1>1, <1>2 DEF LogHead
<1>4. blog[n] = LogHead
  BY DEF LogHead, n
<1>5. ASSUME NEW i \in 2 .. n + 1 PROVE blog'[i] # Genesis /\ prev[blog'[i]] = blog'[i - 1]
  <2>1. CASE i = n + 1
    BY <1>1, <1>2, <1>4, <2>1
  <2>2. CASE i \in 2 .. n
    <3>1. blog[i] # Genesis /\ prev[blog[i]] = blog[i - 1]
      BY <2>2 DEF Chained, n
    <3>2. i \in 1 .. n /\ i - 1 \in 1 .. n
      BY <1>1, <2>2
    <3>3. QED
      BY <1>2, <3>1, <3>2
  <2>3. QED
    BY <1>1, <2>1, <2>2
<1>6. blog'[1] = Genesis
  BY <1>1, <1>2 DEF Chained
<1>7. LogBlocks' \subseteq anc[b]
  <2>1. anc[b] = {b} \cup anc[LogHead]
    BY Child
  <2>2. \A i \in 1 .. n : blog[i] \in anc[LogHead]
    BY <1>1 DEF Chained, LogBlocks
  <2>3. \A i \in 1 .. n + 1 : blog'[i] \in anc[b]
    BY <1>1, <1>2, <2>1, <2>2
  <2>4. QED
    BY <1>2, <2>3 DEF LogBlocks
<1>8. Chained'
  BY <1>2, <1>3, <1>5, <1>6, <1>7 DEF Chained
<1>9. QED
  BY <1>2, <1>3, <1>8

(* LogBlock: the lowest block left is the child of the log's last one.     *)
LEMMA LogBlockStep == CInv /\ LogBlock => CInv'
<1> SUFFICES ASSUME CInv, LogBlock PROVE CInv'
  OBVIOUS
<1>1. /\ file = NoFile /\ pending # "building" /\ mode \in {"SPECULATIVE", "IRREVERSIBLE"}
      /\ LogHead \in anc[head] /\ Tree(fdb) /\ pc \in Running /\ pc = "log_block"
      /\ LogHead \in Block /\ head \in Block /\ fdb.index \subseteq Block
      /\ ret \in {"idle", "replay", "best_loop"}
      /\ mode = "IRREVERSIBLE" => /\ reversible = {} /\ head = LogHead /\ fdb.head = LogHead
                                  /\ fdb.validated \subseteq anc[LogHead]
  BY InLog DEF LogBlock, Logging
<1>2. PICK f \in fdb.index :
        /\ LogHead \in anc[f] /\ (LogHead = fdb.root \/ LogHead \in fdb.index)
        /\ num[LogHead] < lib[f]
        /\ todo = {b \in anc[f] : num[LogHead] < num[b] /\ num[b] <= lib[f]}
        /\ \A c \in fdb.index : lib[c] <= lib[f]
        /\ mode = "SPECULATIVE" => f = fdb.head /\ f = head /\ f \in Valid(fdb)
  BY <1>1 DEF CInv, Appending, Logging
<1>3. /\ f \in Block /\ anc[f] \subseteq Block /\ lib[f] \in Nat /\ num[f] \in Nat
      /\ num[LogHead] \in Nat /\ lib[f] <= num[f]
  BY <1>1, <1>2, Ancestors
<1> DEFINE b == Lowest(todo)
<1>4. PICK c \in anc[f] : c # Genesis /\ prev[c] = LogHead /\ num[c] = num[LogHead] + 1
  BY <1>2, <1>3, NextOnBranch
<1>5. c \in todo
  BY <1>2, <1>3, <1>4
<1>6. b \in todo /\ num[b] <= num[c]
  BY <1>2, <1>3, <1>5, LowestIn
<1> HIDE DEF b
<1>7. b = c
  <2>1. b \in anc[f] /\ num[LogHead] < num[b] /\ num[b] \in Nat
    BY <1>2, <1>3, <1>6, Ancestors
  <2>2. num[b] = num[c]
    BY <1>3, <1>4, <1>6, <2>1
  <2>3. QED
    BY <1>3, <2>1, <2>2, OnOneBranch
<1>8. /\ b \in Block /\ b \in anc[f] /\ b # Genesis /\ prev[b] = LogHead
      /\ num[b] = num[LogHead] + 1 /\ num[b] <= lib[f]
      /\ anc[b] = {b} \cup anc[LogHead] /\ b \notin anc[LogHead]
  BY <1>2, <1>3, <1>4, <1>6, <1>7, Child
<1>9. fdb.root \in anc[LogHead] /\ b \in fdb.index
  <2>1. fdb.root \in anc[LogHead]
    BY <1>1, <1>2, AboveRoot
  <2>2. anc[fdb.root] \subseteq anc[LogHead]
    BY <1>1, <2>1, Ancestors
  <2>3. QED
    BY <1>1, <1>2, <1>8, <2>1, <2>2 DEF Tree
<1>10. \/ /\ mode = "IRREVERSIBLE" /\ fdb' = advanced(fdb, LogHead) /\ Throw(fdb')
          /\ UNCHANGED <<invalid, mode, head, db, pending, reversible, blog>>
       \/ pc' = "failed" /\ UNCHANGED <<chain, ret, branches, todo>>
       \/ /\ IF mode = "IRREVERSIBLE" THEN head' = b /\ fdb' = mark_valid(fdb, b)
             ELSE UNCHANGED <<head, fdb>>
          /\ blog' = Append(blog, b) /\ pc' = "trim" /\ UNCHANGED <<ret, branches, todo>>
          /\ UNCHANGED <<invalid, mode, pending, reversible, file>>
  BY Zenon DEF LogBlock, Fail, Goto, b
<1>11. CASE /\ mode = "IRREVERSIBLE" /\ fdb' = advanced(fdb, LogHead) /\ Throw(fdb')
            /\ UNCHANGED <<invalid, mode, head, db, pending, reversible, blog>>
  <2>1. /\ Tree(fdb') /\ fdb'.root = LogHead /\ fdb'.head = LogHead
        /\ fdb'.validated \subseteq fdb.validated
    <3>1. CASE LogHead = fdb.root
      BY <1>1, <1>11, <3>1 DEF advanced
    <3>2. CASE LogHead # fdb.root
      <4>1. LogHead \in fdb.index /\ LogHead \in anc[fdb.head]
        BY <1>1, <1>2, <1>11, <3>2, Ancestors
      <4>2. fdb' = advance_root(fdb, LogHead)
        BY <1>11, <3>2 DEF advanced
      <4>3. QED
        BY <1>1, <1>11, <4>1, <4>2, AdvanceTree
    <3>3. QED
      BY <3>1, <3>2
  <2>2. fdb'.validated \subseteq anc[LogHead] /\ reversible' = {} /\ head' = LogHead
    BY <1>1, <1>11, <2>1
  <2>3. QED
    BY <1>1, <1>11, <2>1, <2>2, Threw
<1>12. CASE pc' = "failed" /\ UNCHANGED <<chain, ret, branches, todo>>
  <2>1. Types' /\ Building'
    BY <1>1, <1>12 DEF CInv, Types, Building, chain
  <2>2. QED
    BY <1>1, <1>12, <2>1, ToFailed DEF chain
<1>13. CASE /\ IF mode = "IRREVERSIBLE" THEN head' = b /\ fdb' = mark_valid(fdb, b)
               ELSE UNCHANGED <<head, fdb>>
            /\ blog' = Append(blog, b) /\ pc' = "trim" /\ UNCHANGED <<ret, branches, todo>>
            /\ UNCHANGED <<invalid, mode, pending, reversible, file>>
  <2>1. Chained' /\ LogHead' = b /\ blog' \in Seq(Block) /\ blog' # <<>>
    BY <1>8, <1>13, LogGrows DEF CInv
  <2>2. Tree(fdb') /\ fdb'.root = fdb.root /\ fdb'.index = fdb.index
    BY <1>1, <1>9, <1>13, MarkTree
  <2>3. mode = "IRREVERSIBLE" => /\ reversible' = {} /\ head' = LogHead' /\ fdb'.head = LogHead'
                                 /\ fdb'.validated \subseteq anc[LogHead']
    <3> SUFFICES ASSUME mode = "IRREVERSIBLE"
                 PROVE  /\ reversible' = {} /\ head' = LogHead' /\ fdb'.head = LogHead'
                        /\ fdb'.validated \subseteq anc[LogHead']
      OBVIOUS
    <3>1. fdb'.validated = fdb.validated \cup {b}
      BY <1>1, <1>9, <1>13, MarkTree
    <3>2. fdb'.validated \subseteq anc[b] /\ b \in Valid(fdb')
      BY <1>1, <1>8, <1>9, <2>2, <3>1 DEF Valid
    <3>3. fdb'.head = b
      BY <2>2, <3>2, BestOnBranch
    <3>4. QED
      BY <1>1, <1>13, <2>1, <3>2, <3>3
  <2>4. LogHead' \in anc[head'] /\ head' \in Block
    BY <1>1, <1>2, <1>8, <1>13, <2>1
  <2>5. Types'
    BY <1>1, <1>13, <2>1, <2>4 DEF CInv, Types, Running, Logging
  <2>6. Appending'
    <3>1. todo' = {x \in anc[f] : num[b] <= num[x] /\ num[x] <= lib[f]}
      <4>1. \A x \in anc[f] : num[x] \in Nat
        BY <1>3, Ancestors
      <4>2. \A x \in anc[f] : num[LogHead] < num[x] <=> num[b] <= num[x]
        BY <1>3, <1>8, <4>1
      <4>3. QED
        BY <1>2, <1>13, <4>2
    <3>2. mode' = "SPECULATIVE" => f = fdb'.head /\ f = head' /\ f \in Valid(fdb')
      BY <1>2, <1>13
    <3>3. QED
      BY <1>2, <1>8, <1>9, <1>13, <2>1, <2>2, <3>1, <3>2 DEF Appending, Valid
  <2>7. QED
    BY <1>1, <1>13, <2>1, <2>2, <2>3, <2>4, <2>5, <2>6, ToLogging DEF Logging
<1>14. QED
  BY <1>10, <1>11, <1>12, <1>13

(* TrimReversible: at the end the log's last block becomes the root.       *)
LEMMA TrimStep == CInv /\ TrimReversible => CInv'
<1> SUFFICES ASSUME CInv, TrimReversible PROVE CInv'
  OBVIOUS
<1>1. /\ file = NoFile /\ pending # "building" /\ mode \in {"SPECULATIVE", "IRREVERSIBLE"}
      /\ LogHead \in anc[head] /\ Tree(fdb) /\ pc \in Running /\ pc = "trim"
      /\ LogHead \in Block /\ head \in Block /\ fdb.index \subseteq Block
      /\ ret \in {"idle", "replay", "best_loop"}
      /\ mode = "IRREVERSIBLE" => /\ reversible = {} /\ head = LogHead /\ fdb.head = LogHead
                                  /\ fdb.validated \subseteq anc[LogHead]
  BY InLog DEF TrimReversible, Logging
<1>2. PICK f \in fdb.index :
        /\ LogHead \in anc[f] /\ LogHead \in fdb.index /\ num[LogHead] <= lib[f]
        /\ todo = {b \in anc[f] : num[LogHead] <= num[b] /\ num[b] <= lib[f]}
        /\ \A c \in fdb.index : lib[c] <= lib[f]
        /\ mode = "SPECULATIVE" => f = fdb.head /\ f = head /\ f \in Valid(fdb)
  BY <1>1 DEF CInv, Appending, Logging
<1>3. /\ f \in Block /\ anc[f] \subseteq Block /\ lib[f] \in Nat /\ num[f] \in Nat
      /\ num[LogHead] \in Nat /\ lib[f] <= num[f] /\ \A x \in anc[f] : num[x] \in Nat
  BY <1>1, <1>2, Ancestors
<1> DEFINE b == Lowest(todo)
<1>4. LogHead \in todo
  BY <1>2, <1>3
<1>5. b \in todo /\ num[b] <= num[LogHead]
  BY <1>2, <1>3, <1>4, LowestIn
<1> HIDE DEF b
<1>6. b = LogHead
  <2>1. b \in anc[f] /\ num[b] = num[LogHead]
    BY <1>2, <1>3, <1>5
  <2>2. QED
    BY <1>2, <1>3, <2>1, OnOneBranch
<1>7. /\ UNCHANGED <<invalid, mode, head, db, pending, blog, file>>
      /\ reversible' \subseteq reversible
  BY DEF TrimReversible
<1>8. reversible' \subseteq Block /\ Chained' /\ LogHead' = LogHead
  BY <1>7, SameLog DEF CInv, Types
<1>9. \/ todo # {b} /\ pc' = "log_block" /\ todo' = todo \ {b} /\ UNCHANGED <<ret, branches, fdb>>
      \/ pc' = "failed" /\ UNCHANGED <<ret, branches, todo, fdb>>
      \/ todo = {b} /\ fdb' = advanced(fdb, LogHead) /\ Return
  BY Zenon DEF TrimReversible, Fail, Goto, b
<1>10. CASE todo # {b} /\ pc' = "log_block" /\ todo' = todo \ {b} /\ UNCHANGED <<ret, branches, fdb>>
  <2>1. \A x \in anc[f] : x # LogHead => num[x] # num[LogHead]
    BY <1>2, <1>3, OnOneBranch
  <2>2. todo' = {x \in anc[f] : num[LogHead] < num[x] /\ num[x] <= lib[f]}
    BY <1>2, <1>3, <1>6, <1>10, <2>1
  <2>3. num[LogHead] < lib[f]
    <3>1. PICK x \in todo' : TRUE
      BY <1>5, <1>10
    <3>2. x \in anc[f] /\ num[LogHead] < num[x] /\ num[x] <= lib[f]
      BY <2>2, <3>1
    <3>3. QED
      BY <1>3, <3>2
  <2>4. Appending'
    BY <1>2, <1>7, <1>8, <1>10, <2>2, <2>3 DEF Appending, Valid
  <2>5. Types'
    BY <1>1, <1>7, <1>8, <1>10 DEF CInv, Types, Running, Logging
  <2>6. QED
    BY <1>1, <1>7, <1>8, <1>10, <2>4, <2>5, ToLogging DEF Logging
<1>11. CASE pc' = "failed" /\ UNCHANGED <<ret, branches, todo, fdb>>
  <2>1. Types' /\ Building'
    BY <1>1, <1>7, <1>8, <1>11 DEF CInv, Types, Building
  <2>2. QED
    BY <1>1, <1>7, <1>11, <2>1, ToFailed
<1>12. CASE todo = {b} /\ fdb' = advanced(fdb, LogHead) /\ Return
  <2>1. num[LogHead] = lib[f]
    <3> SUFFICES ASSUME num[LogHead] < lib[f] PROVE FALSE
      BY <1>2, <1>3
    <3>1. PICK c \in anc[f] : prev[c] = LogHead /\ num[c] = num[LogHead] + 1
      BY <1>2, <1>3, NextOnBranch
    <3>2. c \in todo /\ c # LogHead
      BY <1>2, <1>3, <3>1
    <3>3. QED
      BY <1>6, <1>12, <3>2
  <2>2. LogHead \in anc[fdb.head] /\ LogHead # fdb.root
    BY <1>1, <1>2, Ancestors DEF Tree
  <2>3. /\ Tree(fdb') /\ fdb'.root = LogHead /\ fdb'.head = fdb.head
        /\ fdb'.index \subseteq fdb.index /\ fdb'.validated \subseteq fdb.validated
    BY <1>1, <1>2, <1>12, <2>2, AdvanceTree DEF advanced
  <2>4. pc' = ret /\ Types'
    BY <1>1, <1>7, <1>8, <1>12 DEF Return, Goto, Leave, NoBranches, CInv, Types, Running, Between
  <2>5. mode = "SPECULATIVE" => /\ head' = fdb'.root \/ head' \in Valid(fdb')
                                /\ Low(fdb'.index)
    BY <1>2, <1>7, <2>1, <2>3 DEF Tree, Low
  <2>6. mode = "IRREVERSIBLE" => /\ reversible' = {} /\ head' = LogHead /\ fdb'.head = LogHead
                                 /\ fdb'.validated \subseteq anc[LogHead]
    BY <1>1, <1>7, <2>3
  <2>7. QED
    BY <1>1, <1>7, <2>3, <2>4, <2>5, <2>6, ToBetween
<1>13. QED
  BY <1>9, <1>10, <1>11, <1>12

-----------------------------------------------------------------------------
(* Calls begin.                                                            *)

(* What holds between the calls.                                           *)
LEMMA InBetween ==
  ASSUME CInv, pc \in Between
  PROVE  /\ file = NoFile /\ mode \in {"SPECULATIVE", "IRREVERSIBLE"}
         /\ fdb.root = LogHead /\ LogHead \in anc[head] /\ Tree(fdb)
         /\ LogHead \in Block /\ head \in Block /\ fdb.index \subseteq Block
         /\ reversible \subseteq Block
         /\ mode = "SPECULATIVE" => head = fdb.root \/ head \in Valid(fdb)
         /\ mode = "SPECULATIVE" /\ pc \in {"idle", "best_loop"} => Low(fdb.index)
         /\ mode = "IRREVERSIBLE" => /\ reversible = {} /\ head = LogHead /\ fdb.head = LogHead
                                     /\ fdb.validated \subseteq anc[LogHead]
<1>1. LogHead \in Block
  BY LogFacts DEF CInv
<1>2. fdb.index \subseteq Block
  BY AboveRoot DEF CInv
<1>3. file = NoFile /\ fdb.root = LogHead /\ LogHead \in anc[head] /\ Tree(fdb)
  BY DEF CInv, Types, Rooted, Running, Switching, Logging, Between
<1>4. QED
  BY <1>1, <1>2, <1>3 DEF CInv, Types, Irreversible, Running, Resting, HeadValid

(* A switch to a child of the head begins.                                 *)
LEMMA ToExtend ==
  ASSUME CInv, UNCHANGED <<blog, mode>>, pc' = "extend", Types', Tree(fdb'),
         file' = NoFile, pending' # "building", mode = "SPECULATIVE",
         fdb'.root = LogHead, LogHead \in anc[head'], Extending'
  PROVE  CInv'
<1>1. Chained' /\ LogHead' = LogHead /\ LogBlocks' = LogBlocks
  BY SameLog DEF CInv
<1>2. /\ Stored' /\ Started' /\ NewBranch' /\ OldBranch' /\ Applied' /\ Appending' /\ Building'
      /\ Resting'
  BY DEF Stored, Started, NewBranch, OldBranch, Applied, Appending, Starting, Switching,
         Logging, Building, Resting, Between
<1>3. Rooted' /\ Irreversible'
  BY <1>1 DEF Rooted, Irreversible, Running, Switching, Logging, Between
<1>4. QED
  BY <1>1, <1>2, <1>3 DEF CInv

(* maybe_switch_forks to the pending head.                                 *)
LEMMA SwitchStep ==
  ASSUME CInv, pc \in Between, UNCHANGED <<mode, head, reversible, blog, file>>,
         pending' # "building", mode = "SPECULATIVE", Tree(fdb'), fdb'.root = LogHead,
         head = fdb'.root \/ head \in Valid(fdb'),
         NEW from \in {"idle", "best_loop"}, NEW p, p = pending_head(fdb'),
         maybe_switch_forks(fdb', p, from),
         p = head => Low(fdb'.index),
         \/ Low(fdb'.index \ {p})
         \/ from = "best_loop" /\ fdb'.head = fdb'.root /\ head = fdb'.root /\ reversible = {}
  PROVE  CInv'
<1>1. /\ file = NoFile /\ LogHead \in anc[head] /\ LogHead \in Block /\ head \in Block
      /\ reversible \subseteq Block
  BY InBetween
<1>2. Chained' /\ LogHead' = LogHead
  BY SameLog DEF CInv
<1>3. p \in fdb'.index \cup {fdb'.root} /\ \A c \in fdb'.index : ~first_preferred(c, p)
  BY PendingTree
<1>4. p \in Block /\ anc[p] \subseteq Block /\ anc[head] \subseteq Block /\ p \in anc[p]
  BY <1>1, <1>3, AboveRoot, Ancestors
<1>5. p # head => p \in fdb'.index /\ p \notin anc[head]
  <2>1. head = fdb'.root \/ head \in fdb'.index
    BY DEF Valid
  <2>2. QED
    BY <1>3, <2>1, BestNotBelow
<1>6. CASE p = head
  <2>1. pc' = from /\ ret' = from /\ branches' = NoBranches /\ todo' = {}
    <3>1. ~Extends(p)
      BY <1>1, <1>6, Child, Ancestors DEF Extends
    <3>2. QED
      BY <1>6, <3>1 DEF maybe_switch_forks, Goto, Leave
  <2>2. Types'
    BY <1>1, <2>1 DEF NoBranches, CInv, Types, Running, Between
  <2>3. QED
    BY <1>1, <1>6, <2>1, <2>2, ToBetween
<1>7. CASE Extends(p)
  <2>1. p # head
    BY <1>1, <1>7, Child, Ancestors DEF Extends
  <2>2. pc' = "extend" /\ todo' = {p} /\ ret' = from /\ UNCHANGED branches
    BY <1>7, <2>1 DEF maybe_switch_forks, Goto
  <2>3. Types'
    BY <1>1, <1>4, <2>2 DEF CInv, Types, Running, Switching
  <2>4. Extending'
    BY <1>2, <1>3, <1>5, <1>7, <2>1, <2>2 DEF Extending, Extends, HeadValid, Valid, Low, Top
  <2>5. QED
    BY <1>1, <2>2, <2>3, <2>4, ToExtend
<1>8. CASE p # head /\ ~Extends(p)
  <2>1. /\ branches' = [first |-> anc[p] \ anc[head], second |-> anc[head] \ anc[p]]
        /\ ret' = from
        /\ IF branches'.second = {} THEN pc' = "apply" /\ todo' = branches'.first
           ELSE pc' = "pop" /\ todo' = branches'.second
    BY <1>8 DEF maybe_switch_forks, Goto, fetch_branch_from
  <2>2. branches'.first = anc[p] \ anc[head] /\ branches'.second = anc[head] \ anc[p]
    BY <2>1
  <2>3. Types' /\ pc' \in Switching \ {"extend"}
    BY <1>1, <1>4, <2>1, <2>2 DEF CInv, Types, Running, Switching
  <2>4. /\ p \in branches'.first /\ branches'.first \subseteq anc[p] \cap fdb'.index
        /\ LogHead \in anc[p]
    <3>1. anc[LogHead] \subseteq anc[head]
      BY <1>1, Ancestors
    <3>2. QED
      BY <1>4, <1>5, <1>8, <2>2, <3>1 DEF Tree
  <2>5. \/ Low(fdb'.index \ {p})
        \/ /\ from = "best_loop" /\ branches'.second = {}
           /\ fdb'.validated \subseteq anc[p]
    <3>1. CASE fdb'.head = fdb'.root /\ head = fdb'.root /\ from = "best_loop"
      <4>1. fdb'.validated \subseteq {fdb'.root}
        BY <3>1, NoneValid
      <4>2. anc[LogHead] \subseteq anc[p]
        BY <1>4, <2>4, Ancestors
      <4>3. QED
        BY <2>2, <2>4, <3>1, <4>1, <4>2
    <3>2. QED
      BY <3>1
  <2>6. NewBranch'
    BY <1>2, <1>3, <2>1, <2>2, <2>4, <2>5 DEF NewBranch, Low, Top
  <2>7. ASSUME branches'.second # {}
        PROVE  /\ head \in branches'.second \cap Valid(fdb')
               /\ branches'.second \subseteq anc[head] /\ branches'.first \cap anc[head] = {}
               /\ \A c \in branches'.second : LogHead \in anc[c]
    <3>1. head \notin anc[p]
      BY <1>4, <2>2, <2>7, Ancestors
    <3>2. head \in anc[head] /\ head \in Valid(fdb')
      BY <1>1, <2>4, <3>1, Ancestors
    <3>3. ASSUME NEW c \in branches'.second PROVE LogHead \in anc[c]
      <4>1. c \in anc[head] /\ c \notin anc[p]
        BY <2>2, <3>3
      <4>2. LogHead \in anc[c] \/ c \in anc[LogHead]
        BY <1>1, <4>1, TreeAssumption
      <4>3. anc[LogHead] \subseteq anc[p]
        BY <1>4, <2>4, Ancestors
      <4>4. QED
        BY <4>1, <4>2, <4>3
    <3>4. QED
      BY <2>2, <3>1, <3>2, <3>3
  <2>8. OldBranch'
    <3>1. CASE branches'.second = {}
      BY <2>1, <3>1 DEF OldBranch
    <3>2. CASE branches'.second # {}
      BY <2>1, <2>7, <3>2 DEF OldBranch, Valid
    <3>3. QED
      BY <3>1, <3>2
  <2>9. QED
    BY <1>1, <2>3, <2>6, <2>8, ToSwitching
<1>9. QED
  BY <1>6, <1>7, <1>8

(* PushBlock: only the pending head may make something irreversible.       *)
LEMMA PushBlockStep ==
  ASSUME CInv, NEW b \in Block \ {Genesis}, PushBlock(b)
  PROVE  CInv'
<1>1. /\ file = NoFile /\ mode \in {"SPECULATIVE", "IRREVERSIBLE"}
      /\ fdb.root = LogHead /\ LogHead \in anc[head] /\ Tree(fdb)
      /\ LogHead \in Block /\ head \in Block /\ fdb.index \subseteq Block
      /\ reversible \subseteq Block
      /\ mode = "SPECULATIVE" => head = fdb.root \/ head \in Valid(fdb)
      /\ mode = "SPECULATIVE" => Low(fdb.index)
      /\ mode = "IRREVERSIBLE" => /\ reversible = {} /\ head = LogHead /\ fdb.head = LogHead
                                  /\ fdb.validated \subseteq anc[LogHead]
      /\ pc \in Between
  BY InBetween DEF PushBlock, Between
<1>2. /\ b \notin fdb.index /\ Known(fdb, prev[b]) /\ fdb' = add(fdb, b) /\ pending' = "none"
      /\ UNCHANGED <<invalid, mode, head, reversible, blog, file>>
  BY DEF PushBlock
<1>3. /\ Tree(fdb') /\ fdb'.root = fdb.root
      /\ fdb'.index = fdb.index \cup {b} /\ fdb'.validated = fdb.validated
  BY <1>1, <1>2, AddTree
<1>4. CASE mode = "IRREVERSIBLE"
  <2>1. pc' = "log" /\ ret' = "idle" /\ UNCHANGED <<branches, todo>>
    BY <1>4 DEF PushBlock, Goto
  <2>2. Types'
    BY <1>1, <1>2, <2>1 DEF CInv, Types, Running
  <2>3. fdb'.head = LogHead
    BY <1>1, <1>3, <1>4, NoneValid
  <2>4. QED
    BY <1>1, <1>2, <1>3, <1>4, <2>1, <2>2, <2>3, ToLog
<1>5. CASE mode = "SPECULATIVE"
  <2> DEFINE p == pending_head(fdb')
  <2>1. maybe_switch_forks(fdb', p, "idle")
    BY <1>5 DEF PushBlock
  <2>2. head = fdb'.root \/ head \in Valid(fdb')
    BY <1>1, <1>3, <1>5 DEF Valid
  <2>3. p \in fdb'.index \cup {fdb'.root} /\ \A c \in fdb'.index : ~first_preferred(c, p)
    BY <1>3, PendingTree
  <2> HIDE DEF p
  <2>4. \A c \in Block : lib[c] \in Nat /\ num[c] \in Nat /\ lib[c] <= num[c]
    BY Ancestors
  <2>5. ASSUME p # b PROVE Low(fdb'.index)
    <3>1. lib[p] <= num[LogHead] /\ p \in Block
      BY <1>1, <1>3, <1>5, <2>3, <2>4, <2>5 DEF Low
    <3>2. lib[b] <= lib[p]
      <4>1. ~(lib[b] > lib[p])
        BY <1>3, <2>3 DEF first_preferred
      <4>2. QED
        BY <2>4, <3>1, <4>1
    <3>3. lib[b] <= num[LogHead]
      BY <1>1, <2>4, <3>1, <3>2
    <3>4. QED
      BY <1>1, <1>3, <1>5, <3>3 DEF Low
  <2>6. p = head => p # b
    <3>1. b # fdb.root
      <4>1. prev[b] \in Block /\ b \notin anc[prev[b]]
        BY Child
      <4>2. fdb.root \in anc[prev[b]]
        BY <1>1, <1>2, <4>1, AboveRoot DEF Known
      <4>3. QED
        BY <4>1, <4>2
    <3>2. QED
      BY <1>1, <1>2, <1>5, <3>1 DEF Valid
  <2>7. Low(fdb'.index \ {p})
    BY <1>1, <1>3, <1>5, <2>5 DEF Low
  <2>8. QED
    BY <1>1, <1>2, <1>3, <1>5, <2>1, <2>2, <2>5, <2>6, <2>7, SwitchStep DEF p
<1>6. QED
  BY <1>1, <1>4, <1>5

(* CommitBlock: the block produced is the fork database's head.            *)
LEMMA CommitBlockStep ==
  ASSUME CInv, NEW b \in Block \ {Genesis}, CommitBlock(b)
  PROVE  CInv'
<1>1. /\ file = NoFile
      /\ fdb.root = LogHead /\ LogHead \in anc[head] /\ Tree(fdb)
      /\ LogHead \in Block /\ head \in Block /\ fdb.index \subseteq Block
      /\ reversible \subseteq Block
      /\ mode = "SPECULATIVE" => head = fdb.root \/ head \in Valid(fdb)
      /\ mode = "SPECULATIVE" => Low(fdb.index)
  BY InBetween DEF CommitBlock, Between
<1>2. mode = "SPECULATIVE" /\ pc = "idle" /\ b \notin fdb.index /\ prev[b] = head
  BY DEF CommitBlock, CInv, Building, Extends
<1> DEFINE a == add(fdb, b)
           d == mark_valid(a, b)
<1>3. Known(fdb, prev[b])
  BY <1>1, <1>2 DEF Known, Valid
<1>4. Tree(a) /\ a.root = fdb.root /\ a.index = fdb.index \cup {b}
  BY <1>1, <1>2, <1>3, AddTree
<1> HIDE DEF a
<1>5. Tree(d) /\ d.root = fdb.root /\ d.index = fdb.index \cup {b} /\ b \in Valid(d)
  BY <1>4, MarkTree DEF Valid
<1> HIDE DEF d
<1>6. \/ pc' = "failed" /\ UNCHANGED <<chain, ret, branches, todo>>
      \/ /\ d.head = b /\ fdb' = d /\ head' = d.head /\ reversible' = reversible \cup {b}
         /\ pending' = "none" /\ pc' = "log" /\ ret' = "idle"
         /\ UNCHANGED <<mode, blog, file, branches, todo>>
  BY DEF CommitBlock, Fail, Goto, d, a, chain
<1>7. CASE pc' = "failed" /\ UNCHANGED <<chain, ret, branches, todo>>
  <2>1. Types' /\ Building'
    BY <1>1, <1>2, <1>7 DEF CInv, Types, Building, chain
  <2>2. Tree(fdb')
    BY <1>1, <1>7 DEF chain
  <2>3. QED
    BY <1>1, <1>7, <2>1, <2>2, ToFailed DEF chain
<1>8. CASE /\ d.head = b /\ fdb' = d /\ head' = d.head /\ reversible' = reversible \cup {b}
           /\ pending' = "none" /\ pc' = "log" /\ ret' = "idle"
           /\ UNCHANGED <<mode, blog, file, branches, todo>>
  <2>1. Types'
    BY <1>1, <1>8 DEF CInv, Types, Running
  <2>2. LogHead \in anc[head']
    BY <1>1, <1>2, <1>8, Child
  <2>3. lib[b] \in Nat
    BY Ancestors
  <2>4. \A c \in fdb'.index : lib[c] <= num[LogHead] \/ lib[c] <= lib[head']
    BY <1>1, <1>2, <1>5, <1>8, <2>3 DEF Low
  <2>5. QED
    BY <1>1, <1>2, <1>5, <1>8, <2>1, <2>2, <2>4, ToLog
<1>9. QED
  BY <1>6, <1>7, <1>8

(* A pending block is begun or abandoned.                                  *)
LEMMA PendingStep == CInv /\ (StartBlock \/ AbortBlock) => CInv'
<1> SUFFICES ASSUME CInv, StartBlock \/ AbortBlock PROVE CInv'
  OBVIOUS
<1>1. /\ file = NoFile /\ mode \in {"SPECULATIVE", "IRREVERSIBLE"}
      /\ fdb.root = LogHead /\ LogHead \in anc[head] /\ Tree(fdb) /\ pc = "idle"
      /\ mode = "SPECULATIVE" => head = fdb.root \/ head \in Valid(fdb)
      /\ mode = "SPECULATIVE" => Low(fdb.index)
      /\ mode = "IRREVERSIBLE" => /\ reversible = {} /\ head = LogHead /\ fdb.head = LogHead
                                  /\ fdb.validated \subseteq anc[LogHead]
  BY InBetween DEF StartBlock, AbortBlock, Between
<1>2. /\ UNCHANGED <<invalid, mode, fdb, head, reversible, blog, file, ret, branches, todo>>
      /\ mode = "SPECULATIVE" \/ pending' = "none"
      /\ pc' = "idle" \/ (pc' = "failed" /\ mode = "SPECULATIVE")
  BY <1>1 DEF StartBlock, AbortBlock, Fail, call
<1>3. Types'
  BY <1>1, <1>2 DEF CInv, Types
<1>4. CASE pc' = "idle"
  BY <1>1, <1>2, <1>3, <1>4, ToBetween
<1>5. CASE pc' = "failed" /\ mode = "SPECULATIVE"
  <2>1. Building'
    BY <1>2, <1>5 DEF Building
  <2>2. Tree(fdb')
    BY <1>1, <1>2
  <2>3. QED
    BY <1>1, <1>2, <1>3, <1>5, <2>1, <2>2, ToFailed
<1>6. QED
  BY <1>2, <1>4, <1>5

-----------------------------------------------------------------------------
(* The node stops and starts.                                              *)

(* Shutdown writes a database that agrees with the log.                    *)
LEMMA ShutdownStep == CInv /\ Shutdown => CInv'
<1> SUFFICES ASSUME CInv, Shutdown PROVE CInv'
  OBVIOUS
<1>1. /\ file = NoFile /\ mode \in {"SPECULATIVE", "IRREVERSIBLE"}
      /\ fdb.root = LogHead /\ Tree(fdb) /\ pc = "idle"
      /\ mode = "SPECULATIVE" => Low(fdb.index)
      /\ mode = "IRREVERSIBLE" => reversible = {} /\ fdb.head = LogHead
  BY InBetween DEF Shutdown, Between
<1>2. /\ file' = fdb /\ pc' = "down" /\ pending' = "none"
      /\ UNCHANGED <<mode, fdb, head, reversible, blog, ret, branches, todo>>
  BY DEF Shutdown, Goto
<1>3. Types'
  BY <1>1, <1>2 DEF CInv, Types
<1>4. OnLog(file')
  BY <1>1, <1>2 DEF OnLog
<1>5. QED
  BY <1>1, <1>2, <1>3, <1>4, ToDown

(* Crash leaves the log and nothing else to rely on.                       *)
LEMMA CrashStep == CInv /\ Crash => CInv'
<1> SUFFICES ASSUME CInv, Crash PROVE CInv'
  OBVIOUS
<1>1. /\ file' = NoFile /\ pc' = "down" /\ pending' = "none" /\ branches' = NoBranches /\ todo' = {}
      /\ UNCHANGED <<mode, fdb, head, blog, ret>> /\ reversible' \subseteq reversible
  BY DEF Crash, Goto, Leave
<1>2. Types'
  BY <1>1 DEF CInv, Types, NoBranches
<1>3. Tree(fdb')
  BY <1>1 DEF CInv
<1>4. QED
  BY <1>1, <1>2, <1>3, ToDown

(* DeleteState leaves all but the chain state.                             *)
LEMMA DeleteStateStep == CInv /\ DeleteState => CInv'
<1> SUFFICES ASSUME CInv, DeleteState PROVE CInv'
  OBVIOUS
<1>1. UNCHANGED <<mode, fdb, head, pending, reversible, blog, file, pc, ret, branches, todo>> /\ pc = "down"
  BY DEF DeleteState, call
<1>2. Types' /\ Tree(fdb') /\ pending' # "building"
  BY <1>1 DEF CInv, Types, Building
<1>3. file = NoFile \/ (Tree(file) /\ OnLog(file) /\ Fresh(file))
  BY DEF CInv, Stored
<1>4. \/ file' = NoFile
      \/ /\ Tree(file') /\ OnLog(file')
         /\ Low(file'.index) \/ (file'.head = file'.root /\ reversible' = {})
  BY <1>1, <1>3 DEF Fresh
<1>5. QED
  BY <1>1, <1>2, <1>4, ToDown

(* A start goes on.                                                        *)
LEMMA ToStarting ==
  ASSUME CInv, UNCHANGED blog, pc' \in Starting, Types', Tree(fdb'),
         file' = NoFile, pending' # "building", OnLog(fdb'), head' \in {fdb'.head, Genesis},
         Low(fdb'.index) \/ (fdb'.head = fdb'.root /\ reversible' = {}),
         mode' = "IRREVERSIBLE" => /\ fdb'.head = fdb'.root
                                   /\ pc' = "replay_log" => reversible' = {}
  PROVE  CInv'
<1>1. Chained' /\ LogHead' = LogHead /\ LogBlocks' = LogBlocks
  BY SameLog DEF CInv
<1>2. /\ Stored' /\ Extending' /\ NewBranch' /\ OldBranch' /\ Applied' /\ Appending' /\ Building'
      /\ Resting' /\ Rooted' /\ Irreversible'
  BY DEF Stored, Extending, NewBranch, OldBranch, Applied, Appending, Starting, Switching,
         Logging, Building, Resting, Between, Rooted, Irreversible, Running
<1>3. Started'
  BY <1>1 DEF Started, OnLog, Fresh, Low
<1>4. QED
  BY <1>1, <1>2, <1>3 DEF CInv

(* Startup: the database read, or a new one, agrees with the log.          *)
LEMMA StartupStep ==
  ASSUME CInv, NEW m \in Modes, Startup(m)
  PROVE  CInv'
<1> DEFINE opened == IF file = NoFile THEN reset(Genesis) ELSE file
           d == IF m = "IRREVERSIBLE" /\ opened.head # opened.root
                THEN rollback_head_to_root(opened) ELSE opened
<1>1. pc = "down" /\ mode' = m /\ UNCHANGED <<invalid, pending, reversible, blog, ret, branches, todo>>
  BY DEF Startup, Fail
<1>2. m \in {"SPECULATIVE", "IRREVERSIBLE"} /\ pending # "building" /\ Genesis \in Block
  BY <1>1, ControllerAssumption, TreeAssumption DEF CInv, Building
<1>3. Tree(opened) /\ OnLog(opened) /\ Fresh(opened)
  <2>1. CASE file = NoFile
    <3>1. Tree(reset(Genesis)) /\ Genesis \in LogBlocks
      BY <1>2, ResetTree, LogFacts DEF CInv
    <3>2. reset(Genesis).index = {}
      BY DEF reset
    <3>3. QED
      BY <2>1, <3>1, <3>2 DEF OnLog, Fresh, Low
  <2>2. CASE file # NoFile
    BY <2>2 DEF CInv, Stored
  <2>3. QED
    BY <2>1, <2>2
<1>4. \/ pc' = "failed" /\ UNCHANGED <<fdb, head, file>>
      \/ /\ fdb' = d /\ file' = NoFile /\ (head' = Genesis \/ head' = d.head) /\ pc' = "init"
  BY DEF Startup, Fail
<1> HIDE DEF opened
<1>5. /\ Tree(d) /\ d.root = opened.root /\ d.index = opened.index
      /\ d = opened \/ (d.head = d.root /\ opened.head # opened.root)
      /\ m = "IRREVERSIBLE" => d.head = d.root
  BY <1>3, RollbackTree
<1>6. OnLog(d)
  <2>1. CASE d = opened
    BY <1>3, <2>1
  <2>2. CASE opened.head # opened.root
    <3>1. \A b : reset(b).head = reset(b).root
      BY DEF reset
    <3>2. opened.root = LogHead
      BY <1>3, <2>2, <3>1 DEF OnLog
    <3>3. QED
      BY <1>5, <3>2 DEF OnLog
  <2>3. QED
    BY <1>5, <2>1, <2>2
<1>7. Low(d.index) \/ (d.head = d.root /\ reversible = {})
  BY <1>3, <1>5 DEF Fresh
<1> HIDE DEF d
<1>8. CASE pc' = "failed" /\ UNCHANGED <<fdb, head, file>>
  <2>1. Types' /\ Building'
    BY <1>1, <1>2, <1>8 DEF CInv, Types, Building
  <2>2. Tree(fdb')
    BY <1>8 DEF CInv
  <2>3. QED
    BY <1>1, <1>8, <2>1, <2>2, ToFailed
<1>9. CASE fdb' = d /\ file' = NoFile /\ (head' = Genesis \/ head' = d.head) /\ pc' = "init"
  <2>1. d.head \in Block
    BY <1>5, AboveRoot
  <2>2. Types'
    BY <1>1, <1>2, <1>9, <2>1 DEF CInv, Types, Starting
  <2>3. QED
    BY <1>1, <1>2, <1>5, <1>6, <1>7, <1>9, <2>2, ToStarting DEF Starting
<1>10. QED
  BY <1>4, <1>8, <1>9

(* Init has caught up with the log.                                        *)
LEMMA ToResumed ==
  ASSUME CInv, UNCHANGED <<blog, mode>>, pc' \in {"replay", "best"}, Types', Tree(fdb'),
         file' = NoFile, pending' # "building", fdb'.root = LogHead, LogHead \in anc[head'],
         head' = fdb'.root \/ head' \in Valid(fdb'),
         Low(fdb'.index) \/ (fdb'.head = fdb'.root /\ reversible' = {}),
         mode = "IRREVERSIBLE" => reversible' = {} /\ fdb'.head = fdb'.root
  PROVE  CInv'
<1>1. Chained' /\ LogHead' = LogHead /\ LogBlocks' = LogBlocks
  BY SameLog DEF CInv
<1>2. /\ Stored' /\ Started' /\ Extending' /\ NewBranch' /\ OldBranch' /\ Applied' /\ Appending'
      /\ Building'
  BY DEF Stored, Started, Extending, NewBranch, OldBranch, Applied, Appending, Starting, Switching,
         Logging, Building
<1>3. fdb'.head = fdb'.root => head' = fdb'.root /\ fdb'.validated \subseteq {fdb'.root}
  BY NoneValid
<1>4. LogHead \in anc[LogHead]
  BY LogFacts, Ancestors DEF CInv
<1>5. Rooted' /\ Irreversible'
  BY <1>1, <1>3, <1>4 DEF Rooted, Irreversible, Running, Switching, Logging, Between
<1>6. Resting'
  BY <1>1, <1>3 DEF Resting, HeadValid, Valid, Fresh, Low, Between
<1>7. QED
  BY <1>1, <1>2, <1>5, <1>6 DEF CInv

(* What holds in the steps of a start before replay.                       *)
LEMMA InStart ==
  ASSUME CInv, pc \in Starting
  PROVE  /\ file = NoFile /\ pending # "building" /\ Tree(fdb) /\ OnLog(fdb) /\ Fresh(fdb)
         /\ head \in {fdb.head, Genesis} /\ (mode = "IRREVERSIBLE" => fdb.head = fdb.root)
         /\ LogHead \in Block /\ head \in Block /\ reversible \subseteq Block
         /\ mode = "IRREVERSIBLE" /\ pc = "replay_log" => reversible = {}
<1>1. LogHead \in Block
  BY LogFacts DEF CInv
<1>2. QED
  BY <1>1 DEF CInv, Types, Building, Started, Starting, Irreversible

(* If the head is not below the log, the root is the log's last block.     *)
LEMMA CaughtUp ==
  ASSUME CInv, pc \in Starting, num[LogHead] <= num[head]
  PROVE  /\ fdb.root = LogHead /\ LogHead \in anc[head]
         /\ head = fdb.root \/ head \in Valid(fdb)
<1>1. /\ Tree(fdb) /\ OnLog(fdb) /\ head \in {fdb.head, Genesis} /\ LogHead \in Block
  BY InStart
<1>2. /\ LogHead \in anc[LogHead] /\ Genesis \in LogBlocks /\ LogBlocks \subseteq anc[LogHead]
      /\ \A b \in LogBlocks : num[LogHead] <= num[b] => b = LogHead
  BY LogFacts, Ancestors DEF CInv, Chained
<1>3. head = Genesis => LogHead = Genesis
  BY <1>2
<1>4. CASE fdb.root = LogHead
  BY <1>1, <1>2, <1>3, <1>4, AboveRoot DEF Tree
<1>5. CASE \E b \in LogBlocks : fdb = reset(b)
  <2>1. PICK b \in LogBlocks : fdb = reset(b)
    BY <1>5
  <2>2. fdb.root = b /\ fdb.head = b
    BY <2>1 DEF reset
  <2>3. b = LogHead
    <3>1. CASE head = b
      BY <1>2, <3>1
    <3>2. CASE head = Genesis
      BY <1>2, <1>3, <2>1, <3>2, TreeAssumption
    <3>3. QED
      BY <1>1, <2>2, <3>1, <3>2
  <2>4. QED
    BY <1>1, <1>2, <1>3, <2>2, <2>3
<1>6. QED
  BY <1>1, <1>4, <1>5 DEF OnLog

(* InitController: reversible blocks of the log are dropped.               *)
LEMMA InitControllerStep == CInv /\ InitController => CInv'
<1> SUFFICES ASSUME CInv, InitController PROVE CInv'
  OBVIOUS
<1>1. /\ file = NoFile /\ pending # "building" /\ Tree(fdb) /\ OnLog(fdb) /\ Fresh(fdb)
      /\ head \in {fdb.head, Genesis} /\ (mode = "IRREVERSIBLE" => fdb.head = fdb.root)
      /\ LogHead \in Block /\ head \in Block /\ reversible \subseteq Block /\ pc \in Starting
  BY InStart DEF InitController, Starting
<1>2. UNCHANGED <<mode, fdb, head, pending, blog, ret, branches, todo>>
  BY DEF InitController
<1>3. Kept \subseteq reversible /\ (mode = "IRREVERSIBLE" => Kept = {})
  BY DEF Kept
<1>4. CASE pc' = "down" /\ file' = fdb /\ UNCHANGED reversible
  <2>1. Types'
    BY <1>1, <1>2, <1>4 DEF CInv, Types
  <2>2. QED
    BY <1>1, <1>2, <1>4, <2>1, ToDown DEF Fresh
<1>5. CASE LastBlockNum > num[head] /\ pc' = "replay_log" /\ reversible' = Kept /\ UNCHANGED file
  <2>1. Types'
    BY <1>1, <1>2, <1>3, <1>5 DEF CInv, Types, Starting
  <2>2. QED
    BY <1>1, <1>2, <1>3, <1>5, <2>1, ToStarting DEF Fresh, Starting
<1>6. CASE ~(LastBlockNum > num[head]) /\ pc' = "best" /\ reversible' = Kept /\ UNCHANGED file
  <2>1. Types'
    BY <1>1, <1>2, <1>3, <1>6 DEF CInv, Types, Running, Between
  <2>2. num[LogHead] <= num[head]
    <3>1. num[head] \in Nat /\ num[LogHead] \in Nat
      BY <1>1, Ancestors
    <3>2. LastBlockNum \in Nat /\ num[LogHead] <= LastBlockNum
      <4>1. CASE Kept = {}
        BY <3>1, <4>1 DEF LastBlockNum
      <4>2. CASE Kept # {}
        <5>1. Highest(Kept) \in Kept /\ Highest(Kept) \in Block
          BY <1>1, <1>3, <4>2, HighestIn
        <5>2. num[Highest(Kept)] \in Nat /\ num[Highest(Kept)] > num[LogHead]
          BY <5>1, Ancestors DEF Kept
        <5>3. QED
          BY <3>1, <4>2, <5>2 DEF LastBlockNum
      <4>3. QED
        BY <4>1, <4>2
    <3>3. QED
      BY <1>6, <3>1, <3>2
  <2>3. /\ fdb.root = LogHead /\ LogHead \in anc[head]
        /\ head = fdb.root \/ head \in Valid(fdb)
    BY <1>1, <2>2, CaughtUp
  <2>4. QED
    BY <1>1, <1>2, <1>3, <1>6, <2>1, <2>3, ToResumed DEF Fresh
<1>7. QED
  BY <1>4, <1>5, <1>6 DEF InitController, Goto

(* Replaying the log up to h leaves the database as it was, with h the     *)
(* root, or leaves h alone in it.                                          *)
LEMMA ResyncedTo ==
  ASSUME CInv, pc \in Starting, NEW h \in LogBlocks
  PROVE  Resynced(h) = reset(h) \/ (Resynced(h) = fdb /\ fdb.root = h)
<1> DEFINE p == pending_head(fdb)
<1>1. Tree(fdb) /\ OnLog(fdb) /\ LogHead \in Block
  BY InStart
<1>2. /\ LogBlocks \subseteq Block /\ LogBlocks \subseteq anc[LogHead]
      /\ \A b \in LogBlocks : num[LogHead] <= num[b] => b = LogHead
  BY LogFacts DEF CInv, Chained
<1>3. p \in fdb.index \cup {fdb.root}
  BY <1>1, PendingTree
<1>4. /\ fdb.root \in Block /\ p \in Block /\ h \in Block
      /\ num[fdb.root] \in Nat /\ num[p] \in Nat /\ num[h] \in Nat
  BY <1>1, <1>2, <1>3, AboveRoot, Ancestors
<1>5. fdb.root \in anc[LogHead] /\ (num[fdb.root] < num[h] => p = fdb.root)
  <2>1. CASE fdb.root = LogHead
    <3>1. num[fdb.root] < num[h] => FALSE
      BY <1>2, <1>4, <2>1
    <3>2. QED
      BY <1>1, <2>1, <3>1, Ancestors
  <2>2. CASE \E b \in LogBlocks : fdb = reset(b)
    <3>1. PICK b \in LogBlocks : fdb = reset(b)
      BY <2>2
    <3>2. fdb.root = b /\ fdb.index = {}
      BY <3>1 DEF reset
    <3>3. QED
      BY <1>2, <1>3, <3>1, <3>2
  <2>3. QED
    BY <1>1, <2>1, <2>2 DEF OnLog
<1>6. CASE num[p] < num[h] \/ num[h] < num[fdb.root]
  BY <1>6 DEF Resynced
<1>7. CASE ~(num[p] < num[h] \/ num[h] < num[fdb.root])
  <2>1. num[h] = num[fdb.root]
    BY <1>4, <1>5, <1>7
  <2>2. h = fdb.root
    BY <1>1, <1>2, <1>5, <2>1, OnOneBranch
  <2>3. QED
    BY <1>7, <2>1, <2>2 DEF Resynced
<1>8. QED
  BY <1>6, <1>7

(* ReplayLog: the head follows the log.                                    *)
LEMMA ReplayLogStep ==
  ASSUME CInv, NEW h \in Block, ReplayLog(h)
  PROVE  CInv'
<1>1. /\ file = NoFile /\ pending # "building" /\ Tree(fdb) /\ OnLog(fdb) /\ Fresh(fdb)
      /\ head \in {fdb.head, Genesis} /\ (mode = "IRREVERSIBLE" => fdb.head = fdb.root)
      /\ LogHead \in Block /\ head \in Block /\ reversible \subseteq Block /\ pc \in Starting
      /\ mode = "IRREVERSIBLE" => reversible = {}
  BY InStart DEF ReplayLog, Starting
<1>2. UNCHANGED <<invalid, mode, pending, reversible, blog, ret, branches, todo>>
  BY DEF ReplayLog, Fail
<1>3. CASE pc' = "failed" /\ UNCHANGED <<fdb, head, file>>
  <2>1. Types' /\ Building'
    BY <1>1, <1>2, <1>3 DEF CInv, Types, Building
  <2>2. QED
    BY <1>1, <1>2, <1>3, <2>1, ToFailed
<1>4. CASE /\ h \in LogBlocks /\ head' = h /\ fdb' = Resynced(h)
           /\ \/ h = LogHead /\ pc' = "replay" /\ UNCHANGED file
              \/ pc' = "down" /\ file' = fdb'
  <2>1. /\ Tree(fdb') /\ fdb'.root = h
        /\ Low(fdb'.index) \/ (fdb'.head = fdb'.root /\ reversible' = {})
        /\ mode = "IRREVERSIBLE" => fdb'.head = fdb'.root
        /\ OnLog(fdb')
    <3>1. CASE Resynced(h) = reset(h)
      <4>1. /\ Tree(reset(h)) /\ reset(h).root = h /\ reset(h).head = h /\ reset(h).index = {}
        BY ResetTree DEF reset
      <4>2. QED
        BY <1>4, <3>1, <4>1 DEF Low, OnLog
    <3>2. CASE Resynced(h) = fdb /\ fdb.root = h
      BY <1>1, <1>2, <1>4, <3>2 DEF Fresh
    <3>3. QED
      BY <1>1, <1>4, <3>1, <3>2, ResyncedTo
  <2>2. CASE h = LogHead /\ pc' = "replay" /\ UNCHANGED file
    <3>1. Types'
      BY <1>1, <1>2, <1>4, <2>2 DEF CInv, Types, Running, Between
    <3>2. LogHead \in anc[head']
      BY <1>4, <2>2, Ancestors
    <3>3. QED
      BY <1>1, <1>2, <1>4, <2>1, <2>2, <3>1, <3>2, ToResumed
  <2>3. CASE pc' = "down" /\ file' = fdb'
    <3>1. Types'
      BY <1>1, <1>2, <1>4, <2>3 DEF CInv, Types
    <3>2. QED
      BY <1>1, <1>2, <2>1, <2>3, <3>1, ToDown
  <2>4. QED
    BY <1>4, <2>2, <2>3
<1>5. CASE ~(num[head] < num[LogHead]) /\ pc' = "replay" /\ UNCHANGED <<fdb, head, file>>
  <2>1. num[LogHead] <= num[head]
    BY <1>1, <1>5, Ancestors
  <2>2. /\ fdb.root = LogHead /\ LogHead \in anc[head]
        /\ head = fdb.root \/ head \in Valid(fdb)
    BY <1>1, <2>1, CaughtUp
  <2>3. Types'
    BY <1>1, <1>2, <1>5 DEF CInv, Types, Running, Between
  <2>4. QED
    BY <1>1, <1>2, <1>5, <2>2, <2>3, ToResumed DEF Fresh
<1>6. CASE pc' = "down" /\ file' = fdb /\ UNCHANGED <<fdb, head>>
  <2>1. Types'
    BY <1>1, <1>2, <1>6 DEF CInv, Types
  <2>2. QED
    BY <1>1, <1>2, <1>6, <2>1, ToDown DEF Fresh
<1>7. h \in {blog[i] : i \in 1 .. Len(blog)} => h \in LogBlocks
  BY DEF CInv, Types, LogBlocks
<1>8. QED
  BY <1>3, <1>4, <1>5, <1>6, <1>7 DEF ReplayLog, Fail, Goto

(* ReplayReversible: a child of the head is pushed again.                  *)
LEMMA ReplayReversibleStep == CInv /\ ReplayReversible => CInv'
<1> SUFFICES ASSUME CInv, ReplayReversible PROVE CInv'
  OBVIOUS
<1>1. /\ file = NoFile /\ mode \in {"SPECULATIVE", "IRREVERSIBLE"}
      /\ fdb.root = LogHead /\ LogHead \in anc[head] /\ Tree(fdb)
      /\ LogHead \in Block /\ head \in Block /\ fdb.index \subseteq Block
      /\ reversible \subseteq Block /\ pc = "replay" /\ pending # "building"
      /\ mode = "SPECULATIVE" => head = fdb.root \/ head \in Valid(fdb)
      /\ mode = "IRREVERSIBLE" => /\ reversible = {} /\ head = LogHead /\ fdb.head = LogHead
  BY InBetween DEF ReplayReversible, Between, CInv, Building
<1>2. UNCHANGED <<mode, head, pending, reversible, blog, file>>
  BY DEF ReplayReversible
<1>3. mode = "SPECULATIVE" => Low(fdb.index) \/ (fdb.head = fdb.root /\ reversible = {})
  BY <1>1 DEF CInv, Resting, Fresh, Between
<1>4. CASE \E r \in reversible : num[r] = num[head] + 1
  <2> DEFINE r == CHOOSE q \in reversible : num[q] = num[head] + 1
  <2>1. r \in reversible /\ num[r] = num[head] + 1
    BY <1>4
  <2>2. \/ /\ Extends(r) /\ Known(fdb, head) /\ fdb' = (IF r \in fdb.index THEN fdb ELSE add(fdb, r))
           /\ maybe_switch_forks(fdb', r, "replay")
        \/ pc' = "failed" /\ UNCHANGED <<fdb, ret, branches, todo>>
    BY <1>4, Zenon DEF ReplayReversible, Fail
  <2> HIDE DEF r
  <2>3. CASE pc' = "failed" /\ UNCHANGED <<fdb, ret, branches, todo>>
    <3>1. Types' /\ Building'
      BY <1>1, <1>2, <2>3 DEF CInv, Types, Building
    <3>2. QED
      BY <1>1, <1>2, <2>3, <3>1, ToFailed
  <2>4. CASE /\ Extends(r) /\ Known(fdb, head) /\ fdb' = (IF r \in fdb.index THEN fdb ELSE add(fdb, r))
             /\ maybe_switch_forks(fdb', r, "replay")
    <3>1. mode = "SPECULATIVE" /\ r \in Block /\ r # Genesis /\ prev[r] = head /\ Low(fdb.index)
      BY <1>1, <1>3, <2>1, <2>4 DEF Extends
    <3>2. /\ Tree(fdb') /\ fdb'.root = fdb.root /\ fdb'.index = fdb.index \cup {r}
          /\ fdb'.validated = fdb.validated
      <4>1. CASE r \in fdb.index
        BY <1>1, <2>4, <4>1
      <4>2. CASE r \notin fdb.index
        BY <1>1, <2>4, <3>1, <4>2, AddTree
      <4>3. QED
        BY <4>1, <4>2
    <3>3. r # head
      BY <3>1, Child, Ancestors
    <3>4. pc' = "extend" /\ todo' = {r} /\ ret' = "replay" /\ UNCHANGED branches
      BY <2>4, <3>3 DEF maybe_switch_forks, Goto
    <3>5. Types'
      BY <1>1, <1>2, <3>1, <3>4 DEF CInv, Types, Running, Switching
    <3>6. LogHead' = LogHead
      BY <1>2 DEF LogHead
    <3>7. Low(fdb'.index \ {r})
      BY <3>1, <3>2 DEF Low
    <3>8. Extending'
      BY <1>1, <1>2, <2>4, <3>1, <3>2, <3>4, <3>6, <3>7 DEF Extending, Extends, HeadValid, Valid, Low
    <3>9. QED
      BY <1>1, <1>2, <3>1, <3>2, <3>4, <3>5, <3>8, ToExtend
  <2>5. QED
    BY <2>2, <2>3, <2>4
<1>5. CASE ~\E r \in reversible : num[r] = num[head] + 1
  <2>1. pc' = "best" /\ UNCHANGED <<fdb, ret, branches, todo>>
    BY <1>5 DEF ReplayReversible, Goto
  <2>2. Types'
    BY <1>1, <1>2, <2>1 DEF CInv, Types, Running, Between
  <2>3. QED
    BY <1>1, <1>2, <1>3, <2>1, <2>2, ToResumed
<1>6. QED
  BY <1>4, <1>5

(* ApplyBest: the branch of the pending head is applied, if at all.        *)
LEMMA ApplyBestStep == CInv /\ ApplyBest => CInv'
<1> SUFFICES ASSUME CInv, ApplyBest PROVE CInv'
  OBVIOUS
<1>1. /\ file = NoFile /\ mode \in {"SPECULATIVE", "IRREVERSIBLE"}
      /\ fdb.root = LogHead /\ LogHead \in anc[head] /\ Tree(fdb)
      /\ LogHead \in Block /\ head \in Block /\ fdb.index \subseteq Block
      /\ pc \in {"best", "best_loop"} /\ pending # "building"
      /\ mode = "SPECULATIVE" => head = fdb.root \/ head \in Valid(fdb)
      /\ mode = "IRREVERSIBLE" => /\ reversible = {} /\ head = LogHead /\ fdb.head = LogHead
                                  /\ fdb.validated \subseteq anc[LogHead]
  BY InBetween DEF ApplyBest, Between, CInv, Building
<1>2. UNCHANGED <<mode, fdb, head, pending, reversible, blog, file>>
  BY DEF ApplyBest, chain
<1> DEFINE p == pending_head(fdb)
<1>3. /\ p = fdb.head \/ p \in fdb.index \ fdb.validated
      /\ \A c \in fdb.index : ~first_preferred(c, p)
  BY <1>1, PendingTree
<1>4. mode = "SPECULATIVE" =>
        Low(fdb.index) \/ (pc = "best" /\ fdb.head = fdb.root /\ head = fdb.root /\ reversible = {})
  BY <1>1 DEF CInv, Resting, Between
<1> HIDE DEF p
<1>5. CASE mode # "IRREVERSIBLE" /\ p # fdb.head /\ (pc = "best" => fdb.head = fdb.root)
  <2>1. maybe_switch_forks(fdb, p, "best_loop")
    BY <1>5 DEF ApplyBest, p
  <2>2. p # head
    BY <1>1, <1>3, <1>5 DEF Tree, Valid
  <2>3. \/ Low(fdb'.index \ {p})
        \/ fdb'.head = fdb'.root /\ head = fdb'.root /\ reversible = {}
    BY <1>1, <1>2, <1>4, <1>5 DEF Low
  <2>4. maybe_switch_forks(fdb', p, "best_loop") /\ p = pending_head(fdb')
    BY <1>2, <2>1 DEF p
  <2>5. /\ pc \in Between /\ Tree(fdb') /\ fdb'.root = LogHead /\ mode = "SPECULATIVE"
        /\ head = fdb'.root \/ head \in Valid(fdb')
    BY <1>1, <1>2, <1>5 DEF Between
  <2>6. QED
    BY <1>1, <1>2, <2>2, <2>3, <2>4, <2>5, SwitchStep
<1>6. CASE ~(mode # "IRREVERSIBLE" /\ p # fdb.head /\ (pc = "best" => fdb.head = fdb.root))
  <2>1. pc' = "idle" /\ ret' = "idle" /\ UNCHANGED <<branches, todo>>
    BY <1>6 DEF ApplyBest, Goto, p
  <2>2. Types'
    BY <1>1, <1>2, <2>1 DEF CInv, Types, Running, Between
  <2>3. mode = "SPECULATIVE" => Low(fdb.index)
    <3> SUFFICES ASSUME mode = "SPECULATIVE", pc = "best", fdb.head = fdb.root
                 PROVE  Low(fdb.index)
      BY <1>4
    <3>1. p = fdb.root
      BY <1>6
    <3>2. fdb.index = {}
      BY <1>1, <1>3, <3>1, AboveRoot
    <3>3. QED
      BY <3>2 DEF Low
  <2>4. QED
    BY <1>1, <1>2, <2>1, <2>2, <2>3, ToBetween
<1>7. QED
  BY <1>5, <1>6

(* QuitInit: the fork database is written as it is.                        *)
LEMMA QuitInitStep == CInv /\ QuitInit => CInv'
<1> SUFFICES ASSUME CInv, QuitInit PROVE CInv'
  OBVIOUS
<1>1. /\ pc = "best" /\ file' = fdb /\ pc' = "down"
      /\ UNCHANGED <<mode, fdb, head, pending, reversible, blog, ret, branches, todo>>
  BY DEF QuitInit, Goto
<1>2. /\ mode \in {"SPECULATIVE", "IRREVERSIBLE"} /\ fdb.root = LogHead /\ Tree(fdb)
      /\ pending # "building"
      /\ mode = "IRREVERSIBLE" => reversible = {} /\ fdb.head = LogHead
  BY <1>1, InBetween DEF Between, CInv, Building
<1>3. mode = "SPECULATIVE" => Low(fdb.index) \/ (fdb.head = fdb.root /\ reversible = {})
  BY <1>1 DEF CInv, Resting, Between
<1>4. Types'
  BY <1>1 DEF CInv, Types
<1>5. OnLog(file')
  BY <1>1, <1>2 DEF OnLog
<1>6. QED
  BY <1>1, <1>2, <1>3, <1>4, <1>5, ToDown

-----------------------------------------------------------------------------
(* The invariant is inductive.                                             *)

(* A new node has the genesis block everywhere.                            *)
LEMMA InitCInv == Init => CInv
<1> SUFFICES ASSUME Init PROVE CInv
  OBVIOUS
<1>1. Genesis \in Block /\ Genesis \in anc[Genesis] /\ Tree(reset(Genesis))
  BY TreeAssumption, ResetTree
<1>2. /\ reset(Genesis).root = Genesis /\ reset(Genesis).head = Genesis
      /\ reset(Genesis).index = {} /\ reset(Genesis).validated = {Genesis}
  BY DEF reset
<1>3. mode \in {"SPECULATIVE", "IRREVERSIBLE"}
  BY ControllerAssumption DEF Init
<1>4. blog = <<Genesis>> /\ blog \in Seq(Block) /\ blog # <<>> /\ Len(blog) = 1 /\ LogHead = Genesis
  BY <1>1 DEF Init, LogHead
<1>5. LogBlocks = {Genesis}
  BY <1>4 DEF LogBlocks
<1>6. Types
  BY <1>1, <1>3, <1>4 DEF Init, Types, Running, Between, NoBranches
<1>7. Chained
  BY <1>1, <1>4, <1>5 DEF Chained
<1>8. Stored /\ Started /\ Building /\ Extending /\ NewBranch /\ OldBranch /\ Applied /\ Appending
  BY DEF Init, Stored, Started, Building, Extending, NewBranch, OldBranch, Applied, Appending,
         Starting, Switching, Logging
<1>9. Rooted /\ Irreversible
  BY <1>1, <1>2, <1>4 DEF Init, Rooted, Irreversible, Running, Switching, Logging, Between
<1>10. Resting
  BY <1>1, <1>2, <1>4 DEF Init, Resting, HeadValid, Low, Between
<1>11. QED
  BY <1>1, <1>6, <1>7, <1>8, <1>9, <1>10 DEF Init, CInv

(* Every step preserves it: one lemma per action.                          *)
LEMMA NextCInv == CInv /\ [Next]_vars => CInv'
<1> SUFFICES ASSUME CInv, [Next]_vars PROVE CInv'
  OBVIOUS
<1>1. CASE Step
  <2>1. ASSUME NEW h \in Block, ReplayLog(h) PROVE CInv'
    BY <2>1, ReplayLogStep
  <2>2. QED
    BY <1>1, <2>1, ExtendStep, PopOldStep, ApplyNewStep, PopNewStep, ReapplyOldStep,
       LogIrreversibleStep, LogBlockStep, TrimStep, InitControllerStep, ReplayReversibleStep,
       ApplyBestStep, QuitInitStep
    DEF Step
<1>2. ASSUME NEW b \in Block \ {Genesis}, PushBlock(b) \/ CommitBlock(b) PROVE CInv'
  BY <1>2, PushBlockStep, CommitBlockStep
<1>3. ASSUME NEW m \in Modes, Startup(m) PROVE CInv'
  BY <1>3, StartupStep
<1>4. CASE UNCHANGED vars
  <2>1. /\ UNCHANGED <<mode, fdb, head, pending, reversible, blog, file, pc, ret, branches, todo>>
        /\ UNCHANGED <<LogHead, LogBlocks>>
    BY <1>4 DEF vars, LogHead, LogBlocks
  <2>2. Types' /\ Chained' /\ Tree(fdb)'
    BY <2>1 DEF CInv, Types, Chained, Tree, Valid
  <2>3. Stored' /\ Started' /\ Rooted' /\ Irreversible' /\ Building'
    BY <2>1 DEF CInv, Stored, Started, Rooted, Irreversible, Building, Tree, Valid, OnLog, Fresh, Low
  <2>4. Resting' /\ Extending' /\ Applied' /\ Appending'
    BY <2>1 DEF CInv, Resting, Extending, Applied, Appending, HeadValid, Valid, Fresh, Low, Extends, Top
  <2>5. NewBranch' /\ OldBranch'
    BY <2>1 DEF CInv, NewBranch, OldBranch, Valid, Low, Top
  <2>6. QED
    BY <2>2, <2>3, <2>4, <2>5 DEF CInv
<1>5. QED
  BY <1>1, <1>2, <1>3, <1>4, PendingStep, ShutdownStep, CrashStep, DeleteStateStep DEF Next

-----------------------------------------------------------------------------
(* The theorem.                                                            *)

(* The block log is one branch from the genesis block, and while the node  *)
(* runs the controller's head is above its last block: a block that was    *)
(* made irreversible is never popped, in either read mode, whatever blocks *)
(* arrive, fail or are produced, and wherever the process stops or dies.   *)
THEOREM IrreversibleStays == Spec => []IrreversibleForever
<1>1. CInv => IrreversibleForever
  BY DEF CInv, Chained, Rooted, Running, Switching, Between, IrreversibleForever
<1>2. QED
  BY <1>1, InitCInv, NextCInv, PTL DEF Spec

(* The blocks of a branch with a number above n.                           *)
Above(t, n) == {b \in anc[t] : n < num[b]}

(* The undo states are those of h and the blocks below it, numbered       *)
(* without a gap.                                                          *)
Stacked(d, h) ==
  /\ d \in [low : Nat, stack : Seq(Block)] /\ d.stack # <<>>
  /\ \A i \in 1 .. Len(d.stack) : d.stack[i] \in anc[h] /\ num[d.stack[i]] = d.low + i - 1
  /\ Revision(d) = num[h]

(* While the node runs the chain state can be undone to the log's last     *)
(* block, and no further.                                                  *)
Pushed == pc \in Running => Stacked(aborted(db), head) /\ aborted(db).low = num[LogHead]

(* In irreversible mode log_irreversible is called by push_block alone.    *)
Called == mode = "IRREVERSIBLE" /\ pc \in {"log"} \cup Logging => ret = "idle"

(* Stored reversible blocks are pushed again.                              *)
Replaying == pc = "replay" \/ (ret = "replay" /\ pc \in {"extend", "log", "log_block", "trim"})

(* A block that was just logged is still stored as reversible.             *)
Floor == IF pc = "trim" THEN num[LogHead] - 1 ELSE num[LogHead]

(* The reversible blocks stored are those applied.                         *)
Exact ==
  mode = "SPECULATIVE" /\ pc \in Running /\ ~Replaying => reversible = Above(head, Floor)

(* The reversible blocks stored end in t, and are applied up to the head.  *)
Replayed(t) ==
  /\ head \in anc[t] /\ reversible = Above(t, Floor)
  /\ Top(t) \/ (pc = "replay" /\ t = LogHead /\ fdb.head = fdb.root)
  /\ pc = "extend" => todo \subseteq anc[t]

(* What is stored while it is replayed.                                    *)
Replays == mode = "SPECULATIVE" /\ Replaying => \E t \in Block : Replayed(t)

(* Whatever is stored as reversible is a piece of one branch that reaches  *)
(* down to the log; blocks that were logged may not be trimmed yet.        *)
Segment(R) ==
  \E t \in Block, n \in 0 .. MaxNum :
    /\ R = Above(t, n) /\ n <= num[LogHead]
    /\ t \in anc[LogHead] \/ LogHead \in anc[t]

(* What is stored as reversible, always.                                   *)
Sound == Segment(reversible) /\ reversible \cap invalid = {}

(* No block known is better than the head, once a call has applied all it  *)
(* should.                                                                 *)
Bests ==
  mode = "SPECULATIVE" =>
    /\ pc = "idle" => Top(head)
    /\ pc = "best" => Top(head) \/ (head = fdb.root /\ fdb.head = fdb.root)
    /\ pc = "best_loop" => Top(head) /\ fdb.head = head
    /\ pc \in {"log"} \cup Logging /\ ret # "replay" =>
         Top(head) /\ (ret = "best_loop" => fdb.head = head)

(* A child of the head is applied: it is the best block, and without it    *)
(* the head is.                                                            *)
Onward ==
  pc = "extend" /\ ret # "replay" =>
    \E t \in fdb.index :
      /\ todo = {t} /\ Top(t)
      /\ ret = "idle" => \A c \in fdb.index \ {t} : ~first_preferred(c, head)
      /\ ret = "best_loop" => head = fdb.root /\ fdb.head = fdb.root

(* A switch from s to t, where it stands: the old branch is popped from    *)
(* the head down, the new one applied from the head up; after a failure    *)
(* the same the other way round.                                           *)
Fork(s, t) ==
  /\ branches.first = anc[t] \ anc[s] /\ branches.second = anc[s] \ anc[t]
  /\ LogHead \in anc[s] /\ LogHead \in anc[t]
  /\ ret = "best_loop" => s = LogHead
  /\ pc \in {"pop", "apply"} =>
       /\ t \in fdb.index /\ Top(t)
       /\ ret = "idle" => \A c \in fdb.index \ {t} : ~first_preferred(c, s)
       /\ ret = "best_loop" => fdb.validated \subseteq anc[t]
  /\ pc \in {"unapply", "reapply"} /\ ret = "idle" => Top(s)
  /\ pc = "pop" => head \in anc[s] /\ head \notin anc[t] /\ todo = anc[head] \ anc[t]
  /\ pc = "apply" => /\ head \in anc[t] /\ head # t /\ todo = Above(t, num[head])
                     /\ todo \cap anc[s] = {}
  /\ pc = "unapply" => head \in anc[t] /\ head \notin anc[s] /\ todo = anc[head] \ anc[s]
  /\ pc = "reapply" => head \in anc[s] /\ head # s /\ todo = Above(s, num[head])

(* A switch of forks, from some s to some t.                               *)
Forking == pc \in Switching \ {"extend"} => ret # "replay" /\ \E s, t \in Block : Fork(s, t)

(* A fork database with nothing but a block of the log.                    *)
LogBlockOnly(d) == \E b \in LogBlocks : d = reset(b)

(* A fork database as a run leaves it that ended with s as the head.       *)
SavedAs(d, s) ==
  /\ LogHead \in anc[s] /\ reversible = Above(s, num[LogHead]) /\ d.root = LogHead
  /\ \/ s = LogHead /\ d.head = d.root
     \/ /\ s \in d.index /\ \A c \in d.index : ~first_preferred(c, s)
        /\ s \in d.validated \/ d.head = d.root

(* What fork_db.dat may hold.                                              *)
Files(d) == LogBlockOnly(d) \/ \E s \in Block : SavedAs(d, s)

(* The chain state of a block of the log, with nothing to undo.            *)
OneState == \E x \in LogBlocks : db = Db(num[x], <<x>>)

(* The chain state beside it: of a log block, or of the run's head.        *)
States(d) ==
  OneState \/ \E s \in Block : SavedAs(d, s) /\ Stacked(db, s) /\ db.low = num[LogHead]

(* What the process finds when it starts.                                  *)
Off ==
  pc = "down" =>
    /\ file = NoFile => db = NoState
    /\ file # NoFile => Files(file) /\ (db = NoState \/ States(file))

(* What init finds: the head is the fork database's, or the node starts    *)
(* from the genesis state.                                                 *)
Opened ==
  pc = "init" =>
    /\ Files(fdb) /\ States(fdb)
    /\ head = fdb.head \/ (head = Genesis /\ db = Db(num[Genesis], <<Genesis>>))

(* The state was undone to the head; the stored blocks end in t, above it. *)
Rewound ==
  pc = "replay_log" =>
    /\ Stacked(db, head)
    /\ db.low = num[LogHead] \/ (db.low = num[head] /\ head \in LogBlocks)
    /\ \E t \in Block :
         /\ LogHead \in anc[t] /\ head \in anc[t] /\ reversible = Above(t, num[LogHead])
         /\ LogBlockOnly(fdb) \/ SavedAs(fdb, t)

(* The second inductive invariant, relative to the first: the stores.      *)
SInv ==
  /\ Pushed /\ Called /\ Exact /\ Replays /\ Sound /\ Bests /\ Onward /\ Forking
  /\ Off /\ Opened /\ Rewound

-----------------------------------------------------------------------------
(* Preference among blocks.                                                *)

(* Preference is by lib and number: a weak order.                          *)
LEMMA NotPreferred ==
  ASSUME NEW a \in Block, NEW b \in Block
  PROVE  /\ \A c \in Block : ~first_preferred(a, b) /\ ~first_preferred(b, c) => ~first_preferred(a, c)
         /\ ~first_preferred(b, a) => lib[b] < lib[a] \/ (lib[b] = lib[a] /\ num[b] <= num[a])
         /\ a \in anc[b] => ~first_preferred(a, b)
         /\ a \in anc[b] /\ ~first_preferred(b, a) => a = b
<1>1. \A c \in Block : lib[c] \in Nat /\ num[c] \in Nat
  BY Ancestors
<1>2. a \in anc[b] => lib[a] <= lib[b] /\ (a = b \/ num[a] < num[b])
  BY Ancestors
<1>3. QED
  BY <1>1, <1>2 DEF first_preferred

-----------------------------------------------------------------------------
(* Branches and their upper parts.                                         *)

(* The part of a branch above a number, when a child is applied or popped. *)
LEMMA AboveChild ==
  ASSUME NEW b \in Block, b # Genesis, NEW n \in Int, n <= num[prev[b]]
  PROVE  /\ Above(b, n) = Above(prev[b], n) \cup {b}
         /\ {r \in Above(b, n) : num[r] # num[b]} = Above(prev[b], n)
<1>1. /\ prev[b] \in Block /\ anc[b] = {b} \cup anc[prev[b]]
      /\ num[b] = num[prev[b]] + 1 /\ b \notin anc[prev[b]]
  BY Child
<1>2. num[b] \in Nat /\ num[prev[b]] \in Nat
  BY <1>1, Ancestors
<1>3. \A r \in anc[prev[b]] : num[r] \in Nat /\ num[r] <= num[prev[b]]
  BY <1>1, <1>2, Ancestors
<1>4. n < num[b]
  BY <1>1, <1>2
<1>5. Above(b, n) = Above(prev[b], n) \cup {b}
  BY <1>1, <1>4 DEF Above
<1>6. \A r \in anc[prev[b]] : num[r] # num[b]
  BY <1>1, <1>2, <1>3
<1>7. QED
  BY <1>5, <1>6 DEF Above

(* Above a block of the branch there are the blocks not below it.          *)
LEMMA AboveBlock ==
  ASSUME NEW t \in Block, NEW l \in anc[t]
  PROVE  /\ Above(t, num[l]) = anc[t] \ anc[l]
         /\ Above(l, num[l]) = {}
         /\ t = l \/ t \in Above(t, num[l])
<1>1. l \in Block /\ anc[l] \subseteq anc[t] /\ t \in anc[t] /\ l \in anc[l]
  BY Ancestors
<1>2. \A b \in Block : num[b] \in Nat
  BY Ancestors
<1>3. ASSUME NEW b \in anc[t] PROVE num[l] < num[b] <=> b \notin anc[l]
  <2>1. b \in Block
    BY Ancestors
  <2>2. CASE b \in anc[l]
    <3>1. b = l \/ num[b] < num[l]
      BY <1>1, <2>2, Ancestors
    <3>2. QED
      BY <1>1, <1>2, <2>1, <2>2, <3>1
  <2>3. CASE b \notin anc[l]
    <3>1. ~(num[b] <= num[l])
      BY <2>3, OnOneBranch
    <3>2. QED
      BY <1>1, <1>2, <2>1, <2>3, <3>1
  <2>4. QED
    BY <2>2, <2>3
<1>4. Above(t, num[l]) = anc[t] \ anc[l]
  BY <1>3 DEF Above
<1>5. Above(l, num[l]) = {}
  BY <1>1, <1>3 DEF Above
<1>6. t = l \/ t \notin anc[l]
  BY <1>1, <1>2, Ancestors
<1>7. QED
  BY <1>1, <1>4, <1>5, <1>6

(* Two branches with the same upper part end in the same block.            *)
LEMMA SameAbove ==
  ASSUME NEW s \in Block, NEW t \in Block, NEW n \in Int, Above(s, n) = Above(t, n), n < num[s]
  PROVE  s = t
<1>1. s \in anc[s] /\ t \in anc[t]
  BY Ancestors
<1>2. s \in anc[t]
  BY <1>1 DEF Above
<1>3. s = t \/ num[s] < num[t]
  BY <1>2, Ancestors
<1>4. CASE num[s] < num[t]
  <2>1. n < num[t] => t \in anc[s]
    BY <1>1 DEF Above
  <2>2. t \in anc[s] => s = t \/ num[t] < num[s]
    BY Ancestors
  <2>3. num[s] \in Nat /\ num[t] \in Nat
    BY Ancestors
  <2>4. QED
    BY <1>4, <2>1, <2>2, <2>3
<1>5. QED
  BY <1>3, <1>4

-----------------------------------------------------------------------------
(* The stack of undo states.                                               *)

(* The current state is that of the branch's last block.                   *)
LEMMA StackTop ==
  ASSUME NEW h \in Block, NEW d, Stacked(d, h)
  PROVE  /\ Len(d.stack) \in Nat /\ Len(d.stack) = num[h] - d.low + 1 /\ Len(d.stack) >= 1
         /\ d.low \in Nat /\ d.low <= num[h] /\ num[h] \in Nat
         /\ Current(d) = h /\ d.stack[Len(d.stack)] = h
<1>1. d.low \in Nat /\ d.stack \in Seq(Block) /\ d.stack # <<>> /\ Len(d.stack) \in Nat
  BY DEF Stacked
<1>2. Len(d.stack) >= 1
  BY <1>1
<1>3. num[h] \in Nat /\ h \in anc[h]
  BY Ancestors
<1>4. Len(d.stack) = num[h] - d.low + 1
  BY <1>1, <1>3 DEF Stacked, Revision
<1>5. d.stack[Len(d.stack)] \in anc[h] /\ num[d.stack[Len(d.stack)]] = d.low + Len(d.stack) - 1
  BY <1>1, <1>2 DEF Stacked
<1>6. num[d.stack[Len(d.stack)]] = num[h]
  BY <1>1, <1>3, <1>4, <1>5
<1>7. d.stack[Len(d.stack)] = h
  BY <1>3, <1>5, <1>6, OnOneBranch
<1>8. QED
  BY <1>1, <1>2, <1>3, <1>4, <1>7 DEF Current

(* Each state is that of a child of the block below it.                    *)
LEMMA StackLinks ==
  ASSUME NEW h \in Block, NEW d, Stacked(d, h), NEW l \in anc[h], d.low = num[l]
  PROVE  d.stack[1] = l /\ \A i \in 2 .. Len(d.stack) : prev[d.stack[i]] = d.stack[i - 1]
<1>1. Len(d.stack) \in Nat /\ Len(d.stack) >= 1 /\ d.low \in Nat
  BY StackTop
<1>2. \A i \in 1 .. Len(d.stack) : d.stack[i] \in anc[h] /\ num[d.stack[i]] = d.low + i - 1
  BY DEF Stacked
<1>3. d.stack[1] = l
  <2>1. d.stack[1] \in anc[h] /\ num[d.stack[1]] = num[l]
    BY <1>1, <1>2
  <2>2. QED
    BY <2>1, OnOneBranch
<1>4. ASSUME NEW i \in 2 .. Len(d.stack) PROVE prev[d.stack[i]] = d.stack[i - 1]
  <2> DEFINE x == d.stack[i]
             y == d.stack[i - 1]
  <2>1. /\ x \in anc[h] /\ num[x] = d.low + i - 1
        /\ y \in anc[h] /\ num[y] = d.low + (i - 1) - 1
    BY <1>1, <1>2
  <2> HIDE DEF x, y
  <2>2. num[y] \in Nat /\ num[x] = num[y] + 1 /\ x \in Block /\ y \in Block
    BY <1>1, <2>1, Ancestors
  <2>3. y \in anc[x]
    BY <2>1, <2>2, OnOneBranch
  <2>4. x # Genesis
    BY <2>2, <2>3, TreeAssumption
  <2>5. prev[x] \in Block /\ anc[x] = {x} \cup anc[prev[x]] /\ num[x] = num[prev[x]] + 1
    BY <2>2, <2>4, Child
  <2>6. prev[x] \in anc[x] /\ num[prev[x]] = num[y]
    BY <2>2, <2>5, Ancestors
  <2>7. prev[x] = y
    BY <2>2, <2>3, <2>6, OnOneBranch
  <2>8. QED
    BY <2>7 DEF x, y
<1>5. QED
  BY <1>3, <1>4

(* A block is applied on top.                                              *)
LEMMA StackPush ==
  ASSUME NEW b \in Block, b # Genesis, NEW d, Stacked(d, prev[b])
  PROVE  Stacked(push_session(d, b), b) /\ push_session(d, b).low = d.low
<1>1. /\ prev[b] \in Block /\ anc[b] = {b} \cup anc[prev[b]] /\ num[b] = num[prev[b]] + 1
      /\ num[b] \in Nat
  BY Child, Ancestors
<1>2. Len(d.stack) \in Nat /\ Len(d.stack) = num[prev[b]] - d.low + 1 /\ d.low \in Nat
  BY <1>1, StackTop
<1>3. d \in [low : Nat, stack : Seq(Block)] /\ d.stack \in Seq(Block)
  BY DEF Stacked
<1> DEFINE e == push_session(d, b)
           n == Len(d.stack)
<1>4. /\ e \in [low : Nat, stack : Seq(Block)] /\ e.low = d.low
      /\ e.stack = Append(d.stack, b)
  BY <1>3 DEF push_session
<1>5. Len(e.stack) = n + 1 /\ e.stack # <<>>
  BY <1>2, <1>3, <1>4
<1>6. e.stack[n + 1] = b /\ \A i \in 1 .. n : e.stack[i] = d.stack[i]
  BY <1>2, <1>3, <1>4
<1>7. num[prev[b]] \in Nat
  BY <1>1, Ancestors
<1> HIDE DEF e
<1>8. num[b] = e.low + Len(e.stack) - 1
  BY <1>1, <1>2, <1>4, <1>5, <1>7
<1>9. ASSUME NEW i \in 1 .. Len(e.stack) PROVE e.stack[i] \in anc[b] /\ num[e.stack[i]] = e.low + i - 1
  <2>1. CASE i = n + 1
    BY <1>1, <1>2, <1>4, <1>6, <2>1, <1>5, <1>8
  <2>2. CASE i # n + 1
    <3>1. i \in 1 .. n
      BY <1>2, <1>5, <2>2
    <3>2. QED
      BY <1>1, <1>4, <1>6, <3>1 DEF Stacked
  <2>3. QED
    BY <2>1, <2>2
<1>10. Stacked(e, b)
  BY <1>4, <1>5, <1>8, <1>9 DEF Stacked, Revision
<1>11. QED
  BY <1>4, <1>10 DEF e

(* A part of the stack, up to block h of the branch.                       *)
LEMMA StackCut ==
  ASSUME NEW s \in Block, NEW d, Stacked(d, s), NEW h \in anc[s], d.low <= num[h],
         NEW e, e = Db(d.low, SubSeq(d.stack, 1, num[h] - d.low + 1))
  PROVE  Stacked(e, h) /\ e.low = d.low
<1>1. /\ Len(d.stack) \in Nat /\ Len(d.stack) = num[s] - d.low + 1
      /\ d.low \in Nat /\ num[s] \in Nat
  BY StackTop
<1>2. h \in Block /\ num[h] \in Nat /\ num[h] <= num[s]
  BY <1>1, Ancestors
<1>3. d \in [low : Nat, stack : Seq(Block)] /\ d.stack \in Seq(Block)
  BY DEF Stacked
<1> DEFINE n == num[h] - d.low + 1
<1>4. n \in 1 .. Len(d.stack)
  BY <1>1, <1>2
<1>5. /\ SubSeq(d.stack, 1, n) \in Seq(Block) /\ Len(SubSeq(d.stack, 1, n)) = n
      /\ \A i \in 1 .. n : SubSeq(d.stack, 1, n)[i] = d.stack[i]
  BY <1>1, <1>3, <1>4
<1>6. e \in [low : Nat, stack : Seq(Block)] /\ e.low = d.low /\ e.stack = SubSeq(d.stack, 1, n)
  BY <1>1, <1>5 DEF Db
<1>7. Len(e.stack) = n /\ e.stack # <<>> /\ \A i \in 1 .. n : e.stack[i] = d.stack[i]
  BY <1>4, <1>5, <1>6
<1>8. num[h] = e.low + Len(e.stack) - 1
  <2>1. num[h] = d.low + n - 1
    BY <1>1, <1>2
  <2> HIDE DEF n
  <2>2. QED
    BY <1>6, <1>7, <2>1
<1>9. ASSUME NEW i \in 1 .. Len(e.stack) PROVE e.stack[i] \in anc[h] /\ num[e.stack[i]] = e.low + i - 1
  <2>1. /\ i \in 1 .. Len(d.stack) /\ e.stack[i] = d.stack[i] /\ i <= n
    BY <1>1, <1>4, <1>7
  <2>2. e.stack[i] \in anc[s] /\ num[e.stack[i]] = d.low + i - 1
    BY <2>1 DEF Stacked
  <2>3. num[e.stack[i]] <= num[h]
    BY <1>1, <1>2, <2>1, <2>2
  <2>4. QED
    BY <1>6, <2>2, <2>3, OnOneBranch
<1>10. QED
  BY <1>6, <1>7, <1>8, <1>9 DEF Stacked, Revision

(* A block is popped.                                                      *)
LEMMA StackUndo ==
  ASSUME NEW h \in Block, h # Genesis, NEW d, Stacked(d, h), d.low < num[h]
  PROVE  Stacked(undo(d), prev[h]) /\ undo(d).low = d.low
<1>1. /\ prev[h] \in anc[h] /\ num[h] = num[prev[h]] + 1 /\ prev[h] \in Block /\ num[prev[h]] \in Nat
  BY Child, Ancestors
<1>2. /\ Len(d.stack) \in Nat /\ Len(d.stack) = num[h] - d.low + 1
      /\ d.low \in Nat /\ num[h] \in Nat
  BY StackTop
<1>3. Len(d.stack) # 1 /\ Len(d.stack) - 1 = num[prev[h]] - d.low + 1 /\ d.low <= num[prev[h]]
  BY <1>1, <1>2
<1>4. undo(d) = [d EXCEPT !.stack = SubSeq(@, 1, Len(@) - 1)]
  BY <1>3 DEF undo
<1>5. undo(d) = Db(d.low, SubSeq(d.stack, 1, num[prev[h]] - d.low + 1))
  BY <1>3, <1>4 DEF Db, Stacked
<1>6. QED
  BY <1>1, <1>3, <1>5, StackCut

(* The first k members of a sequence are dropped.                          *)
LEMMA Dropped ==
  ASSUME NEW S, NEW q \in Seq(S), NEW k \in Nat, k < Len(q)
  PROVE  /\ SubSeq(q, k + 1, Len(q)) \in Seq(S) /\ Len(SubSeq(q, k + 1, Len(q))) = Len(q) - k
         /\ \A i \in 1 .. Len(q) - k :
              k + i \in 1 .. Len(q) /\ SubSeq(q, k + 1, Len(q))[i] = q[k + i]
OBVIOUS

(* The states below n are given up.                                        *)
LEMMA StackCommit ==
  ASSUME NEW h \in Block, NEW d, Stacked(d, h), NEW n \in Nat, d.low < n, n <= num[h]
  PROVE  Stacked(commit(d, n), h) /\ commit(d, n).low = n
<1>1. /\ Len(d.stack) \in Nat /\ Len(d.stack) = num[h] - d.low + 1
      /\ d.low \in Nat /\ num[h] \in Nat
  BY StackTop
<1>2. d \in [low : Nat, stack : Seq(Block)] /\ d.stack \in Seq(Block) /\ Revision(d) = num[h]
  BY DEF Stacked
<1> DEFINE k == n - d.low
           m == Len(d.stack)
           t == SubSeq(d.stack, k + 1, m)
           e == Db(n, t)
<1>3. k \in Nat /\ k + 1 \in 1 .. m /\ d.low + k = n /\ ~(n <= d.low)
  BY <1>1
<1>4. (IF n < Revision(d) THEN n - d.low ELSE Len(d.stack) - 1) = k
  BY <1>1, <1>2
<1>5. commit(d, n) = e
  BY <1>3, <1>4 DEF commit
<1> HIDE DEF k
<1>6. /\ t \in Seq(Block) /\ Len(t) = m - k
      /\ \A i \in 1 .. m - k : k + i \in 1 .. m /\ t[i] = d.stack[k + i]
  <2>1. k \in Nat /\ k < Len(d.stack)
    BY <1>1, <1>3
  <2>2. QED
    BY <1>2, <2>1, Dropped
<1>7. /\ e \in [low : Nat, stack : Seq(Block)] /\ e.low = n /\ e.stack = t
      /\ Len(e.stack) = m - k
  BY <1>6 DEF Db
<1>8. e.stack # <<>>
  BY <1>1, <1>3, <1>6, <1>7
<1>9. /\ d.low \in Int /\ num[h] \in Int /\ m \in Int /\ k \in Int /\ n \in Int
      /\ m = num[h] - d.low + 1 /\ d.low + k = n
  BY <1>1, <1>3
<1> HIDE DEF e, t, m
<1>10. num[h] = e.low + Len(e.stack) - 1
  <2>1. n + (m - k) - 1 = num[h]
    BY <1>9
  <2>2. QED
    BY <1>7, <2>1
<1>11. ASSUME NEW i \in 1 .. Len(e.stack) PROVE e.stack[i] \in anc[h] /\ num[e.stack[i]] = e.low + i - 1
  <2>1. i \in 1 .. m - k /\ i \in Int
    BY <1>7, <1>9
  <2>2. k + i \in 1 .. Len(d.stack) /\ e.stack[i] = d.stack[k + i]
    BY <1>6, <1>7, <2>1 DEF m
  <2>3. d.stack[k + i] \in anc[h] /\ num[d.stack[k + i]] = d.low + (k + i) - 1
    BY <2>2 DEF Stacked
  <2>4. d.low + (k + i) - 1 = (d.low + k) + i - 1
    BY <1>9, <2>1
  <2>5. d.low + (k + i) - 1 = n + i - 1
    BY <1>9, <2>4
  <2>6. QED
    BY <1>7, <2>2, <2>3, <2>5
<1>12. Stacked(e, h)
  BY <1>7, <1>8, <1>10, <1>11 DEF Stacked, Revision
<1>13. QED
  BY <1>5, <1>7, <1>12, Zenon

(* A state alone.                                                          *)
LEMMA StackOne ==
  ASSUME NEW x \in Block
  PROVE  /\ Stacked(Db(num[x], <<x>>), x) /\ Db(num[x], <<x>>).low = num[x]
         /\ Revision(Db(num[x], <<x>>)) = num[x]
<1>1. x \in anc[x] /\ num[x] \in Nat
  BY Ancestors
<1>2. <<x>> \in Seq(Block) /\ Len(<<x>>) = 1 /\ <<x>>[1] = x /\ <<x>> # <<>>
  OBVIOUS
<1>3. QED
  BY <1>1, <1>2 DEF Stacked, Revision, Db

(* The session of a pending block comes and goes.                          *)
LEMMA StackScratch ==
  ASSUME NEW h \in Block, NEW d, Stacked(d, h)
  PROVE  undo(push_session(d, Scratch)) = d
<1>1. d \in [low : Nat, stack : Seq(Block)] /\ d.stack \in Seq(Block)
  BY DEF Stacked
<1>2. Len(d.stack) \in Nat /\ Len(d.stack) >= 1
  BY StackTop
<1> DEFINE a == Append(d.stack, Scratch)
<1>3. d.stack \in Seq(Block \cup {Scratch})
  BY <1>1
<1>4. Len(a) = Len(d.stack) + 1 /\ SubSeq(a, 1, Len(a) - 1) = d.stack
  BY <1>2, <1>3
<1>5. push_session(d, Scratch) = [low |-> d.low, stack |-> a]
  <2>1. push_session(d, Scratch) = [d EXCEPT !.stack = a]
    BY DEF push_session
  <2> HIDE DEF a
  <2>2. QED
    BY <1>1, <2>1
<1>6. Len(a) # 1
  BY <1>2, <1>4
<1> HIDE DEF a
<1>7. undo([low |-> d.low, stack |-> a]) = [low |-> d.low, stack |-> d.stack]
  BY <1>4, <1>6 DEF undo
<1>8. QED
  BY <1>1, <1>5, <1>7

-----------------------------------------------------------------------------
(* Walking along branches.                                                 *)

(* What is left of the upper part of a branch above a higher number.       *)
LEMMA AboveHigher ==
  ASSUME NEW t \in Block, NEW n \in Int, NEW m \in Int, n <= m
  PROVE  {r \in Above(t, n) : num[r] > m} = Above(t, m)
<1>1. \A r \in anc[t] : num[r] \in Nat
  BY Ancestors
<1>2. QED
  BY <1>1 DEF Above

(* The lowest block above h is its child; the rest is above that one.      *)
LEMMA LowestAbove ==
  ASSUME NEW t \in Block, NEW h \in anc[t], h # t,
         NEW b, b = Lowest(Above(t, num[h]))
  PROVE  /\ b \in Above(t, num[h]) /\ b \in anc[t] /\ b \in Block /\ b # Genesis /\ prev[b] = h
         /\ num[b] = num[h] + 1
         /\ Above(t, num[h]) \ {b} = Above(t, num[b])
         /\ Above(t, num[h]) = {b} <=> b = t
<1> DEFINE S == Above(t, num[h])
<1>1. PICK c \in anc[t] : c # Genesis /\ prev[c] = h /\ num[c] = num[h] + 1
  BY NextOnBranch
<1>2. h \in Block /\ c \in Block /\ anc[t] \subseteq Block /\ \A r \in Block : num[r] \in Nat
  BY Ancestors
<1>3. c \in S /\ S \subseteq Block
  BY <1>1, <1>2 DEF Above
<1>4. b \in S /\ \A x \in S : num[b] <= num[x]
  BY <1>3, LowestIn
<1>5. b \in anc[t] /\ num[h] < num[b] /\ num[b] <= num[c] /\ b \in Block
  BY <1>2, <1>3, <1>4 DEF Above
<1>6. num[b] = num[c]
  BY <1>1, <1>2, <1>5
<1>7. b = c
  BY <1>1, <1>5, <1>6, OnOneBranch
<1>8. S \ {b} = Above(t, num[b])
  <2>1. ASSUME NEW r \in anc[t] PROVE (num[h] < num[r] /\ r # b) <=> num[b] < num[r]
    <3>1. num[r] \in Nat /\ num[h] \in Nat /\ num[b] = num[h] + 1
      BY <1>1, <1>2, <1>7
    <3>2. num[r] = num[b] => r = b
      BY <1>5, OnOneBranch
    <3>3. QED
      BY <3>1, <3>2
  <2>2. QED
    BY <2>1 DEF Above
<1>9. S = {b} <=> b = t
  <2>1. t \in S
    <3>1. num[h] < num[t] /\ t \in anc[t]
      BY Ancestors
    <3>2. QED
      BY <3>1 DEF Above
  <2>2. b = t => Above(t, num[b]) = {}
    BY AboveBlock, Ancestors
  <2>3. QED
    BY <1>4, <1>8, <2>1, <2>2
<1>10. QED
  BY <1>1, <1>4, <1>5, <1>7, <1>8, <1>9

(* Where the branch of a leaves that of c: h is its first block of its own.*)
LEMMA Parting ==
  ASSUME NEW a \in Block, NEW c \in Block, NEW h \in anc[a], h \notin anc[c],
         h # Genesis, prev[h] \in anc[c]
  PROVE  /\ prev[h] \in anc[a] /\ h \in Block
         /\ anc[a] \ anc[c] = Above(a, num[prev[h]])
         /\ anc[c] \ anc[a] = Above(c, num[prev[h]])
         /\ Lowest(anc[a] \ anc[c]) = h
<1>1. /\ h \in Block /\ prev[h] \in Block /\ anc[h] = {h} \cup anc[prev[h]]
      /\ num[h] = num[prev[h]] + 1 /\ h \notin anc[prev[h]] /\ num[prev[h]] \in Nat
  BY Child, Ancestors
<1>2. prev[h] \in anc[a] /\ anc[prev[h]] \subseteq anc[a] /\ anc[prev[h]] \subseteq anc[c]
  BY <1>1, Ancestors
<1>3. ASSUME NEW x \in anc[a], x \in anc[c] PROVE x \in anc[prev[h]]
  <2>1. x \in Block /\ (x \in anc[h] \/ h \in anc[x])
    BY TreeAssumption, Ancestors
  <2>2. h \notin anc[x]
    BY <1>3, Ancestors
  <2>3. x # h
    BY <1>3
  <2>4. QED
    BY <1>1, <2>1, <2>2, <2>3
<1>4. anc[a] \ anc[c] = anc[a] \ anc[prev[h]] /\ anc[c] \ anc[a] = anc[c] \ anc[prev[h]]
  BY <1>2, <1>3
<1>5. /\ Above(a, num[prev[h]]) = anc[a] \ anc[prev[h]]
      /\ Above(c, num[prev[h]]) = anc[c] \ anc[prev[h]]
  BY <1>2, AboveBlock
<1>6. prev[h] # a
  BY <1>1, Ancestors
<1> DEFINE b == Lowest(Above(a, num[prev[h]]))
<1>7. b \in anc[a] /\ num[b] = num[prev[h]] + 1
  BY <1>2, <1>6, LowestAbove
<1>8. b = h
  <2> HIDE DEF b
  <2>1. num[b] = num[h]
    BY <1>1, <1>7
  <2>2. QED
    BY <1>7, <2>1, OnOneBranch
<1>9. QED
  BY <1>1, <1>2, <1>4, <1>5, <1>8

(* Every branch begins with the genesis block.                             *)
LEMMA GenesisBelow ==
  ASSUME NEW c \in Block
  PROVE  Genesis \in anc[c]
<1> DEFINE x == Lowest(anc[c])
<1>1. anc[c] \subseteq Block /\ c \in anc[c]
  BY Ancestors
<1>2. x \in anc[c] /\ \A y \in anc[c] : num[x] <= num[y]
  BY <1>1, LowestIn
<1> HIDE DEF x
<1>3. SUFFICES ASSUME x # Genesis PROVE FALSE
  BY <1>2
<1>4. x \in Block /\ prev[x] \in Block /\ anc[x] = {x} \cup anc[prev[x]] /\ num[x] = num[prev[x]] + 1
  BY <1>1, <1>2, <1>3, Child
<1>5. prev[x] \in anc[c] /\ num[prev[x]] \in Nat
  BY <1>2, <1>4, Ancestors
<1>6. QED
  BY <1>2, <1>4, <1>5

(* The highest block of the branch of h outside of that of c is h.         *)
LEMMA HighestOwn ==
  ASSUME NEW h \in Block, NEW c \in Block, h \notin anc[c]
  PROVE  /\ Highest(anc[h] \ anc[c]) = h /\ h # Genesis
         /\ (anc[h] \ anc[c]) \ {h} = anc[prev[h]] \ anc[c]
         /\ anc[h] \ anc[c] = {h} <=> prev[h] \in anc[c]
<1> DEFINE S == anc[h] \ anc[c]
           b == Highest(S)
<1>1. h \in S /\ S \subseteq Block
  BY Ancestors
<1>2. b \in S /\ \A x \in S : num[x] <= num[b]
  BY <1>1, HighestIn
<1>3. b = h
  <2> HIDE DEF b
  <2>1. b = h \/ num[b] < num[h]
    BY <1>2, Ancestors
  <2>2. num[b] \in Nat /\ num[h] \in Nat /\ num[h] <= num[b]
    BY <1>1, <1>2, Ancestors
  <2>3. QED
    BY <2>1, <2>2
<1>5. h # Genesis
  BY GenesisBelow
<1>6. prev[h] \in Block /\ anc[h] = {h} \cup anc[prev[h]] /\ h \notin anc[prev[h]]
  BY <1>5, Child
<1>7. prev[h] \in anc[c] => anc[prev[h]] \subseteq anc[c]
  BY Ancestors
<1>8. prev[h] \in anc[prev[h]]
  BY <1>6, Ancestors
<1>9. QED
  BY <1>1, <1>3, <1>5, <1>6, <1>7, <1>8

-----------------------------------------------------------------------------
(* The reversible blocks.                                                  *)

(* The upper part of a branch that meets the log is a segment.             *)
LEMMA SegmentAbove ==
  ASSUME CInv, NEW t \in Block, t \in anc[LogHead] \/ LogHead \in anc[t], NEW n \in Nat, n <= num[LogHead]
  PROVE  Segment(Above(t, n))
<1>1. LogHead \in Block
  BY LogFacts DEF CInv
<1>2. num[LogHead] \in 0 .. MaxNum /\ MaxNum \in Nat
  BY <1>1, NumAssumption
<1>3. n \in 0 .. MaxNum
  BY <1>2
<1>4. QED
  BY <1>3 DEF Segment

(* While the node runs they are one.                                       *)
LEMMA RunningSegment == CInv /\ Exact /\ Replays /\ pc \in Running => Segment(reversible)
<1> SUFFICES ASSUME CInv, Exact, Replays, pc \in Running PROVE Segment(reversible)
  OBVIOUS
<1>1. LogHead \in Block /\ LogHead \in anc[head] /\ head \in Block /\ mode \in {"SPECULATIVE", "IRREVERSIBLE"}
  BY LogFacts DEF CInv, Rooted, Types
<1>2. num[LogHead] \in Nat /\ LogHead \in anc[LogHead]
  BY <1>1, Ancestors
<1>3. Floor \in Nat /\ Floor <= num[LogHead]
  <2>1. CASE pc # "trim"
    BY <1>2, <2>1 DEF Floor
  <2>2. CASE pc = "trim"
    <3>1. LogHead \in fdb.index /\ Tree(fdb)
      BY <2>2 DEF CInv, Appending, Logging
    <3>2. num[fdb.root] < num[LogHead] /\ fdb.root \in Block
      BY <3>1, AboveRoot
    <3>3. num[fdb.root] \in Nat
      BY <3>2, Ancestors
    <3>4. QED
      BY <1>2, <2>2, <3>2, <3>3 DEF Floor
  <2>3. QED
    BY <2>1, <2>2
<1>4. CASE mode = "IRREVERSIBLE"
  <2>1. reversible = {}
    BY <1>4 DEF CInv, Irreversible
  <2>2. Above(LogHead, num[LogHead]) = {}
    BY <1>1, <1>2, AboveBlock
  <2>3. Segment(Above(LogHead, num[LogHead]))
    BY <1>1, <1>2, SegmentAbove
  <2>4. QED
    BY <2>1, <2>2, <2>3
<1>5. CASE mode = "SPECULATIVE" /\ ~Replaying
  <2>1. reversible = Above(head, Floor)
    BY <1>5 DEF Exact
  <2>2. QED
    BY <1>1, <1>3, <2>1, SegmentAbove
<1>6. CASE mode = "SPECULATIVE" /\ Replaying
  <2>1. PICK t \in Block : head \in anc[t] /\ reversible = Above(t, Floor)
    BY <1>6 DEF Replays, Replayed
  <2>2. LogHead \in anc[t]
    BY <1>1, <2>1, Ancestors
  <2>3. QED
    BY <1>3, <2>1, <2>2, SegmentAbove
<1>7. QED
  BY <1>1, <1>4, <1>5, <1>6

(* They stay sound when they, and the log, are left alone.                 *)
LEMMA SameSound ==
  ASSUME Sound, UNCHANGED <<invalid, reversible, blog>>
  PROVE  Sound'
BY DEF Sound, Segment, LogHead

-----------------------------------------------------------------------------
(* What is left to show when a step ends at a given point.                 *)

(* An assertion fails.                                                     *)
LEMMA ToFailedS ==
  ASSUME pc' = "failed", Sound'
  PROVE  SInv'
BY DEF SInv, Pushed, Called, Exact, Replays, Replaying, Bests, Onward, Forking, Off, Opened, Rewound,
       Running, Switching, Logging, Between

(* The process ends.                                                       *)
LEMMA ToDownS ==
  ASSUME pc' = "down", Sound', Off'
  PROVE  SInv'
BY DEF SInv, Pushed, Called, Exact, Replays, Replaying, Bests, Onward, Forking, Off, Opened, Rewound,
       Running, Switching, Logging, Between

(* A call goes on or ends: the reversible blocks are a segment.            *)
LEMMA ToRunningS ==
  ASSUME CInv', pc' \in Running, Pushed', Called', Exact', Replays', Bests', Onward', Forking',
         reversible' \cap invalid' = {}
  PROVE  SInv'
<1>0. (CInv /\ Exact /\ Replays /\ pc \in Running)'
  BY DEF Running, Switching, Logging, Between
<1>1. Segment(reversible)'
  BY <1>0, RunningSegment, PTL
<1>2. Sound'
  BY <1>1 DEF Sound
<1>3. Off' /\ Opened' /\ Rewound'
  BY DEF Off, Opened, Rewound, Running, Switching, Logging, Between
<1>4. QED
  BY <1>2, <1>3 DEF SInv

(* A fork switch goes on: head and reversible blocks are those of one      *)
(* branch.                                                                 *)
LEMMA ToSwitchingS ==
  ASSUME CInv', pc' \in Switching \ {"extend"}, Forking', pending' # "building",
         Stacked(db', head'), db'.low = num[LogHead'], reversible' = Above(head', num[LogHead']),
         reversible' \cap invalid' = {}
  PROVE  SInv'
<1>1. Pushed' /\ Exact'
  BY DEF Pushed, Exact, aborted, Floor, Switching
<1>2. Called' /\ Replays' /\ Bests' /\ Onward'
  BY DEF Called, Replays, Replaying, Bests, Onward, Switching, Logging
<1>3. QED
  BY <1>1, <1>2, ToRunningS DEF Running

(* A block is about to be applied on the head, or was.                     *)
LEMMA ToLinearS ==
  ASSUME CInv', pc' \in {"extend", "log"} \cup Logging \cup Between, Called', Exact', Replays', Bests',
         Onward', pending' # "building", Stacked(db', head'), db'.low = num[LogHead'],
         reversible' \cap invalid' = {}
  PROVE  SInv'
<1>1. Pushed'
  BY DEF Pushed, aborted
<1>2. Forking'
  BY DEF Forking, Switching, Logging, Between
<1>3. QED
  BY <1>1, <1>2, ToRunningS DEF Running, Switching

(* In irreversible mode only the chain state is at stake.                  *)
LEMMA ToIrreversibleS ==
  ASSUME CInv', mode' = "IRREVERSIBLE", pc' \in Running, Called', pending' # "building",
         Stacked(db', head'), db'.low = num[LogHead']
  PROVE  SInv'
<1>1. pc' \notin Switching /\ reversible' = {}
  BY DEF CInv, Irreversible
<1>2. Pushed'
  BY DEF Pushed, aborted
<1>3. Exact' /\ Replays' /\ Bests' /\ Onward' /\ Forking'
  BY <1>1 DEF Exact, Replays, Bests, Onward, Forking, Switching
<1>4. QED
  BY <1>1, <1>2, <1>3, ToRunningS

-----------------------------------------------------------------------------
(* What is known where a step begins.                                      *)

(* While the node runs, outside of block production.                       *)
LEMMA InRunning ==
  ASSUME CInv, SInv, pc \in Running
  PROVE  /\ Stacked(aborted(db), head) /\ aborted(db).low = num[LogHead]
         /\ pending # "building" => aborted(db) = db
         /\ head \in Block /\ LogHead \in Block /\ LogHead \in anc[head] /\ LogHead \in anc[LogHead]
         /\ num[LogHead] \in Nat /\ num[head] \in Nat /\ num[LogHead] <= num[head]
         /\ reversible \cap invalid = {}
         /\ Tree(fdb) /\ fdb.index \subseteq Block
<1>1. LogHead \in Block /\ LogHead \in anc[head] /\ head \in Block
  BY LogFacts DEF CInv, Rooted, Types
<1>2. num[LogHead] \in Nat /\ num[head] \in Nat /\ num[LogHead] <= num[head] /\ LogHead \in anc[LogHead]
  BY <1>1, Ancestors
<1>3. fdb.index \subseteq Block
  BY AboveRoot DEF CInv
<1>4. QED
  BY <1>1, <1>2, <1>3 DEF SInv, Pushed, Sound, aborted, CInv

-----------------------------------------------------------------------------
(* The steps of maybe_switch_forks keep the stores together.               *)

(* What is known in a switch of forks.                                     *)
LEMMA InSwitchS ==
  ASSUME CInv, SInv, pc \in Switching
  PROVE  /\ Stacked(db, head) /\ db.low = num[LogHead]
         /\ pc # "extend" \/ ret # "replay" => reversible = Above(head, num[LogHead])
         /\ ret \in {"idle", "replay", "best_loop"}
<1>1. /\ pending # "building" /\ mode = "SPECULATIVE" /\ pc \in Running
  BY InSwitch
<1>2. Stacked(db, head) /\ db.low = num[LogHead]
  BY <1>1, InRunning
<1>3. Floor = num[LogHead]
  BY DEF Floor, Switching
<1>4. pc # "extend" \/ ret # "replay" => ~Replaying
  BY DEF Replaying, Switching
<1>5. QED
  BY <1>1, <1>2, <1>3, <1>4 DEF SInv, Exact, CInv, Types

(* A block is applied: the three stores move together.                     *)
LEMMA AppliedS ==
  ASSUME CInv, SInv, pc \in Switching, NEW b \in Block, b # Genesis, prev[b] = head, b \notin invalid,
         apply_block(b), UNCHANGED <<invalid, blog, mode>>
  PROVE  /\ Stacked(db', head') /\ db'.low = num[LogHead'] /\ head' = b /\ LogHead' = LogHead
         /\ ret # "replay" => reversible' = Above(head', num[LogHead'])
         /\ ret = "replay" => reversible' = reversible
         /\ reversible' \cap invalid' = {}
<1>1. Stacked(db, head) /\ db.low = num[LogHead]
  BY InSwitchS
<1>2. /\ mode = "SPECULATIVE" /\ LogHead \in Block /\ head \in Block /\ LogHead \in anc[head]
      /\ pc \in Running
  BY InSwitch
<1>3. num[LogHead] \in Nat /\ num[head] \in Nat /\ num[LogHead] <= num[head]
  BY <1>2, InRunning
<1>4. Stacked(db', b) /\ db'.low = num[LogHead]
  BY <1>1, StackPush DEF apply_block
<1>5. head' = b /\ LogHead' = LogHead
  BY DEF apply_block, LogHead
<1>6. reversible' = IF ret = "replay" THEN reversible ELSE reversible \cup {b}
  BY <1>2 DEF apply_block, StoresReversible
<1>7. ret # "replay" => reversible = Above(head, num[LogHead])
  BY InSwitchS
<1>8. Above(b, num[LogHead]) = Above(head, num[LogHead]) \cup {b}
  BY <1>3, AboveChild
<1>9. reversible \cap invalid = {}
  BY <1>2, InRunning
<1>10. QED
  BY <1>4, <1>5, <1>6, <1>7, <1>8, <1>9

(* A block above the log is popped: the three stores move together.        *)
LEMMA PoppedS ==
  ASSUME CInv, SInv, pc \in Switching \ {"extend"}, head \notin anc[LogHead],
         pop_block, UNCHANGED <<invalid, blog, mode>>
  PROVE  /\ Stacked(db', head') /\ db'.low = num[LogHead'] /\ head' = prev[head] /\ head' \in Block
         /\ LogHead' = LogHead /\ LogHead \in anc[head'] /\ head # Genesis
         /\ reversible' = Above(head', num[LogHead'])
         /\ reversible' \cap invalid' = {} /\ Sound'
<1>1. Stacked(db, head) /\ db.low = num[LogHead] /\ reversible = Above(head, num[LogHead])
  BY InSwitchS
<1>2. /\ mode = "SPECULATIVE" /\ LogHead \in Block /\ head \in Block /\ LogHead \in anc[head]
      /\ pc \in Running
  BY InSwitch
<1>3. num[LogHead] \in Nat /\ num[head] \in Nat /\ reversible \cap invalid = {}
  BY <1>2, InRunning
<1>4. head # LogHead /\ num[LogHead] < num[head] /\ head # Genesis
  BY <1>2, Ancestors, GenesisBelow
<1>5. /\ prev[head] \in Block /\ num[head] = num[prev[head]] + 1 /\ LogHead \in anc[prev[head]]
      /\ num[prev[head]] \in Nat
  <2>1. /\ prev[head] \in Block /\ anc[head] = {head} \cup anc[prev[head]]
        /\ num[head] = num[prev[head]] + 1
    BY <1>2, <1>4, Child
  <2>2. QED
    BY <1>2, <1>4, <2>1, Ancestors
<1>6. num[LogHead] <= num[prev[head]]
  BY <1>3, <1>4, <1>5
<1>7. Stacked(undo(db), prev[head]) /\ undo(db).low = num[LogHead]
  BY <1>1, <1>2, <1>4, StackUndo
<1>8. db' = undo(db) /\ head' = prev[head] /\ LogHead' = LogHead
      /\ reversible' = {r \in reversible : num[r] # num[head]}
  BY DEF pop_block, LogHead
<1>9. reversible' = Above(prev[head], num[LogHead])
  BY <1>1, <1>2, <1>3, <1>4, <1>6, <1>8, AboveChild
<1>10. Segment(Above(prev[head], num[LogHead]))
  BY <1>3, <1>5, SegmentAbove
<1>11. reversible' \cap invalid' = {}
  BY <1>3, <1>8
<1>12. Sound'
  BY <1>8, <1>9, <1>10, <1>11 DEF Sound, Segment
<1>13. QED
  BY <1>4, <1>5, <1>7, <1>8, <1>9, <1>11, <1>12

(* The new head is a child of the old one.                                 *)
LEMMA ExtendS ==
  ASSUME CInv, SInv, CInv', Extend
  PROVE  SInv'
<1>1. pc = "extend" /\ pc \in Switching
  BY DEF Extend, Switching
<1>2. /\ file = NoFile /\ mode = "SPECULATIVE" /\ pending # "building"
      /\ fdb.root = LogHead /\ LogHead \in anc[head] /\ Tree(fdb) /\ pc \in Running
      /\ LogHead \in Block /\ head \in Block /\ fdb.index \subseteq Block
  BY <1>1, InSwitch
<1>3. /\ Stacked(db, head) /\ db.low = num[LogHead]
      /\ ret # "replay" => reversible = Above(head, num[LogHead])
      /\ ret \in {"idle", "replay", "best_loop"}
  BY <1>1, InSwitchS
<1>4. PICK t \in fdb.index : todo = {t} /\ Extends(t) /\ HeadValid
  BY <1>1 DEF CInv, Extending
<1>5. /\ t \in Block /\ t # Genesis /\ prev[t] = head /\ anc[t] = {t} \cup anc[head]
      /\ num[t] = num[head] + 1 /\ t \notin anc[head]
  BY <1>2, <1>4, Child DEF Extends
<1>6. num[LogHead] \in Nat /\ num[head] \in Nat /\ num[LogHead] <= num[head] /\ reversible \cap invalid = {}
  BY <1>2, InRunning
<1>7. ret # "replay" =>
        /\ Top(t)
        /\ ret = "idle" => \A c \in fdb.index \ {t} : ~first_preferred(c, head)
        /\ ret = "best_loop" => head = fdb.root /\ fdb.head = fdb.root
  BY <1>1, <1>4 DEF SInv, Onward
<1>8. ret = "replay" => \E u \in Block : head \in anc[u] /\ reversible = Above(u, num[LogHead]) /\ Top(u) /\ t \in anc[u]
  BY <1>1, <1>2, <1>4 DEF SInv, Replays, Replaying, Replayed, Floor
<1>9. CASE pc' = "failed"
  <2>1. UNCHANGED chain
    BY <1>4, <1>9 DEF Extend, Fail, Throw, Goto
  <2>2. Sound'
    BY <2>1, SameSound DEF SInv, chain
  <2>3. QED
    BY <1>9, <2>2, ToFailedS
<1>10. CASE /\ t \in invalid /\ ~RemoveThrows(fdb, t) /\ fdb' = remove(fdb, t) /\ Throw(fdb')
            /\ UNCHANGED <<invalid, mode, head, db, pending, reversible, blog>>
  <2>1. /\ Tree(fdb') /\ fdb'.root = fdb.root /\ fdb'.head = fdb.head
        /\ fdb'.index = {c \in fdb.index : t \notin anc[c]}
    BY <1>2, <1>10, RemoveTree
  <2>2. ret # "replay"
    <3> SUFFICES ASSUME ret = "replay" PROVE FALSE
      OBVIOUS
    <3>1. PICK u \in Block : reversible = Above(u, num[LogHead]) /\ t \in anc[u]
      BY <1>8
    <3>2. num[LogHead] < num[t]
      BY <1>5, <1>6
    <3>3. QED
      BY <1>6, <1>10, <3>1, <3>2 DEF Above
  <2>3. LogHead' = LogHead
    BY <1>10 DEF LogHead
  <2>4. CASE ret = "idle"
    <3>1. pc' = "idle" /\ ret' = "idle"
      BY <1>10, <2>4, Zenon DEF Throw, Goto
    <3>2. Called' /\ Replays' /\ Onward'
      BY <3>1 DEF Called, Replays, Replaying, Onward, Logging
    <3>3. Exact'
      BY <1>3, <1>10, <2>2, <2>3, <3>1 DEF Exact, Floor
    <3>4. t \in anc[t]
      BY <1>5
    <3>5. Bests'
      BY <1>7, <1>10, <2>1, <2>2, <2>4, <3>1, <3>4 DEF Bests, Top, Logging
    <3>6. QED
      BY <1>2, <1>3, <1>6, <1>10, <2>3, <3>1, <3>2, <3>3, <3>5, ToLinearS DEF Between
  <2>5. CASE ret = "best_loop"
    <3>1. pc' = "down" /\ file' = fdb'
      BY <1>10, <2>5, Zenon DEF Throw, Goto
    <3>2. head = LogHead /\ fdb'.head = fdb'.root /\ fdb'.root = LogHead
      BY <1>2, <1>7, <2>1, <2>5
    <3>3. LogHead \in anc[LogHead] /\ reversible = Above(LogHead, num[LogHead])
      BY <1>2, <1>3, <2>2, <3>2
    <3>4. SavedAs(file, LogHead)' /\ Stacked(db', LogHead) /\ db'.low = num[LogHead']
      BY <1>3, <1>10, <2>3, <3>1, <3>2, <3>3 DEF SavedAs
    <3>5. file' # NoFile
      BY <2>1, <3>1, ControllerAssumption DEF Tree
    <3>6. Off'
      BY <1>2, <2>3, <3>4, <3>5 DEF Off, Files, States
    <3>7. Sound'
      BY <1>10, SameSound DEF SInv
    <3>8. QED
      BY <3>1, <3>6, <3>7, ToDownS
  <2>6. QED
    BY <1>3, <2>2, <2>4, <2>5
<1>11. CASE /\ t \notin invalid /\ apply_block(t) /\ fdb' = mark_valid(fdb, t)
            /\ Goto("log") /\ UNCHANGED <<ret, branches, todo>>
            /\ UNCHANGED <<invalid, mode, pending, blog, file>>
  <2>1. /\ Stacked(db', head') /\ db'.low = num[LogHead'] /\ head' = t /\ LogHead' = LogHead
        /\ ret # "replay" => reversible' = Above(head', num[LogHead'])
        /\ ret = "replay" => reversible' = reversible
        /\ reversible' \cap invalid' = {}
    BY <1>1, <1>5, <1>11, AppliedS
  <2>2. /\ Tree(fdb') /\ fdb'.root = fdb.root /\ fdb'.index = fdb.index
        /\ fdb'.validated = fdb.validated \cup {t}
    BY <1>2, <1>11, MarkTree
  <2>3. pc' = "log" /\ ret' = ret
    BY <1>11 DEF Goto
  <2>4. Called' /\ Onward'
    BY <1>2, <1>11, <2>3 DEF Called, Onward
  <2>5. Exact'
    BY <1>11, <2>1, <2>3 DEF Exact, Floor, Replaying
  <2>6. Replays'
    <3>1. SUFFICES ASSUME ret = "replay" PROVE \E u \in Block : Replayed(u)'
      BY <2>3 DEF Replays, Replaying
    <3>2. PICK u \in Block : head \in anc[u] /\ reversible = Above(u, num[LogHead]) /\ Top(u) /\ t \in anc[u]
      BY <1>8, <3>1
    <3>3. Replayed(u)'
      BY <2>1, <2>2, <2>3, <3>1, <3>2 DEF Replayed, Floor, Top
    <3>4. QED
      BY <3>3
  <2>7. Bests'
    <3>1. SUFFICES ASSUME ret # "replay" PROVE Top(head)' /\ (ret = "best_loop" => fdb'.head = head')
      BY <2>3 DEF Bests, Logging
    <3>2. Top(head)'
      BY <1>7, <2>1, <2>2, <3>1 DEF Top
    <3>3. ASSUME ret = "best_loop" PROVE fdb'.head = t
      <4>1. fdb.validated \subseteq {fdb.root}
        BY <1>2, <1>7, <3>3, NoneValid
      <4>2. fdb'.validated \subseteq anc[t] /\ t \in Valid(fdb')
        BY <1>2, <1>5, <2>2, <4>1 DEF Valid
      <4>3. QED
        BY <2>2, <4>2, BestOnBranch
    <3>4. QED
      BY <2>1, <3>2, <3>3
  <2>8. QED
    BY <1>2, <1>11, <2>1, <2>3, <2>4, <2>5, <2>6, <2>7, ToLinearS
<1>12. QED
  BY <1>4, <1>9, <1>10, <1>11, Zenon DEF Extend, Fail

(* What is known when branches are switched.                               *)
LEMMA InFork ==
  ASSUME CInv, SInv, pc \in Switching \ {"extend"}
  PROVE  ret \in {"idle", "best_loop"} /\ \E s, t \in Block : Fork(s, t)
BY InSwitchS DEF SInv, Forking

(* A switch of forks that has not failed.                                  *)
LEMMA ToForwardS ==
  ASSUME CInv', pc' \in {"pop", "apply"}, NEW s \in Block, NEW t \in Block,
         LogHead' \in anc[s], LogHead' \in anc[t], ret' # "replay", ret' = "best_loop" => s = LogHead',
         branches'.first = anc[t] \ anc[s], branches'.second = anc[s] \ anc[t],
         t \in fdb'.index, Top(t)',
         ret' = "idle" => \A c \in fdb'.index \ {t} : ~first_preferred(c, s),
         ret' = "best_loop" => fdb'.validated \subseteq anc[t],
         pc' = "pop" => head' \in anc[s] /\ head' \notin anc[t] /\ todo' = anc[head'] \ anc[t],
         pc' = "apply" => /\ head' \in anc[t] /\ head' # t /\ todo' = Above(t, num[head'])
                          /\ todo' \cap anc[s] = {},
         pending' # "building", Stacked(db', head'), db'.low = num[LogHead'],
         reversible' = Above(head', num[LogHead']), reversible' \cap invalid' = {}
  PROVE  SInv'
<1>1. Fork(s, t)'
  BY DEF Fork
<1>2. Forking'
  BY <1>1 DEF Forking
<1>3. pc' \in Switching \ {"extend"}
  BY DEF Switching
<1>4. QED
  BY <1>2, <1>3, ToSwitchingS

(* A switch of forks that has failed.                                      *)
LEMMA ToBackwardS ==
  ASSUME CInv', pc' \in {"unapply", "reapply"}, NEW s \in Block, NEW t \in Block,
         LogHead' \in anc[s], LogHead' \in anc[t], ret' # "replay", ret' = "best_loop" => s = LogHead',
         branches'.first = anc[t] \ anc[s], branches'.second = anc[s] \ anc[t],
         ret' = "idle" => Top(s)',
         pc' = "unapply" => head' \in anc[t] /\ head' \notin anc[s] /\ todo' = anc[head'] \ anc[s],
         pc' = "reapply" => head' \in anc[s] /\ head' # s /\ todo' = Above(s, num[head']),
         pending' # "building", Stacked(db', head'), db'.low = num[LogHead'],
         reversible' = Above(head', num[LogHead']), reversible' \cap invalid' = {}
  PROVE  SInv'
<1>1. Fork(s, t)'
  BY DEF Fork
<1>2. Forking'
  BY <1>1 DEF Forking
<1>3. pc' \in Switching \ {"extend"}
  BY DEF Switching
<1>4. QED
  BY <1>2, <1>3, ToSwitchingS

(* One block of the old branch is popped.                                  *)
LEMMA PopOldS ==
  ASSUME CInv, SInv, CInv', PopOld
  PROVE  SInv'
<1>1. pc = "pop" /\ pc \in Switching \ {"extend"}
  BY DEF PopOld, Switching
<1>2. ret \in {"idle", "best_loop"} /\ pending # "building" /\ head \in Block
  BY <1>1, InFork, InSwitch
<1>3. PICK s \in Block, t \in Block : Fork(s, t)
  BY <1>1, InFork
<1>4. /\ branches.first = anc[t] \ anc[s] /\ branches.second = anc[s] \ anc[t]
      /\ LogHead \in anc[s] /\ LogHead \in anc[t] /\ (ret = "best_loop" => s = LogHead)
      /\ t \in fdb.index /\ Top(t)
      /\ ret = "idle" => \A c \in fdb.index \ {t} : ~first_preferred(c, s)
      /\ ret = "best_loop" => fdb.validated \subseteq anc[t]
      /\ head \in anc[s] /\ head \notin anc[t] /\ todo = anc[head] \ anc[t]
  BY <1>1, <1>3 DEF Fork
<1>5. CASE UNCHANGED chain /\ pc' = "failed"
  <2>1. Sound'
    BY <1>5, SameSound DEF SInv, chain
  <2>2. QED
    BY <1>5, <2>1, ToFailedS
<1>6. CASE /\ pop_block /\ UNCHANGED <<invalid, mode, fdb, pending, blog, file>>
           /\ IF todo # {Highest(todo)}
              THEN /\ Goto("pop") /\ todo' = todo \ {Highest(todo)}
                   /\ UNCHANGED <<ret, branches>>
              ELSE IF head' = prev[Lowest(branches.second)]
              THEN Goto("apply") /\ todo' = branches.first /\ UNCHANGED <<ret, branches>>
              ELSE Fail("loss of sync between fork_db and chainbase during fork switch")
  <2>1. head \notin anc[LogHead]
    BY <1>4, Ancestors
  <2>2. /\ Stacked(db', head') /\ db'.low = num[LogHead'] /\ head' = prev[head] /\ head' \in Block
        /\ LogHead' = LogHead /\ LogHead \in anc[head'] /\ head # Genesis
        /\ reversible' = Above(head', num[LogHead'])
        /\ reversible' \cap invalid' = {} /\ Sound'
    BY <1>1, <1>6, <2>1, PoppedS
  <2>3. /\ Highest(todo) = head /\ todo \ {head} = anc[head'] \ anc[t]
        /\ todo = {head} <=> head' \in anc[t]
    BY <1>2, <1>4, <2>2, HighestOwn
  <2>4. head' \in anc[s] /\ Top(t)'
    BY <1>2, <1>4, <1>6, <2>2, Child, Ancestors DEF Top
  <2>5. CASE head' \notin anc[t]
    <3>1. Goto("pop") /\ todo' = todo \ {head} /\ UNCHANGED <<ret, branches>>
      BY <1>6, <2>3, <2>5
    <3>2. pc' = "pop"
      BY <3>1 DEF Goto
    <3>3. QED
      BY <1>2, <1>4, <1>6, <2>2, <2>3, <2>4, <2>5, <3>1, <3>2, ToForwardS
  <2>6. CASE head' \in anc[t]
    <3>1. /\ anc[t] \ anc[s] = Above(t, num[head']) /\ Lowest(anc[s] \ anc[t]) = head
      BY <1>4, <2>2, <2>6, Parting
    <3>2. Goto("apply") /\ todo' = branches.first /\ UNCHANGED <<ret, branches>>
      BY <1>4, <1>6, <2>2, <2>3, <2>6, <3>1
    <3>3. pc' = "apply"
      BY <3>2 DEF Goto
    <3>4. head' # t
      <4>1. branches.first # {}
        BY <1>1 DEF CInv, NewBranch
      <4>2. t \notin anc[s]
        BY <1>4, <4>1, Ancestors
      <4>3. QED
        BY <2>4, <4>2
    <3>5. todo' = Above(t, num[head']) /\ todo' \cap anc[s] = {}
      BY <1>4, <3>1, <3>2
    <3>6. QED
      BY <1>2, <1>4, <1>6, <2>2, <2>4, <2>6, <3>2, <3>3, <3>4, <3>5, ToForwardS
  <2>7. QED
    BY <2>5, <2>6
<1>7. QED
  BY <1>5, <1>6, Zenon DEF PopOld, Fail

(* The new branch is gone: the old one is applied again.                   *)
LEMMA ReversedS ==
  ASSUME CInv, SInv, CInv', pc \in {"apply", "unapply"}, NEW h \in Block, Reversed(h), h = head',
         NEW s \in Block, NEW t \in Block, Fork(s, t), NEW c \in anc[t], c \notin anc[s], c # Genesis,
         prev[c] = h, h \in anc[s],
         UNCHANGED <<blog, pending>>, Sound', ret = "idle" => Top(s)',
         Stacked(db', head'), db'.low = num[LogHead'],
         reversible' = Above(head', num[LogHead']), reversible' \cap invalid' = {}
  PROVE  SInv'
<1>1. pc \in Switching \ {"extend"}
  BY DEF Switching
<1>2. ret \in {"idle", "best_loop"} /\ pending # "building"
  BY <1>1, InFork, InSwitch
<1>3. /\ branches.first = anc[t] \ anc[s] /\ branches.second = anc[s] \ anc[t]
      /\ LogHead \in anc[s] /\ LogHead \in anc[t] /\ (ret = "best_loop" => s = LogHead)
      /\ LogHead' = LogHead
  BY DEF Fork, LogHead
<1>4. CASE pc' = "failed"
  BY <1>4, ToFailedS
<1>5. CASE /\ branches.second # {}
           /\ Goto("reapply") /\ todo' = branches.second /\ UNCHANGED <<ret, branches>>
  <2>0. prev[c] \in anc[s]
    OBVIOUS
  <2>1. anc[s] \ anc[t] = Above(s, num[h]) /\ h \in anc[t]
    <3>1. anc[s] \ anc[t] = Above(s, num[prev[c]]) /\ prev[c] \in anc[t]
      BY <2>0, Parting
    <3>2. QED
      BY <3>1
  <2>2. s \notin anc[t]
    BY <1>3, <1>5, Ancestors
  <2>3. pc' = "reapply" /\ h # s
    BY <1>5, <2>1, <2>2 DEF Goto
  <2>4. QED
    BY <1>2, <1>3, <1>5, <2>1, <2>3, ToBackwardS
<1>6. QED
  BY <1>4, <1>5, Zenon DEF Reversed, Fail

(* A block that failed to be applied goes: nothing left is better than the *)
(* branch the switch came from.                                            *)
LEMMA ApplyNewS ==
  ASSUME CInv, SInv, CInv', ApplyNew
  PROVE  SInv'
<1> DEFINE b == Lowest(todo)
           applied == {c \in branches.first : num[c] < num[b]}
<1>1. pc = "apply" /\ pc \in Switching \ {"extend"}
  BY DEF ApplyNew, Switching
<1>2. /\ ret \in {"idle", "best_loop"} /\ pending # "building" /\ head \in Block /\ Tree(fdb)
      /\ fdb.index \subseteq Block
  BY <1>1, InFork, InSwitch
<1>3. PICK s \in Block, t \in Block : Fork(s, t)
  BY <1>1, InFork
<1>4. /\ branches.first = anc[t] \ anc[s] /\ branches.second = anc[s] \ anc[t]
      /\ LogHead \in anc[s] /\ LogHead \in anc[t] /\ (ret = "best_loop" => s = LogHead)
      /\ t \in fdb.index /\ Top(t)
      /\ ret = "idle" => \A c \in fdb.index \ {t} : ~first_preferred(c, s)
      /\ ret = "best_loop" => fdb.validated \subseteq anc[t]
      /\ head \in anc[t] /\ head # t /\ todo = Above(t, num[head]) /\ todo \cap anc[s] = {}
  BY <1>1, <1>3 DEF Fork
<1>5. /\ b \in todo /\ b \in anc[t] /\ b \in Block /\ b # Genesis /\ prev[b] = head
      /\ num[b] = num[head] + 1
      /\ todo \ {b} = Above(t, num[b]) /\ (todo = {b} <=> b = t)
  <2>1. b = Lowest(Above(t, num[head]))
    BY <1>4
  <2> HIDE DEF b
  <2>2. /\ b \in Above(t, num[head]) /\ b \in anc[t] /\ b \in Block /\ b # Genesis /\ prev[b] = head
        /\ num[b] = num[head] + 1
        /\ Above(t, num[head]) \ {b} = Above(t, num[b])
        /\ Above(t, num[head]) = {b} <=> b = t
    <3>1. head \in anc[t] /\ head # t
      BY <1>4
    <3>2. QED
      BY <2>1, <3>1, LowestAbove, SMTT(30)
  <2>3. QED
    BY <1>4, <2>2
<1>6. b \in fdb.index /\ b \notin anc[s]
  BY <1>1, <1>4, <1>5 DEF CInv, NewBranch
<1>7. /\ Stacked(db, head) /\ db.low = num[LogHead]
      /\ reversible = Above(head, num[LogHead]) /\ reversible \cap invalid = {}
  BY <1>1, InSwitchS, InRunning DEF Running
<1>8. applied = anc[head] \ anc[s]
  <2>1. ASSUME NEW c \in anc[t] PROVE num[c] < num[b] <=> c \in anc[head]
    <3>1. num[c] \in Nat /\ num[head] \in Nat /\ num[b] = num[head] + 1 /\ head \in anc[head]
      BY <1>2, <1>5, Ancestors
    <3>2. c \in anc[head] => num[c] <= num[head]
      BY <1>2, <3>1, Ancestors
    <3>3. num[c] <= num[head] => c \in anc[head]
      BY <1>4, OnOneBranch
    <3>4. QED
      BY <3>1, <3>2, <3>3
  <2>2. anc[head] \subseteq anc[t]
    BY <1>4, Ancestors
  <2>3. QED
    BY <1>4, <2>1, <2>2
<1> HIDE DEF b, applied
<1>9. CASE UNCHANGED chain /\ pc' = "failed"
  <2>1. Sound'
    BY <1>9, SameSound DEF SInv, chain
  <2>2. QED
    BY <1>9, <2>1, ToFailedS
<1>10. CASE /\ ~RemoveThrows(fdb, b) /\ fdb' = remove(fdb, b)
            /\ IF applied = {} THEN Reversed(head)
               ELSE Goto("unapply") /\ todo' = applied /\ UNCHANGED <<ret, branches>>
            /\ UNCHANGED <<invalid, mode, head, db, pending, reversible, blog, file>>
  <2>1. /\ Tree(fdb') /\ fdb'.root = fdb.root /\ fdb'.head = fdb.head
        /\ fdb'.index = {c \in fdb.index : b \notin anc[c]}
    BY <1>2, <1>6, <1>10, RemoveTree
  <2>2. ret = "idle" => Top(s)'
    BY <1>4, <1>5, <2>1 DEF Top
  <2>3. LogHead' = LogHead /\ Sound'
    BY <1>10, SameSound DEF SInv, LogHead
  <2>4. CASE applied = {}
    <3>1. head \in anc[s]
      BY <1>2, <1>8, <2>4, Ancestors
    <3>2. Reversed(head) /\ head' = head
      BY <1>10, <2>4
    <3>3. QED
      BY <1>1, <1>2, <1>3, <1>5, <1>6, <1>7, <1>10, <2>2, <2>3, <3>1, <3>2, ReversedS
  <2>5. CASE applied # {}
    <3>1. head \notin anc[s]
      BY <1>8, <2>5, Ancestors
    <3>2. Goto("unapply") /\ todo' = applied /\ UNCHANGED <<ret, branches>>
      BY <1>10, <2>5
    <3>3. pc' = "unapply"
      BY <3>2 DEF Goto
    <3>4. QED
      BY <1>2, <1>4, <1>7, <1>8, <1>10, <2>2, <2>3, <3>1, <3>2, <3>3, ToBackwardS
  <2>6. QED
    BY <2>4, <2>5
<1>11. CASE /\ b \notin invalid /\ apply_block(b) /\ fdb' = mark_valid(fdb, b)
            /\ Goto(IF todo = {b} THEN "log" ELSE "apply")
            /\ todo' = todo \ {b} /\ UNCHANGED <<ret, branches>>
            /\ UNCHANGED <<invalid, mode, pending, blog, file>>
  <2>1. /\ Stacked(db', head') /\ db'.low = num[LogHead'] /\ head' = b /\ LogHead' = LogHead
        /\ reversible' = Above(head', num[LogHead'])
        /\ reversible' \cap invalid' = {}
    BY <1>1, <1>2, <1>5, <1>11, AppliedS
  <2>2. /\ Tree(fdb') /\ fdb'.root = fdb.root /\ fdb'.index = fdb.index
        /\ fdb'.validated = fdb.validated \cup {b}
    BY <1>2, <1>6, <1>11, MarkTree
  <2>3. Top(t)' /\ (ret = "best_loop" => fdb'.validated \subseteq anc[t])
    BY <1>4, <1>5, <2>2 DEF Top
  <2>4. CASE b # t
    <3>1. pc' = "apply"
      BY <1>5, <1>11, <2>4 DEF Goto
    <3>2. QED
      BY <1>2, <1>4, <1>5, <1>11, <2>1, <2>2, <2>3, <2>4, <3>1, ToForwardS
  <2>5. CASE b = t
    <3>1. pc' = "log" /\ ret' = ret
      BY <1>5, <1>11, <2>5 DEF Goto
    <3>2. mode' = "SPECULATIVE"
      BY <1>1, <1>11, InSwitch
    <3>3. Called' /\ Onward' /\ Replays'
      BY <1>2, <3>1, <3>2 DEF Called, Onward, Replays, Replaying
    <3>4. Exact'
      BY <2>1, <3>1 DEF Exact, Floor
    <3>5. ret = "best_loop" => fdb'.head = t
      <4>1. t \in Valid(fdb')
        BY <1>4, <2>2, <2>5 DEF Valid
      <4>2. QED
        BY <2>2, <2>3, <4>1, BestOnBranch
    <3>6. Bests'
      BY <2>1, <2>3, <2>5, <3>1, <3>5 DEF Bests, Logging, Top
    <3>7. QED
      BY <1>2, <1>11, <2>1, <3>1, <3>3, <3>4, <3>6, ToLinearS
  <2>6. QED
    BY <2>4, <2>5
<1>12. QED
  BY <1>9, <1>10, <1>11, Zenon DEF ApplyNew, Fail, b, applied

(* The applied part of the new branch is popped again.                     *)
LEMMA PopNewS ==
  ASSUME CInv, SInv, CInv', PopNew
  PROVE  SInv'
<1>1. pc = "unapply" /\ pc \in Switching \ {"extend"}
  BY DEF PopNew, Switching
<1>2. ret \in {"idle", "best_loop"} /\ pending # "building" /\ head \in Block
  BY <1>1, InFork, InSwitch
<1>3. PICK s \in Block, t \in Block : Fork(s, t)
  BY <1>1, InFork
<1>4. /\ branches.first = anc[t] \ anc[s] /\ branches.second = anc[s] \ anc[t]
      /\ LogHead \in anc[s] /\ LogHead \in anc[t] /\ (ret = "best_loop" => s = LogHead)
      /\ ret = "idle" => Top(s)
      /\ head \in anc[t] /\ head \notin anc[s] /\ todo = anc[head] \ anc[s]
  BY <1>1, <1>3 DEF Fork
<1>5. CASE UNCHANGED chain /\ pc' = "failed"
  <2>1. Sound'
    BY <1>5, SameSound DEF SInv, chain
  <2>2. QED
    BY <1>5, <2>1, ToFailedS
<1>6. CASE /\ pop_block /\ UNCHANGED <<invalid, mode, fdb, pending, blog, file>>
           /\ IF todo # {Highest(todo)}
              THEN /\ Goto("unapply") /\ todo' = todo \ {Highest(todo)}
                   /\ UNCHANGED <<ret, branches>>
              ELSE Reversed(head')
  <2>1. head \notin anc[LogHead]
    BY <1>4, Ancestors
  <2>2. /\ Stacked(db', head') /\ db'.low = num[LogHead'] /\ head' = prev[head] /\ head' \in Block
        /\ LogHead' = LogHead /\ LogHead \in anc[head'] /\ head # Genesis
        /\ reversible' = Above(head', num[LogHead'])
        /\ reversible' \cap invalid' = {} /\ Sound'
    BY <1>1, <1>6, <2>1, PoppedS
  <2>3. /\ Highest(todo) = head /\ todo \ {head} = anc[head'] \ anc[s]
        /\ todo = {head} <=> head' \in anc[s]
    BY <1>2, <1>4, <2>2, HighestOwn
  <2>4. head' \in anc[t] /\ (ret = "idle" => Top(s)')
    BY <1>2, <1>4, <1>6, <2>2, Child, Ancestors DEF Top
  <2>5. CASE head' \notin anc[s]
    <3>1. Goto("unapply") /\ todo' = todo \ {head} /\ UNCHANGED <<ret, branches>>
      BY <1>6, <2>3, <2>5
    <3>2. pc' = "unapply"
      BY <3>1 DEF Goto
    <3>3. QED
      BY <1>2, <1>4, <1>6, <2>2, <2>3, <2>4, <2>5, <3>1, <3>2, ToBackwardS
  <2>6. CASE head' \in anc[s]
    <3>1. Reversed(head')
      BY <1>6, <2>3, <2>6
    <3>2. QED
      BY <1>1, <1>3, <1>4, <1>6, <2>2, <2>4, <2>6, <3>1, ReversedS
  <2>7. QED
    BY <2>5, <2>6
<1>7. QED
  BY <1>5, <1>6, Zenon DEF PopNew, Fail

(* The old branch is applied again, to its last block.                     *)
LEMMA ReapplyOldS ==
  ASSUME CInv, SInv, CInv', ReapplyOld
  PROVE  SInv'
<1> DEFINE b == Lowest(todo)
<1>1. pc = "reapply" /\ pc \in Switching \ {"extend"}
  BY DEF ReapplyOld, Switching
<1>2. ret \in {"idle", "best_loop"} /\ pending # "building" /\ head \in Block /\ LogHead \in anc[head]
  BY <1>1, InFork, InSwitch
<1>3. PICK s \in Block, t \in Block : Fork(s, t)
  BY <1>1, InFork
<1>4. /\ branches.first = anc[t] \ anc[s] /\ branches.second = anc[s] \ anc[t]
      /\ LogHead \in anc[s] /\ LogHead \in anc[t] /\ (ret = "best_loop" => s = LogHead)
      /\ ret = "idle" => Top(s)
      /\ head \in anc[s] /\ head # s /\ todo = Above(s, num[head])
  BY <1>1, <1>3 DEF Fork
<1>5. /\ b \in anc[s] /\ b \in Block /\ b # Genesis /\ prev[b] = head
      /\ todo \ {b} = Above(s, num[b]) /\ (todo = {b} <=> b = s)
  <2>1. b = Lowest(Above(s, num[head]))
    BY <1>4
  <2> HIDE DEF b
  <2>2. head \in anc[s] /\ head # s /\ todo = Above(s, num[head])
    BY <1>4
  <2>3. /\ b \in anc[s] /\ b \in Block /\ b # Genesis /\ prev[b] = head
        /\ Above(s, num[head]) \ {b} = Above(s, num[b]) /\ (Above(s, num[head]) = {b} <=> b = s)
    BY <2>1, <2>2, LowestAbove, SMTT(30)
  <2>4. QED
    BY <2>2, <2>3
<1>6. ret = "idle"
  <2>1. head # LogHead \/ s # LogHead
    BY <1>4
  <2>2. s = LogHead => head = LogHead
    BY <1>2, <1>4, OnOneBranch, Ancestors
  <2>3. QED
    BY <1>2, <1>4, <2>1, <2>2
<1> HIDE DEF b
<1>7. CASE UNCHANGED chain /\ pc' = "failed"
  <2>1. Sound'
    BY <1>7, SameSound DEF SInv, chain
  <2>2. QED
    BY <1>7, <2>1, ToFailedS
<1>8. CASE /\ b \notin invalid /\ apply_block(b)
           /\ IF todo = {b} THEN Throw(fdb)
              ELSE Goto("reapply") /\ todo' = todo \ {b} /\ UNCHANGED <<ret, branches, file>>
           /\ UNCHANGED <<invalid, mode, fdb, pending, blog>>
  <2>1. /\ Stacked(db', head') /\ db'.low = num[LogHead'] /\ head' = b /\ LogHead' = LogHead
        /\ reversible' = Above(head', num[LogHead'])
        /\ reversible' \cap invalid' = {}
    BY <1>1, <1>2, <1>5, <1>8, AppliedS
  <2>2. Top(s)'
    BY <1>4, <1>6, <1>8 DEF Top
  <2>3. CASE b = s
    <3>1. Throw(fdb)
      BY <1>5, <1>8, <2>3
    <3>2. pc' = "idle" /\ ret' = ret
      BY <1>6, <3>1, Zenon DEF Throw, Goto
    <3>3. Called' /\ Onward' /\ Replays'
      BY <3>2 DEF Called, Onward, Replays, Replaying, Logging
    <3>4. Exact'
      BY <2>1, <3>2 DEF Exact, Floor
    <3>5. Bests'
      BY <2>1, <2>2, <2>3, <3>2 DEF Bests, Logging, Top
    <3>6. QED
      BY <1>2, <1>8, <2>1, <3>2, <3>3, <3>4, <3>5, ToLinearS DEF Between
  <2>4. CASE b # s
    <3>1. Goto("reapply") /\ todo' = todo \ {b} /\ UNCHANGED <<ret, branches, file>>
      BY <1>5, <1>8, <2>4
    <3>2. pc' = "reapply"
      BY <3>1 DEF Goto
    <3>3. QED
      BY <1>2, <1>4, <1>5, <1>8, <2>1, <2>2, <2>4, <3>1, <3>2, ToBackwardS
  <2>5. QED
    BY <2>3, <2>4
<1>9. QED
  BY <1>7, <1>8, Zenon DEF ReapplyOld, Fail, b

-----------------------------------------------------------------------------
(* log_irreversible keeps the stores together.                             *)

(* The next block to be appended is a child of the log's last one, on the  *)
(* branch of the head.                                                     *)
LEMMA NextToLog ==
  ASSUME CInv, pc = "log_block", NEW b, b = Lowest(todo)
  PROVE  /\ b \in Block /\ b # Genesis /\ prev[b] = LogHead /\ num[b] = num[LogHead] + 1
         /\ b \in fdb.index /\ (mode = "SPECULATIVE" => b \in anc[head])
<1>1. LogHead \in Block /\ Tree(fdb) /\ fdb.index \subseteq Block
  BY InLog DEF Logging
<1>2. PICK f \in fdb.index :
        /\ LogHead \in anc[f] /\ (LogHead = fdb.root \/ LogHead \in fdb.index)
        /\ num[LogHead] < lib[f]
        /\ todo = {c \in anc[f] : num[LogHead] < num[c] /\ num[c] <= lib[f]}
        /\ mode = "SPECULATIVE" => f = head
  BY DEF CInv, Appending, Logging
<1>3. /\ f \in Block /\ anc[f] \subseteq Block /\ lib[f] \in Nat /\ num[f] \in Nat
      /\ num[LogHead] \in Nat /\ lib[f] <= num[f]
  BY <1>1, <1>2, Ancestors
<1>4. PICK c \in anc[f] : c # Genesis /\ prev[c] = LogHead /\ num[c] = num[LogHead] + 1
  BY <1>2, <1>3, NextOnBranch
<1>5. c \in todo
  BY <1>2, <1>3, <1>4
<1>6. b \in todo /\ num[b] <= num[c]
  BY <1>2, <1>3, <1>5, LowestIn
<1>7. b = c
  <2>1. b \in anc[f] /\ num[LogHead] < num[b] /\ num[b] \in Nat
    BY <1>2, <1>3, <1>6, Ancestors
  <2>2. num[b] = num[c]
    BY <1>3, <1>4, <1>6, <2>1
  <2>3. QED
    BY <1>3, <2>1, <2>2, OnOneBranch
<1>8. b \in Block /\ b # Genesis /\ prev[b] = LogHead /\ anc[b] = {b} \cup anc[LogHead]
      /\ b \notin anc[LogHead]
  BY <1>3, <1>4, <1>7, Child
<1>9. fdb.root \in anc[LogHead] /\ anc[fdb.root] \subseteq anc[LogHead]
  BY <1>1, <1>2, AboveRoot, Ancestors
<1>10. b \in fdb.index
  BY <1>1, <1>2, <1>4, <1>7, <1>8, <1>9 DEF Tree
<1>11. QED
  BY <1>2, <1>4, <1>7, <1>8, <1>10

(* What is known in log_irreversible.                                      *)
LEMMA InLogS ==
  ASSUME CInv, SInv, pc \in {"log"} \cup Logging
  PROVE  /\ Stacked(db, head) /\ db.low = num[LogHead] /\ pending # "building"
         /\ mode \in {"SPECULATIVE", "IRREVERSIBLE"} /\ ret \in {"idle", "replay", "best_loop"}
         /\ mode = "IRREVERSIBLE" => ret = "idle"
         /\ mode = "SPECULATIVE" /\ ret # "replay" =>
              /\ reversible = Above(head, Floor)
              /\ Top(head) /\ (ret = "best_loop" => fdb.head = head)
         /\ mode = "SPECULATIVE" /\ ret = "replay" =>
              \E t \in Block : head \in anc[t] /\ reversible = Above(t, Floor) /\ Top(t)
<1>1. /\ pending # "building" /\ mode \in {"SPECULATIVE", "IRREVERSIBLE"} /\ pc \in Running
      /\ ret \in {"idle", "replay", "best_loop"}
  BY InLog
<1>2. Stacked(db, head) /\ db.low = num[LogHead]
  BY <1>1, InRunning
<1>3. mode = "SPECULATIVE" /\ ret = "replay" =>
        \E t \in Block : head \in anc[t] /\ reversible = Above(t, Floor) /\ Top(t)
  BY DEF SInv, Replays, Replayed, Replaying, Logging
<1>4. mode = "SPECULATIVE" /\ ret # "replay" => reversible = Above(head, Floor)
  BY <1>1 DEF SInv, Exact, Replaying, Logging
<1>5. QED
  BY <1>1, <1>2, <1>3, <1>4 DEF SInv, Called, Bests

(* log_irreversible goes on, or returns to its caller.                     *)
LEMMA ToLogS ==
  ASSUME CInv', mode' = "SPECULATIVE", pending' # "building", ret' = ret,
         pc' \in {"log"} \cup Logging \/ (pc' = ret /\ ret \in {"idle", "replay", "best_loop"}),
         Stacked(db', head'), db'.low = num[LogHead'], reversible' \cap invalid' = {},
         ret # "replay" => /\ reversible' = Above(head', Floor')
                           /\ Top(head)' /\ (ret = "best_loop" => fdb'.head = head'),
         ret = "replay" => \E t \in Block : head' \in anc[t] /\ reversible' = Above(t, Floor') /\ Top(t)'
  PROVE  SInv'
<1>1. Called' /\ Onward'
  BY DEF Called, Onward, Logging
<1>2. Exact'
  BY DEF Exact, Replaying, Logging
<1>3. Replays'
  BY DEF Replays, Replaying, Replayed, Logging
<1>4. Bests'
  BY DEF Bests, Logging
<1>5. pc' \in {"extend", "log"} \cup Logging \cup Between
  BY DEF Between
<1>6. QED
  BY <1>1, <1>2, <1>3, <1>4, <1>5, ToLinearS

(* LogIrreversible changes nothing but the place.                          *)
LEMMA LogIrreversibleS ==
  ASSUME CInv, SInv, CInv', LogIrreversible
  PROVE  SInv'
<1>1. pc = "log" /\ UNCHANGED chain
  BY DEF LogIrreversible
<1>2. LogHead' = LogHead /\ UNCHANGED <<fdb, head, db, reversible, invalid, pending, mode>>
  BY <1>1 DEF chain, LogHead
<1>3. CASE pc' = "failed"
  <2>1. Sound'
    BY <1>1, SameSound DEF SInv, chain
  <2>2. QED
    BY <1>3, <2>1, ToFailedS
<1>4. CASE ret' = ret /\ (pc' = "log_block" \/ pc' = ret)
  <2>1. /\ Stacked(db, head) /\ db.low = num[LogHead] /\ pending # "building"
        /\ mode \in {"SPECULATIVE", "IRREVERSIBLE"} /\ ret \in {"idle", "replay", "best_loop"}
        /\ mode = "IRREVERSIBLE" => ret = "idle"
    BY <1>1, InLogS
  <2>2. pc \in Running /\ reversible \cap invalid = {}
    BY <1>1, InRunning DEF Running
  <2>3. CASE mode = "IRREVERSIBLE"
    <3>1. Called' /\ pc' \in Running
      BY <1>4, <2>1, <2>3 DEF Called, Running, Logging, Between
    <3>2. QED
      BY <1>2, <2>1, <2>3, <3>1, ToIrreversibleS
  <2>4. CASE mode = "SPECULATIVE"
    <3>1. Floor' = num[LogHead] /\ Floor = num[LogHead]
      BY <1>1, <1>2, <1>4, <2>1 DEF Floor
    <3>2. ret # "replay" => /\ reversible = Above(head, Floor)
                            /\ Top(head) /\ (ret = "best_loop" => fdb.head = head)
      BY <1>1, <2>4, InLogS
    <3>3. ret = "replay" => \E t \in Block : head \in anc[t] /\ reversible = Above(t, Floor) /\ Top(t)
      BY <1>1, <2>4, InLogS
    <3>4. \A t \in Block : Top(t)' <=> Top(t)
      BY <1>2 DEF Top
    <3>5. Top(head)' <=> Top(head)
      BY <1>2 DEF Top
    <3>6. pc' \in {"log"} \cup Logging \/ (pc' = ret /\ ret \in {"idle", "replay", "best_loop"})
      BY <1>4, <2>1 DEF Logging
    <3>7. QED
      BY <1>2, <1>4, <2>1, <2>2, <2>4, <3>1, <3>2, <3>3, <3>4, <3>5, <3>6, ToLogS
  <2>5. QED
    BY <2>1, <2>3, <2>4
<1>5. QED
  BY <1>3, <1>4, Zenon DEF LogIrreversible, Fail, Return, Goto

(* LogBlock: the state of the appended block becomes the oldest one.       *)
LEMMA LogBlockS ==
  ASSUME CInv, SInv, CInv', LogBlock
  PROVE  SInv'
<1> DEFINE b == Lowest(todo)
<1>1. pc = "log_block" /\ pc \in {"log"} \cup Logging /\ pc \in Running
  BY DEF LogBlock, Logging, Running
<1>2. /\ Stacked(db, head) /\ db.low = num[LogHead] /\ pending # "building"
      /\ mode \in {"SPECULATIVE", "IRREVERSIBLE"} /\ ret \in {"idle", "replay", "best_loop"}
      /\ mode = "IRREVERSIBLE" => ret = "idle"
  BY <1>1, InLogS
<1>3. /\ b \in Block /\ b # Genesis /\ prev[b] = LogHead /\ num[b] = num[LogHead] + 1
      /\ b \in fdb.index /\ (mode = "SPECULATIVE" => b \in anc[head])
  BY <1>1, NextToLog
<1> HIDE DEF b
<1>4. head \in Block /\ num[LogHead] \in Nat /\ num[head] \in Nat /\ reversible \cap invalid = {}
      /\ num[b] \in Nat
  BY <1>1, <1>3, InRunning, Ancestors
<1>5. mode = "IRREVERSIBLE" => head = LogHead
  BY <1>1, InLog
<1>6. CASE pc' = "failed" /\ UNCHANGED chain
  <2>1. Sound'
    BY <1>6, SameSound DEF SInv, chain
  <2>2. QED
    BY <1>6, <2>1, ToFailedS
<1>7. CASE /\ mode = "IRREVERSIBLE" /\ Throw(fdb')
           /\ UNCHANGED <<invalid, mode, head, db, pending, reversible, blog>>
  <2>1. pc' = "idle" /\ pc' \in Running
    BY <1>2, <1>7, Zenon DEF Throw, Goto, Running, Between
  <2>2. LogHead' = LogHead /\ Called'
    BY <1>7, <2>1 DEF LogHead, Called, Logging
  <2>3. QED
    BY <1>2, <1>7, <2>1, <2>2, ToIrreversibleS
<1>8. CASE /\ IF mode = "IRREVERSIBLE" THEN head' = b /\ fdb' = mark_valid(fdb, b)
              ELSE UNCHANGED <<head, fdb>>
           /\ db' = commit(IF mode = "IRREVERSIBLE" THEN push_session(db, b) ELSE db, num[b])
           /\ blog' = Append(blog, b)
           /\ pc' = "trim" /\ UNCHANGED <<ret, branches, todo>>
           /\ UNCHANGED <<invalid, mode, pending, reversible, file>>
  <2>1. LogHead' = b
    BY <1>3, <1>8, LogGrows DEF CInv
  <2>2. CASE mode = "IRREVERSIBLE"
    <3>1. Stacked(push_session(db, b), b) /\ push_session(db, b).low = num[LogHead]
      BY <1>2, <1>3, <1>5, <2>2, StackPush
    <3>2. Stacked(db', b) /\ db'.low = num[b]
      <4>1. num[LogHead] < num[b] /\ num[b] <= num[b]
        BY <1>3, <1>4
      <4>2. db' = commit(push_session(db, b), num[b])
        BY <1>8, <2>2
      <4>3. QED
        BY <1>3, <1>4, <3>1, <4>1, <4>2, StackCommit
    <3>3. head' = b /\ pc' \in Running /\ Called'
      BY <1>2, <1>8, <2>2 DEF Running, Logging, Called
    <3>4. QED
      BY <1>2, <1>8, <2>1, <2>2, <3>2, <3>3, ToIrreversibleS
  <2>3. CASE mode = "SPECULATIVE"
    <3>1. Stacked(db', head') /\ db'.low = num[b]
      <4>1. num[LogHead] < num[b] /\ num[b] <= num[head]
        BY <1>3, <1>4, <2>3, Ancestors
      <4>2. db' = commit(db, num[b]) /\ head' = head
        BY <1>8, <2>3
      <4>3. QED
        BY <1>2, <1>4, <4>1, <4>2, StackCommit
    <3>2. UNCHANGED <<head, fdb>>
      BY <1>8, <2>3
    <3>3. Floor' = Floor
      <4>1. num[b] - 1 = num[LogHead]
        BY <1>3, <1>4
      <4>2. QED
        BY <1>1, <1>8, <2>1, <4>1 DEF Floor
    <3>4. ret # "replay" => /\ reversible = Above(head, Floor)
                            /\ Top(head) /\ (ret = "best_loop" => fdb.head = head)
      BY <1>1, <2>3, InLogS
    <3>5. ret = "replay" => \E t \in Block : head \in anc[t] /\ reversible = Above(t, Floor) /\ Top(t)
      BY <1>1, <2>3, InLogS
    <3>6. \A t \in Block : Top(t)' <=> Top(t)
      BY <3>2 DEF Top
    <3>7. Top(head)' <=> Top(head)
      BY <3>2 DEF Top
    <3>8. pc' \in {"log"} \cup Logging
      BY <1>8 DEF Logging
    <3>9. QED
      BY <1>2, <1>4, <1>8, <2>1, <2>3, <3>1, <3>2, <3>3, <3>4, <3>5, <3>6, <3>7, <3>8, ToLogS
  <2>4. QED
    BY <1>2, <2>2, <2>3
<1>9. QED
  BY <1>6, <1>7, <1>8, Zenon DEF LogBlock, Fail, Goto, b

(* TrimReversible: what is left is above the log's last block.             *)
LEMMA TrimS ==
  ASSUME CInv, SInv, CInv', TrimReversible
  PROVE  SInv'
<1>1. pc = "trim" /\ pc \in {"log"} \cup Logging /\ pc \in Running
  BY DEF TrimReversible, Logging, Running
<1>2. /\ Stacked(db, head) /\ db.low = num[LogHead] /\ pending # "building"
      /\ mode \in {"SPECULATIVE", "IRREVERSIBLE"} /\ ret \in {"idle", "replay", "best_loop"}
      /\ mode = "IRREVERSIBLE" => ret = "idle"
  BY <1>1, InLogS
<1>3. /\ head \in Block /\ num[LogHead] \in Nat /\ reversible \cap invalid = {}
      /\ LogHead \in Block /\ LogHead \in anc[head] /\ Tree(fdb) /\ fdb.index \subseteq Block
  BY <1>1, InRunning
<1>4. /\ UNCHANGED <<invalid, mode, head, db, pending, blog, file>>
      /\ reversible' = {r \in reversible : num[r] > num[LogHead]}
  BY DEF TrimReversible
<1>5. LogHead' = LogHead /\ reversible' \cap invalid' = {}
  BY <1>3, <1>4 DEF LogHead
<1>6. Floor = num[LogHead] - 1
  BY <1>1 DEF Floor
<1>7. \A t \in Block : reversible = Above(t, Floor) => reversible' = Above(t, num[LogHead])
  BY <1>3, <1>4, <1>6, AboveHigher
<1>8. CASE pc' = "failed"
  <2>1. Segment(reversible)'
    <3>1. PICK t \in Block, n \in 0 .. MaxNum :
            /\ reversible = Above(t, n) /\ n <= num[LogHead]
            /\ t \in anc[LogHead] \/ LogHead \in anc[t]
      BY DEF SInv, Sound, Segment
    <3>2. reversible' = Above(t, num[LogHead])
      BY <1>3, <1>4, <3>1, AboveHigher
    <3>3. Segment(Above(t, num[LogHead]))
      BY <1>3, <3>1, SegmentAbove
    <3>4. QED
      BY <1>5, <3>2, <3>3 DEF Segment
  <2>2. QED
    BY <1>5, <1>8, <2>1, ToFailedS DEF Sound
<1>9. CASE /\ ret' = ret /\ pc' # "failed"
           /\ \/ pc' = "log_block" /\ fdb' = fdb
              \/ pc' = ret /\ fdb' = advanced(fdb, LogHead)
  <2>1. fdb'.index \subseteq fdb.index /\ fdb'.head = fdb.head
    <3>1. CASE fdb' = fdb
      BY <3>1
    <3>2. CASE fdb' = advanced(fdb, LogHead) /\ fdb' # fdb
      <4>1. fdb' = advance_root(fdb, LogHead) /\ LogHead # fdb.root
        BY <3>2 DEF advanced
      <4>2. LogHead \in fdb.index
        BY <1>1 DEF CInv, Appending, Logging
      <4>3. LogHead \in anc[fdb.head]
        <5>1. mode = "SPECULATIVE" => fdb.head = head
          BY <1>1 DEF CInv, Appending, Logging
        <5>2. mode = "IRREVERSIBLE" => fdb.head = LogHead
          BY <1>1, InLog
        <5>3. QED
          BY <1>2, <1>3, <5>1, <5>2, Ancestors
      <4>4. QED
        BY <1>3, <4>1, <4>2, <4>3, AdvanceTree
    <3>3. QED
      BY <1>9, <3>1, <3>2
  <2>2. CASE mode = "IRREVERSIBLE"
    <3>1. Called' /\ pc' \in Running
      BY <1>2, <1>9, <2>2 DEF Called, Running, Logging, Between
    <3>2. QED
      BY <1>2, <1>4, <1>5, <2>2, <3>1, ToIrreversibleS
  <2>3. CASE mode = "SPECULATIVE"
    <3>1. Floor' = num[LogHead]
      BY <1>2, <1>5, <1>9 DEF Floor
    <3>2. \A t \in Block : Top(t) => Top(t)'
      BY <2>1 DEF Top
    <3>3. ret # "replay" => /\ reversible = Above(head, Floor)
                            /\ Top(head) /\ (ret = "best_loop" => fdb.head = head)
      BY <1>1, <2>3, InLogS
    <3>4. ret = "replay" => \E t \in Block : head \in anc[t] /\ reversible = Above(t, Floor) /\ Top(t)
      BY <1>1, <2>3, InLogS
    <3>5. Top(head) => Top(head)'
      BY <1>4, <2>1 DEF Top
    <3>6. pc' \in {"log"} \cup Logging \/ (pc' = ret /\ ret \in {"idle", "replay", "best_loop"})
      BY <1>2, <1>9 DEF Logging
    <3>7. ret # "replay" => /\ reversible' = Above(head', Floor')
                            /\ Top(head)' /\ (ret = "best_loop" => fdb'.head = head')
      BY <1>3, <1>4, <1>7, <2>1, <3>1, <3>3, <3>5
    <3>8. ret = "replay" => \E t \in Block : head' \in anc[t] /\ reversible' = Above(t, Floor') /\ Top(t)'
      BY <1>4, <1>7, <3>1, <3>2, <3>4
    <3>9. QED
      BY <1>2, <1>4, <1>5, <1>9, <2>3, <3>6, <3>7, <3>8, ToLogS
  <2>4. QED
    BY <1>2, <2>2, <2>3
<1>10. QED
  BY <1>2, <1>8, <1>9, Zenon DEF TrimReversible, Fail, Return, Goto

-----------------------------------------------------------------------------
(* Calls that begin keep the stores together.                              *)

(* maybe_switch_forks is entered with the best block p, and the head is    *)
(* not better than any other block, or p is the first to be applied.       *)
LEMMA SwitchS ==
  ASSUME CInv, CInv', mode = "SPECULATIVE", UNCHANGED <<invalid, mode, head, blog>>,
         pc \in Running, reversible' = Above(head, num[LogHead]), reversible' \cap invalid = {},
         pending' # "building", Stacked(db', head), db'.low = num[LogHead],
         Tree(fdb'), fdb'.root = LogHead, NEW from \in {"idle", "best_loop"},
         NEW p, p = pending_head(fdb'), maybe_switch_forks(fdb', p, from),
         from = "idle" => \A c \in fdb'.index \ {p} : ~first_preferred(c, head),
         from = "best_loop" => head = fdb'.root /\ fdb'.head = fdb'.root
  PROVE  SInv'
<1>1. LogHead' = LogHead /\ head' = head /\ LogHead \in anc[head] /\ head \in Block /\ LogHead \in Block
  BY LogFacts DEF LogHead, CInv, Rooted, Types
<1>2. p \in fdb'.index \cup {fdb'.root} /\ \A c \in fdb'.index : ~first_preferred(c, p)
  BY PendingTree
<1>3. Top(p)'
  BY <1>2 DEF Top
<1>4. LogHead \in anc[p] /\ p \in Block
  BY <1>1, <1>2, AboveRoot
<1>5. CASE /\ Extends(p) /\ Goto("extend") /\ todo' = {p} /\ ret' = from
  <2>1. pc' = "extend"
    BY <1>5 DEF Goto
  <2>2. p \in fdb'.index
    BY <1>5, <2>1 DEF CInv, Extending
  <2>3. Onward'
    BY <1>1, <1>3, <1>5, <2>2 DEF Onward
  <2>4. Called' /\ Replays' /\ Bests'
    BY <1>5, <2>1 DEF Called, Replays, Replaying, Bests, Logging
  <2>5. Exact'
    BY <1>1, <2>1 DEF Exact, Floor
  <2>6. QED
    BY <1>1, <2>1, <2>3, <2>4, <2>5, ToLinearS
<1>6. CASE /\ p # head /\ branches' = fetch_branch_from(fdb', p, head) /\ ret' = from
           /\ IF anc[head] \ anc[p] = {} THEN Goto("apply") /\ todo' = anc[p] \ anc[head]
              ELSE Goto("pop") /\ todo' = anc[head] \ anc[p]
  <2>1. branches'.first = anc[p] \ anc[head] /\ branches'.second = anc[head] \ anc[p]
    BY <1>6 DEF fetch_branch_from
  <2>2. pc' \in {"pop", "apply"}
    BY <1>6 DEF Goto
  <2>3. p \in fdb'.index
    <3>1. branches'.first # {} /\ branches'.first \subseteq fdb'.index
      BY <2>2 DEF CInv, NewBranch
    <3>2. p \notin anc[head]
      BY <1>1, <2>1, <3>1, Ancestors
    <3>3. QED
      BY <1>4, <2>1, <3>1, <3>2, Ancestors
  <2>4. from = "best_loop" => head = LogHead /\ fdb'.validated \subseteq anc[p]
    <3> SUFFICES ASSUME from = "best_loop" PROVE head = LogHead /\ fdb'.validated \subseteq anc[p]
      OBVIOUS
    <3>1. fdb'.validated \subseteq {fdb'.root}
      BY NoneValid
    <3>2. QED
      BY <1>4, <3>1
  <2>5. CASE anc[head] \subseteq anc[p]
    <3>1. pc' = "apply" /\ todo' = anc[p] \ anc[head] /\ head \in anc[p]
      BY <1>1, <1>6, <2>5, Ancestors DEF Goto
    <3>2. todo' = Above(p, num[head]) /\ todo' \cap anc[head] = {}
      BY <1>4, <3>1, AboveBlock
    <3>3. QED
      BY <1>1, <1>3, <1>4, <1>6, <2>1, <2>3, <2>4, <3>1, <3>2, ToForwardS
  <2>6. CASE ~(anc[head] \subseteq anc[p])
    <3>1. pc' = "pop" /\ todo' = anc[head] \ anc[p]
      BY <1>6, <2>6 DEF Goto
    <3>2. head \notin anc[p] /\ head \in anc[head]
      BY <1>1, <1>4, <2>6, Ancestors
    <3>3. QED
      BY <1>1, <1>3, <1>4, <1>6, <2>1, <2>3, <2>4, <3>1, <3>2, ToForwardS
  <2>7. QED
    BY <2>5, <2>6
<1>7. CASE p = head /\ Goto(from) /\ ret' = from
  <2>1. pc' = from
    BY <1>7 DEF Goto
  <2>2. Called' /\ Replays' /\ Onward'
    BY <1>7, <2>1 DEF Called, Replays, Replaying, Onward, Logging
  <2>3. Exact'
    BY <1>1, <2>1 DEF Exact, Floor
  <2>4. from = "best_loop" => fdb'.head = head
    OBVIOUS
  <2>5. Bests'
    BY <1>1, <1>3, <1>7, <2>1, <2>4 DEF Bests, Top, Logging
  <2>6. QED
    BY <1>1, <2>1, <2>2, <2>3, <2>5, ToLinearS DEF Between
<1>8. QED
  BY <1>5, <1>6, <1>7 DEF maybe_switch_forks, fetch_branch_from

(* Between calls.                                                          *)
LEMMA InIdleS ==
  ASSUME CInv, SInv, pc = "idle"
  PROVE  /\ Stacked(aborted(db), head) /\ aborted(db).low = num[LogHead]
         /\ mode \in {"SPECULATIVE", "IRREVERSIBLE"} /\ fdb.root = LogHead /\ Tree(fdb)
         /\ LogHead \in Block /\ head \in Block /\ LogHead \in anc[head]
         /\ reversible \cap invalid = {}
         /\ mode = "SPECULATIVE" =>
              /\ reversible = Above(head, num[LogHead]) /\ Top(head)
              /\ head = fdb.root \/ head \in Valid(fdb)
         /\ mode = "IRREVERSIBLE" => reversible = {} /\ head = LogHead /\ fdb.head = LogHead
<1>1. pc \in Running /\ pc \in Between
  BY DEF Running, Between
<1>2. /\ Stacked(aborted(db), head) /\ aborted(db).low = num[LogHead]
      /\ reversible \cap invalid = {}
  BY <1>1, InRunning
<1>3. mode = "SPECULATIVE" => reversible = Above(head, num[LogHead]) /\ Top(head)
  BY <1>1 DEF SInv, Exact, Bests, Replaying, Floor
<1>4. QED
  BY <1>1, <1>2, <1>3, InBetween

(* PushBlock: only the received block can be better than the head.         *)
LEMMA PushBlockS ==
  ASSUME CInv, SInv, CInv', NEW b \in Block \ {Genesis}, PushBlock(b)
  PROVE  SInv'
<1>1. pc = "idle" /\ pc \in Running
  BY DEF PushBlock, Running, Between
<1>2. /\ Stacked(aborted(db), head) /\ aborted(db).low = num[LogHead]
      /\ mode \in {"SPECULATIVE", "IRREVERSIBLE"} /\ fdb.root = LogHead /\ Tree(fdb)
      /\ LogHead \in Block /\ head \in Block /\ LogHead \in anc[head]
      /\ reversible \cap invalid = {}
      /\ mode = "SPECULATIVE" => reversible = Above(head, num[LogHead]) /\ Top(head)
  BY <1>1, InIdleS
<1>3. /\ db' = aborted(db) /\ pending' = "none" /\ fdb' = add(fdb, b) /\ b \notin fdb.index
      /\ Known(fdb, prev[b]) /\ UNCHANGED <<invalid, mode, head, reversible, blog, file>>
      /\ IF mode = "IRREVERSIBLE"
         THEN Goto("log") /\ ret' = "idle" /\ UNCHANGED <<branches, todo>>
         ELSE maybe_switch_forks(fdb', pending_head(fdb'), "idle")
  BY DEF PushBlock
<1>4. Tree(fdb') /\ fdb'.root = LogHead /\ fdb'.index = fdb.index \cup {b}
  BY <1>2, <1>3, AddTree
<1>5. LogHead' = LogHead
  BY <1>3 DEF LogHead
<1>6. CASE mode = "IRREVERSIBLE"
  <2>1. pc' = "log" /\ ret' = "idle"
    BY <1>3, <1>6 DEF Goto
  <2>2. Called' /\ pc' \in Running
    BY <2>1 DEF Called, Running
  <2>3. QED
    BY <1>2, <1>3, <1>5, <1>6, <2>2, ToIrreversibleS
<1>7. CASE mode = "SPECULATIVE"
  <2> DEFINE p == pending_head(fdb')
  <2>1. p \in fdb'.index \cup {fdb'.root} /\ \A c \in fdb'.index : ~first_preferred(c, p)
    BY <1>4, PendingTree
  <2>2. maybe_switch_forks(fdb', p, "idle")
    BY <1>3, <1>7
  <2> HIDE DEF p
  <2>3. ASSUME NEW c \in fdb'.index \ {p} PROVE ~first_preferred(c, head)
    <3>1. c \in Block /\ p \in Block
      BY <1>2, <1>4, <2>1, AboveRoot
    <3>2. CASE p = b
      BY <1>2, <1>4, <1>7, <2>3, <3>2 DEF Top
    <3>3. CASE p # b
      <4>1. p \in fdb.index \/ p = LogHead
        BY <1>4, <2>1, <3>3
      <4>2. ~first_preferred(p, head)
        BY <1>2, <1>7, <4>1, NotPreferred DEF Top
      <4>3. ~first_preferred(c, p)
        BY <2>1, <2>3
      <4>4. QED
        BY <1>2, <3>1, <4>2, <4>3, NotPreferred
    <3>4. QED
      BY <3>2, <3>3
  <2>4. p = pending_head(fdb')
    BY DEF p
  <2>5. QED
    BY <1>1, <1>2, <1>3, <1>4, <1>7, <2>2, <2>3, <2>4, SwitchS
<1>8. QED
  BY <1>2, <1>6, <1>7

(* StartBlock and AbortBlock: a session comes and goes.                    *)
LEMMA PendingS ==
  ASSUME CInv, SInv, CInv', StartBlock \/ AbortBlock
  PROVE  SInv'
<1>1. pc = "idle" /\ UNCHANGED <<invalid, mode, fdb, head, reversible, blog, file>>
  BY DEF StartBlock, AbortBlock
<1>2. /\ Stacked(aborted(db), head) /\ aborted(db).low = num[LogHead] /\ head \in Block
      /\ reversible \cap invalid = {}
      /\ mode = "SPECULATIVE" => reversible = Above(head, num[LogHead]) /\ Top(head)
  BY <1>1, InIdleS
<1>3. LogHead' = LogHead
  BY <1>1 DEF LogHead
<1>4. CASE pc' = "failed"
  <2>1. Sound'
    BY <1>1, SameSound DEF SInv
  <2>2. QED
    BY <1>4, <2>1, ToFailedS
<1>5. CASE UNCHANGED call /\ aborted(db)' = aborted(db)
  <2>1. pc' = "idle" /\ pc' \in Running
    BY <1>1, <1>5 DEF call, Running, Between
  <2>2. Pushed'
    BY <1>1, <1>2, <1>3, <1>5 DEF Pushed
  <2>3. Called' /\ Replays' /\ Onward' /\ Forking'
    BY <2>1 DEF Called, Replays, Replaying, Onward, Forking, Switching, Logging
  <2>4. Exact'
    BY <1>1, <1>2, <1>3, <2>1 DEF Exact, Floor
  <2>5. Bests'
    BY <1>1, <1>2, <2>1 DEF Bests, Top, Logging
  <2>6. QED
    BY <1>1, <1>2, <2>1, <2>2, <2>3, <2>4, <2>5, ToRunningS
<1>6. CASE AbortBlock
  <2>1. UNCHANGED call /\ db' = aborted(db) /\ pending' = "none"
    BY <1>6 DEF AbortBlock
  <2>2. aborted(db)' = db'
    BY <2>1 DEF aborted
  <2>3. QED
    BY <1>5, <2>1, <2>2
<1>7. CASE StartBlock
  <2>1. \/ pc' = "failed"
        \/ db' = push_session(db, Scratch) /\ pending' = "building" /\ UNCHANGED call /\ pending = "none"
    BY <1>7, Zenon DEF StartBlock, Fail
  <2>2. CASE /\ db' = push_session(db, Scratch) /\ pending' = "building" /\ UNCHANGED call
             /\ pending = "none"
    <3>1. aborted(db) = db /\ aborted(db)' = undo(push_session(db, Scratch))
      BY <2>2 DEF aborted
    <3>2. aborted(db)' = aborted(db)
      BY <1>2, <3>1, StackScratch
    <3>3. QED
      BY <1>5, <2>2, <3>2
  <2>3. QED
    BY <1>4, <2>1, <2>2
<1>8. QED
  BY <1>6, <1>7

(* CommitBlock: the produced block is applied.                             *)
LEMMA CommitBlockS ==
  ASSUME CInv, SInv, CInv', NEW b \in Block \ {Genesis}, CommitBlock(b)
  PROVE  SInv'
<1>1. pc = "idle" /\ pending = "building" /\ Extends(b) /\ b \notin fdb.index \cup invalid
      /\ UNCHANGED <<invalid, mode, blog, file>>
  BY DEF CommitBlock
<1>2. mode = "SPECULATIVE"
  BY <1>1 DEF CInv, Building
<1>3. /\ Stacked(aborted(db), head) /\ aborted(db).low = num[LogHead] /\ fdb.root = LogHead /\ Tree(fdb)
      /\ LogHead \in Block /\ head \in Block /\ LogHead \in anc[head]
      /\ reversible \cap invalid = {}
      /\ reversible = Above(head, num[LogHead]) /\ Top(head)
      /\ head = fdb.root \/ head \in Valid(fdb)
  BY <1>1, <1>2, InIdleS
<1>4. CASE pc' = "failed" /\ UNCHANGED reversible
  <2>1. Sound'
    BY <1>1, <1>4, SameSound DEF SInv
  <2>2. QED
    BY <1>4, <2>1, ToFailedS
<1>5. CASE LET d == mark_valid(add(fdb, b), b)
           IN /\ fdb' = d /\ d.head = b /\ head' = d.head /\ reversible' = reversible \cup {b}
              /\ db' = push_session(undo(db), b) /\ pending' = "none"
              /\ Goto("log") /\ ret' = "idle"
  <2>1. b # Genesis /\ prev[b] = head
    BY <1>1 DEF Extends
  <2>2. Known(fdb, prev[b])
    BY <1>3, <2>1 DEF Known, Valid
  <2>3. Tree(add(fdb, b)) /\ add(fdb, b).index = fdb.index \cup {b}
    BY <1>1, <1>3, <2>2, AddTree
  <2>4. fdb'.index = fdb.index \cup {b}
    BY <1>5, <2>3, MarkTree
  <2>5. head' = b /\ LogHead' = LogHead /\ pc' = "log" /\ ret' = "idle" /\ pending' # "building"
    BY <1>1, <1>5 DEF Goto, LogHead
  <2>6. Stacked(db', head') /\ db'.low = num[LogHead']
    <3>1. aborted(db) = undo(db)
      BY <1>1 DEF aborted
    <3>2. QED
      BY <1>3, <1>5, <2>1, <2>5, <3>1, StackPush
  <2>7. reversible' = Above(head', num[LogHead'])
    <3>1. num[LogHead] \in Nat /\ num[head] \in Nat /\ num[LogHead] <= num[head]
      BY <1>3, Ancestors
    <3>2. Above(b, num[LogHead]) = Above(head, num[LogHead]) \cup {b}
      BY <2>1, <3>1, AboveChild
    <3>3. QED
      BY <1>3, <1>5, <2>5, <3>2
  <2>8. Top(head)'
    <3>1. SUFFICES ASSUME NEW c \in fdb.index \cup {b} PROVE ~first_preferred(c, b)
      BY <2>4, <2>5 DEF Top
    <3>2. fdb.index \subseteq Block /\ head \in anc[b] /\ b \in anc[b]
      BY <1>3, <2>1, AboveRoot, Child, Ancestors
    <3>3. ~first_preferred(head, b) /\ ~first_preferred(b, b)
      BY <1>3, <3>2, NotPreferred
    <3>4. c # b => ~first_preferred(c, head)
      BY <1>3 DEF Top
    <3>5. QED
      BY <1>3, <3>2, <3>3, <3>4, NotPreferred
  <2>9. Called' /\ Replays' /\ Onward'
    BY <2>5 DEF Called, Replays, Replaying, Onward
  <2>10. Exact' /\ Bests'
    BY <2>5, <2>7, <2>8 DEF Exact, Floor, Bests, Logging
  <2>11. reversible' \cap invalid' = {}
    BY <1>1, <1>3, <1>5
  <2>12. QED
    BY <2>5, <2>6, <2>9, <2>10, <2>11, ToLinearS
<1>6. QED
  BY <1>4, <1>5, Zenon DEF CommitBlock, Fail

-----------------------------------------------------------------------------
(* Stopping and starting keeps the stores together.                        *)

(* Shutdown: the chain state is that of the head.                          *)
LEMMA ShutdownS ==
  ASSUME CInv, SInv, CInv', Shutdown
  PROVE  SInv'
<1>1. /\ pc = "idle" /\ db' = aborted(db) /\ file' = fdb /\ pc' = "down"
      /\ UNCHANGED <<invalid, mode, fdb, head, reversible, blog>>
  BY DEF Shutdown, Goto
<1>2. /\ Stacked(aborted(db), head) /\ aborted(db).low = num[LogHead]
      /\ mode \in {"SPECULATIVE", "IRREVERSIBLE"} /\ fdb.root = LogHead /\ Tree(fdb)
      /\ LogHead \in Block /\ head \in Block /\ LogHead \in anc[head]
      /\ mode = "SPECULATIVE" =>
           /\ reversible = Above(head, num[LogHead]) /\ Top(head)
           /\ head = fdb.root \/ head \in Valid(fdb)
      /\ mode = "IRREVERSIBLE" => reversible = {} /\ head = LogHead /\ fdb.head = LogHead
  BY <1>1, InIdleS
<1>3. LogHead' = LogHead /\ LogHead \in anc[LogHead] /\ Above(LogHead, num[LogHead]) = {}
  BY <1>1, <1>2, AboveBlock, Ancestors DEF LogHead
<1>4. SavedAs(fdb, head)
  <2>1. CASE mode = "IRREVERSIBLE"
    BY <1>2, <1>3, <2>1 DEF SavedAs
  <2>2. CASE mode = "SPECULATIVE" /\ head \in Valid(fdb)
    BY <1>2, <2>2 DEF SavedAs, Top, Valid
  <2>3. CASE mode = "SPECULATIVE" /\ head = fdb.root
    <3>1. fdb.index = {}
      BY <1>2, <2>3, AboveRoot DEF Top
    <3>2. fdb.head = fdb.root
      BY <1>2, <3>1 DEF Tree, Valid
    <3>3. QED
      BY <1>2, <2>3, <3>2 DEF SavedAs
  <2>4. QED
    BY <1>2, <2>1, <2>2, <2>3
<1>5. SavedAs(file, head)'
  BY <1>1, <1>3, <1>4 DEF SavedAs
<1>6. Stacked(db', head') /\ db'.low = num[LogHead'] /\ head' \in Block
  BY <1>1, <1>2, <1>3
<1>7. file' # NoFile
  BY <1>1, <1>2, ControllerAssumption DEF Tree
<1>8. Off'
  BY <1>5, <1>6, <1>7 DEF Off, Files, States
<1>9. Sound'
  BY <1>1, SameSound DEF SInv
<1>10. QED
  BY <1>1, <1>8, <1>9, ToDownS

(* Crash: what can be recovered of the reversible blocks is the lower part *)
(* of a branch.                                                            *)
LEMMA CrashS ==
  ASSUME CInv, SInv, CInv', Crash
  PROVE  SInv'
<1>1. pc' = "down" /\ db' = NoState /\ file' = NoFile /\ UNCHANGED <<invalid, blog>>
  BY DEF Crash, Goto
<1>2. Off'
  BY <1>1 DEF Off
<1>3. LogHead' = LogHead
  BY <1>1 DEF LogHead
<1>4. PICK n \in 0 .. MaxNum :
        reversible' = {r \in reversible :
                        /\ num[r] <= n
                        /\ \A m \in num[Lowest(reversible)] .. num[r] :
                             \E q \in reversible : num[q] = m}
  BY DEF Crash
<1>5. PICK t \in Block, k \in 0 .. MaxNum :
        /\ reversible = Above(t, k) /\ k <= num[LogHead]
        /\ t \in anc[LogHead] \/ LogHead \in anc[t]
  BY DEF SInv, Sound, Segment
<1>6. LogHead \in Block /\ num[LogHead] \in Nat /\ LogHead \in anc[LogHead]
  BY LogFacts, Ancestors DEF CInv
<1>7. reversible' \cap invalid' = {}
  BY <1>1, <1>4 DEF SInv, Sound
<1>8. Segment(reversible')
  <2>1. CASE reversible' = {}
    <3>1. Above(LogHead, num[LogHead]) = {}
      BY <1>6, AboveBlock
    <3>2. Segment(Above(LogHead, num[LogHead]))
      BY <1>6, SegmentAbove
    <3>3. QED
      BY <2>1, <3>1, <3>2
  <2>2. CASE reversible' # {}
    <3> DEFINE u == Highest(reversible')
    <3>1. reversible' \subseteq Block
      BY <1>4, <1>5, Ancestors DEF Above
    <3>2. u \in reversible' /\ \A r \in reversible' : num[r] <= num[u]
      BY <2>2, <3>1, HighestIn
    <3> HIDE DEF u
    <3>3. u \in anc[t] /\ u \in Block /\ num[u] <= n /\ num[u] \in Nat
      BY <1>4, <1>5, <3>1, <3>2, Ancestors DEF Above
    <3>4. \A m \in num[Lowest(reversible)] .. num[u] : \E q \in reversible : num[q] = m
      BY <1>4, <3>2
    <3>5. Lowest(reversible) \in reversible /\ num[Lowest(reversible)] \in Nat
      <4>1. reversible \subseteq Block /\ reversible # {}
        BY <1>4, <1>5, <3>2, Ancestors DEF Above
      <4>2. QED
        BY <4>1, LowestIn, Ancestors
    <3>6. ASSUME NEW r \in reversible' PROVE r \in Above(u, k)
      <4>1. r \in anc[t] /\ k < num[r] /\ num[r] <= num[u]
        BY <1>4, <1>5, <3>2 DEF Above
      <4>2. r \in anc[u]
        BY <3>3, <4>1, OnOneBranch
      <4>3. QED
        BY <4>1, <4>2 DEF Above
    <3>7. ASSUME NEW r \in Above(u, k) PROVE r \in reversible'
      <4>1. r \in anc[u] /\ k < num[r]
        BY DEF Above
      <4>2. r \in anc[t] /\ r \in reversible
        BY <1>5, <3>3, <4>1, Ancestors DEF Above
      <4>3. num[r] \in Nat /\ num[r] <= num[u]
        BY <3>3, <4>1, Ancestors
      <4>4. num[r] <= n
        BY <3>3, <4>3
      <4>5. ASSUME NEW m \in num[Lowest(reversible)] .. num[r] PROVE m \in num[Lowest(reversible)] .. num[u]
        BY <3>3, <3>5, <4>3
      <4>6. QED
        BY <1>4, <3>4, <4>2, <4>4, <4>5
    <3>8. reversible' = Above(u, k)
      BY <3>6, <3>7
    <3>9. u \in anc[LogHead] \/ LogHead \in anc[u]
      BY <1>5, <1>6, <3>3, TreeAssumption, Ancestors
    <3>10. k \in Nat
      BY NumAssumption
    <3>11. QED
      BY <1>5, <3>3, <3>8, <3>9, <3>10, SegmentAbove
  <2>3. QED
    BY <2>1, <2>2
<1>9. Sound'
  BY <1>3, <1>7, <1>8 DEF Sound, Segment
<1>10. QED
  BY <1>1, <1>2, <1>9, ToDownS

(* DeleteState: the fork database stays as it was written.                 *)
LEMMA DeleteStateS ==
  ASSUME CInv, SInv, CInv', DeleteState
  PROVE  SInv'
<1>1. /\ pc = "down" /\ pc' = "down" /\ db' = NoState
      /\ UNCHANGED <<invalid, reversible, blog, file>>
  BY DEF DeleteState, call
<1>2. LogHead' = LogHead /\ LogBlocks' = LogBlocks
  BY <1>1 DEF LogHead, LogBlocks
<1>3. Files(file)' <=> Files(file)
  BY <1>1, <1>2 DEF Files, LogBlockOnly, SavedAs
<1>4. Off'
  BY <1>1, <1>3 DEF SInv, Off
<1>5. Sound'
  BY <1>1, SameSound DEF SInv
<1>6. QED
  BY <1>1, <1>4, <1>5, ToDownS

(* What init finds.                                                        *)
LEMMA ToInitS ==
  ASSUME pc' = "init", Sound', Opened'
  PROVE  SInv'
BY DEF SInv, Pushed, Called, Exact, Replays, Replaying, Bests, Onward, Forking, Off, Opened, Rewound,
       Running, Switching, Logging, Between

(* Startup: the fork database is read, or begins anew.                     *)
LEMMA StartupS ==
  ASSUME CInv, SInv, CInv', NEW m \in Modes, Startup(m)
  PROVE  SInv'
<1> DEFINE opened == IF file = NoFile THEN reset(Genesis) ELSE file
           d == IF m = "IRREVERSIBLE" /\ opened.head # opened.root
                THEN rollback_head_to_root(opened) ELSE opened
<1>1. pc = "down" /\ UNCHANGED <<invalid, reversible, blog>>
  BY DEF Startup
<1>2. LogHead' = LogHead /\ LogBlocks' = LogBlocks /\ Sound'
  BY <1>1, SameSound DEF LogHead, LogBlocks, SInv
<1>3. CASE pc' = "failed"
  BY <1>2, <1>3, ToFailedS
<1>4. CASE /\ fdb' = d /\ pc' = "init"
           /\ head' = IF db = NoState THEN Genesis ELSE d.head
           /\ db' = IF db = NoState THEN Db(num[Genesis], <<Genesis>>) ELSE db
  <2>1. Genesis \in LogBlocks /\ Genesis \in Block
    BY LogFacts DEF CInv
  <2>2. file # NoFile => Tree(file) /\ Files(file) /\ (db = NoState \/ States(file))
    BY <1>1 DEF CInv, Stored, SInv, Off
  <2>3. file = NoFile => db = NoState
    BY <1>1 DEF SInv, Off
  <2>4. ASSUME file # NoFile, LogBlockOnly(file) PROVE LogBlockOnly(d)
    <3>1. d = file
      BY <2>4 DEF LogBlockOnly, reset
    <3>2. QED
      BY <2>4, <3>1
  <2>5. ASSUME file = NoFile PROVE LogBlockOnly(d)
    <3>1. d = reset(Genesis)
      BY <2>5 DEF reset
    <3>2. QED
      BY <2>1, <3>1 DEF LogBlockOnly
  <2>6. ASSUME file # NoFile, NEW s, SavedAs(file, s) PROVE SavedAs(d, s)
    <3>1. CASE d = file
      BY <2>6, <3>1
    <3>2. CASE d = rollback_head_to_root(file)
      <4>1. d.root = file.root /\ d.head = d.root /\ d.index = file.index
        BY <2>2, <2>6, <3>2, RollbackTree
      <4>2. QED
        BY <2>6, <4>1 DEF SavedAs
    <3>3. QED
      BY <2>6, <3>1, <3>2
  <2> HIDE DEF d, opened
  <2>7. Files(d)
    BY <2>2, <2>4, <2>5, <2>6 DEF Files
  <2>8. db # NoState => States(d)
    BY <2>2, <2>3, <2>6 DEF States
  <2>9. Files(fdb)'
    BY <1>1, <1>2, <1>4, <2>7 DEF Files, LogBlockOnly, SavedAs
  <2>10. States(fdb)'
    <3>1. CASE db = NoState
      <4>1. db' = Db(num[Genesis], <<Genesis>>)
        BY <1>4, <3>1
      <4>2. OneState'
        BY <1>2, <2>1, <4>1 DEF OneState
      <4>3. QED
        BY <4>2 DEF States
    <3>2. CASE db # NoState
      <4>1. db' = db
        BY <1>4, <3>2
      <4>2. QED
        BY <1>1, <1>2, <1>4, <2>8, <3>2, <4>1 DEF States, OneState, SavedAs
    <3>3. QED
      BY <3>1, <3>2
  <2>11. Opened'
    BY <1>4, <2>9, <2>10 DEF Opened
  <2>12. QED
    BY <1>2, <1>4, <2>11, ToInitS
<1>5. QED
  BY <1>3, <1>4, Zenon DEF Startup, Fail

(* The reversible blocks that are kept end in one block, the last one that *)
(* is stored.                                                              *)
LEMMA KeptIs ==
  ASSUME CInv, SInv, pc = "init"
  PROVE  \E t \in Block :
           /\ LogHead \in anc[t] /\ Kept = Above(t, num[LogHead]) /\ LastBlockNum = num[t]
           /\ mode = "IRREVERSIBLE" => t = LogHead
<1>1. LogHead \in Block /\ num[LogHead] \in Nat /\ LogHead \in anc[LogHead]
  BY LogFacts, Ancestors DEF CInv
<1>2. \E t \in Block : /\ LogHead \in anc[t] /\ Kept = Above(t, num[LogHead])
                       /\ mode = "IRREVERSIBLE" => t = LogHead
  <2>1. Above(LogHead, num[LogHead]) = {}
    BY <1>1, AboveBlock
  <2>2. CASE mode = "IRREVERSIBLE"
    BY <1>1, <2>1, <2>2 DEF Kept
  <2>3. CASE mode # "IRREVERSIBLE"
    <3>1. PICK t \in Block, k \in 0 .. MaxNum :
            /\ reversible = Above(t, k) /\ k <= num[LogHead]
            /\ t \in anc[LogHead] \/ LogHead \in anc[t]
      BY DEF SInv, Sound, Segment
    <3>2. Kept = Above(t, num[LogHead])
      BY <1>1, <2>3, <3>1, AboveHigher DEF Kept
    <3>3. CASE LogHead \in anc[t]
      BY <2>3, <3>2, <3>3
    <3>4. CASE t \in anc[LogHead]
      <4>1. Above(t, num[LogHead]) \subseteq Above(LogHead, num[LogHead])
        BY <1>1, <3>4, Ancestors DEF Above
      <4>2. QED
        BY <1>1, <2>1, <2>3, <3>2, <4>1
    <3>5. QED
      BY <3>1, <3>3, <3>4
  <2>4. QED
    BY <2>2, <2>3
<1>3. PICK t \in Block : /\ LogHead \in anc[t] /\ Kept = Above(t, num[LogHead])
                         /\ mode = "IRREVERSIBLE" => t = LogHead
  BY <1>2
<1>4. LastBlockNum = num[t]
  <2>1. t = LogHead \/ t \in Kept
    BY <1>3, AboveBlock
  <2>2. CASE Kept = {}
    BY <2>1, <2>2 DEF LastBlockNum
  <2>3. CASE Kept # {}
    <3>1. Kept \subseteq Block /\ Kept \subseteq anc[t]
      BY <1>3, Ancestors DEF Above
    <3>2. Highest(Kept) \in Kept /\ \A c \in Kept : num[c] <= num[Highest(Kept)]
      BY <2>3, <3>1, HighestIn
    <3>3. t \in Kept
      BY <1>1, <1>3, <2>1, <2>3, AboveBlock
    <3>4. Highest(Kept) = t
      <4>1. num[t] <= num[Highest(Kept)] /\ Highest(Kept) \in anc[t]
        BY <3>1, <3>2, <3>3
      <4>2. Highest(Kept) = t \/ num[Highest(Kept)] < num[t]
        BY <4>1, Ancestors
      <4>3. num[t] \in Nat /\ num[Highest(Kept)] \in Nat
        BY <3>1, <3>2, Ancestors
      <4>4. QED
        BY <4>1, <4>2, <4>3
    <3>5. QED
      BY <2>3, <3>4 DEF LastBlockNum
  <2>4. QED
    BY <2>2, <2>3
<1>5. QED
  BY <1>3, <1>4

(* What init establishes about the chain state if its checks pass: they    *)
(* leave no choice for the head among blocks that rank equally.            *)
LEMMA InitChecked ==
  ASSUME InitCheck = "ok"
  PROVE  /\ ~(Revision(db) < num[head]) /\ ~(db.low > num[head])
         /\ mode # "IRREVERSIBLE" /\ Kept # {} /\ num[LogHead] < num[pending_head(fdb)]
            /\ num[pending_head(fdb)] <= LastBlockNum => pending_head(fdb) \in Kept
<1>1. ~(Revision(db) < num[head]) /\ ~(db.low > num[head])
  BY DEF InitCheck
<1>2. mode # "IRREVERSIBLE" /\ Kept # {} /\ num[LogHead] < num[pending_head(fdb)]
            /\ num[pending_head(fdb)] <= LastBlockNum => pending_head(fdb) \in Kept
  BY DEF InitCheck
<1>3. QED
  BY <1>1, <1>2

(* The fork database that init found, seen from its own reversible blocks. *)
LEMMA SavedIs ==
  ASSUME CInv, SInv, pc = "init", NEW t \in Block, LogHead \in anc[t], Kept = Above(t, num[LogHead]),
         mode = "IRREVERSIBLE" => t = LogHead, NEW s \in Block, SavedAs(fdb, s)
  PROVE  /\ fdb.root = LogHead /\ LogHead \in anc[s]
         /\ mode # "IRREVERSIBLE" => s = t
         /\ \/ t = LogHead /\ fdb.head = fdb.root
            \/ /\ t \in fdb.index /\ \A c \in fdb.index : ~first_preferred(c, t)
               /\ t \in fdb.validated \/ fdb.head = fdb.root
<1>1. LogHead \in Block /\ num[LogHead] \in Nat
  BY LogFacts, Ancestors DEF CInv
<1>2. LogHead \in anc[s] /\ reversible = Above(s, num[LogHead]) /\ fdb.root = LogHead
  BY DEF SavedAs
<1>3. ASSUME mode # "IRREVERSIBLE" PROVE s = t
  <2>1. Kept = {r \in Above(s, num[LogHead]) : num[r] > num[LogHead]}
    BY <1>2, <1>3 DEF Kept
  <2>2. Above(s, num[LogHead]) = Above(t, num[LogHead])
    BY <1>1, <2>1, AboveHigher
  <2>3. s = LogHead \/ num[LogHead] < num[s]
    BY <1>2, Ancestors
  <2>4. t = LogHead \/ num[LogHead] < num[t]
    BY Ancestors
  <2>5. QED
    BY <1>1, <2>2, <2>3, <2>4, SameAbove
<1>4. mode = "IRREVERSIBLE" => fdb.head = fdb.root
  BY InStart DEF Starting
<1>5. QED
  BY <1>2, <1>3, <1>4 DEF SavedAs

(* The head and the chain state that init goes on with, and the block t    *)
(* that the reversible blocks lead to.                                     *)
LEMMA InitFacts ==
  ASSUME CInv, SInv, pc = "init", InitCheck = "ok",
         NEW e, e = Db(db.low, SubSeq(db.stack, 1, num[head] - db.low + 1)),
         NEW t \in Block, LogHead \in anc[t], Kept = Above(t, num[LogHead]), LastBlockNum = num[t],
         mode = "IRREVERSIBLE" => t = LogHead
  PROVE  /\ Stacked(e, head) /\ head \in anc[t]
         /\ e.low = num[LogHead] \/ (e.low = num[head] /\ head \in LogBlocks)
         /\ \/ LogBlockOnly(fdb)
            \/ /\ fdb.root = LogHead
               /\ \/ t = LogHead /\ fdb.head = fdb.root
                  \/ /\ t \in fdb.index /\ \A c \in fdb.index : ~first_preferred(c, t)
                     /\ t \in fdb.validated \/ fdb.head = fdb.root
<1>1. /\ Tree(fdb) /\ head \in Block /\ (mode = "IRREVERSIBLE" => fdb.head = fdb.root)
      /\ fdb.index \subseteq Block
  BY InStart, AboveRoot DEF Starting
<1>2. /\ LogHead \in Block /\ LogHead \in LogBlocks /\ Genesis \in LogBlocks /\ LogBlocks \subseteq Block
      /\ \A b \in LogBlocks : num[LogHead] <= num[b] => b = LogHead
  BY LogFacts DEF CInv
<1>3. LogBlocks \subseteq anc[LogHead] /\ anc[LogHead] \subseteq anc[t]
  BY <1>2, Ancestors DEF CInv, Chained
<1>4. \A b \in Block : num[b] \in Nat
  BY Ancestors
<1>5. Files(fdb) /\ States(fdb) /\ (head = fdb.head \/ (head = Genesis /\ db = Db(num[Genesis], <<Genesis>>)))
  BY DEF SInv, Opened
<1>6. /\ ~(Revision(db) < num[head]) /\ ~(db.low > num[head])
      /\ mode # "IRREVERSIBLE" /\ Kept # {} /\ num[LogHead] < num[pending_head(fdb)]
         /\ num[pending_head(fdb)] <= LastBlockNum => pending_head(fdb) \in Kept
  BY InitChecked
<1>7. LogBlockOnly(fdb) \/ /\ fdb.root = LogHead
                           /\ \/ t = LogHead /\ fdb.head = fdb.root
                              \/ /\ t \in fdb.index /\ \A c \in fdb.index : ~first_preferred(c, t)
                                 /\ t \in fdb.validated \/ fdb.head = fdb.root
  BY <1>5, SavedIs DEF Files
(* The chain state is one of the blocks of the log.                        *)
<1>8. ASSUME NEW x \in LogBlocks, db = Db(num[x], <<x>>), head = x
      PROVE  Stacked(e, head) /\ head \in anc[t] /\ e.low = num[head] /\ head \in LogBlocks
  <2>1. Stacked(db, head) /\ db.low = num[head] /\ x \in anc[x]
    BY <1>2, <1>8, StackOne, Ancestors
  <2>2. Stacked(e, head) /\ e.low = db.low
    BY <1>1, <1>4, <1>8, <2>1, StackCut
  <2>3. QED
    BY <1>3, <1>8, <2>1, <2>2
(* The chain state is that of the branch that was saved.                   *)
<1>9. ASSUME NEW s \in Block, Stacked(db, s), db.low = num[LogHead], head \in anc[s], head \in anc[t]
      PROVE  Stacked(e, head) /\ head \in anc[t] /\ e.low = num[LogHead]
  <2>1. db.low <= num[head]
    BY <1>1, <1>2, <1>4, <1>6, <1>9
  <2>2. QED
    BY <1>9, <2>1, StackCut
<1>10. CASE head = Genesis /\ db = Db(num[Genesis], <<Genesis>>)
  BY <1>2, <1>7, <1>8, <1>10
<1>11. CASE head = fdb.head /\ OneState
  <2>1. PICK x \in LogBlocks : db = Db(num[x], <<x>>)
    BY <1>11 DEF OneState
  <2>2. db.low = num[x] /\ Revision(db) = num[x] /\ x \in Block
    BY <1>2, <2>1, StackOne
  <2>3. num[x] = num[head]
    BY <1>1, <1>4, <1>6, <2>2
  <2>4. x = head
    <3>1. CASE LogBlockOnly(fdb)
      <4>1. head \in LogBlocks
        BY <1>11, <3>1 DEF LogBlockOnly, reset
      <4>2. QED
        BY <1>2, <1>3, <2>3, <4>1, OnOneBranch
    <3>2. CASE fdb.root = LogHead
      <4>1. LogHead \in anc[head]
        BY <1>1, <1>11, <3>2, AboveRoot
      <4>2. num[LogHead] <= num[head]
        BY <1>1, <1>4, <4>1, Ancestors
      <4>3. x = LogHead
        BY <1>2, <2>3, <4>2
      <4>4. QED
        BY <1>1, <2>3, <4>1, <4>3, OnOneBranch, Ancestors
    <3>3. QED
      BY <1>7, <3>1, <3>2
  <2>5. QED
    BY <1>7, <1>8, <2>1, <2>4
<1>12. CASE head = fdb.head /\ \E s \in Block : SavedAs(fdb, s) /\ Stacked(db, s) /\ db.low = num[LogHead]
  <2>1. PICK s \in Block : SavedAs(fdb, s) /\ Stacked(db, s) /\ db.low = num[LogHead]
    BY <1>12
  <2>2. /\ fdb.root = LogHead /\ LogHead \in anc[s]
        /\ mode # "IRREVERSIBLE" => s = t
        /\ \/ t = LogHead /\ fdb.head = fdb.root
           \/ /\ t \in fdb.index /\ \A c \in fdb.index : ~first_preferred(c, t)
              /\ t \in fdb.validated \/ fdb.head = fdb.root
    BY <2>1, SavedIs
  <2>3. head = LogHead \/ (mode # "IRREVERSIBLE" /\ head = t)
    <3>1. CASE fdb.head = fdb.root
      BY <1>12, <2>2, <3>1
    <3>2. CASE fdb.head # fdb.root
      <4>1. /\ mode # "IRREVERSIBLE" /\ t \in fdb.index /\ t \in fdb.validated
            /\ \A c \in fdb.index : ~first_preferred(c, t)
        BY <1>1, <2>2, <3>2
      <4> DEFINE p == pending_head(fdb)
      <4>2. /\ p \in fdb.index \cup {fdb.root} /\ (p = fdb.head \/ p \in fdb.index \ fdb.validated)
            /\ \A c \in fdb.index : ~first_preferred(c, p)
        BY <1>1, PendingTree
      <4> HIDE DEF p
      <4>3. p \in fdb.index
        BY <1>1, <4>1, <4>2, AboveRoot
      <4>4. ~first_preferred(p, t) /\ ~first_preferred(t, p)
        BY <4>1, <4>2, <4>3
      <4>5. num[p] = num[t]
        <5>1. p \in Block /\ lib[p] \in Nat /\ lib[t] \in Nat /\ num[p] \in Nat /\ num[t] \in Nat
          BY <1>1, <4>3, Ancestors
        <5>2. QED
          BY <4>4, <5>1 DEF first_preferred
      <4>6. num[LogHead] < num[p] /\ num[p] <= LastBlockNum
        <5>1. num[fdb.root] < num[p]
          BY <1>1, <4>3, AboveRoot
        <5>2. QED
          BY <1>4, <2>2, <4>5, <5>1
      <4>7. t \in Kept
        <5>1. t # LogHead
          BY <1>1, <2>2, <4>1, AboveRoot
        <5>2. QED
          BY <5>1, AboveBlock
      <4>8. p \in Kept
        BY <1>6, <4>1, <4>6, <4>7 DEF p
      <4>9. p = t
        <5>1. p \in anc[t] /\ t \in anc[t]
          BY <4>8, Ancestors DEF Above
        <5>2. QED
          BY <4>5, <5>1, OnOneBranch
      <4>10. QED
        BY <1>12, <4>1, <4>2, <4>9
    <3>3. QED
      BY <3>1, <3>2
  <2>4. head \in anc[s] /\ head \in anc[t]
    BY <2>2, <2>3, Ancestors
  <2>5. QED
    BY <1>7, <1>9, <2>1, <2>4
<1>13. QED
  BY <1>5, <1>10, <1>11, <1>12 DEF States

(* InitController: it goes on where the head is, or replays.               *)
LEMMA InitControllerS ==
  ASSUME CInv, SInv, CInv', InitController
  PROVE  SInv'
<1>1. pc = "init" /\ pc \in Starting /\ UNCHANGED <<invalid, mode, fdb, head, pending, blog>>
  BY DEF InitController, Starting
<1>2. LogHead' = LogHead /\ LogBlocks' = LogBlocks
  BY <1>1 DEF LogHead, LogBlocks
<1>3. Tree(fdb) /\ pending # "building" /\ head \in Block
  BY <1>1, InStart
<1>4. Files(fdb) /\ States(fdb)
  BY <1>1 DEF SInv, Opened
<1>5. CASE InitCheck # "ok"
  <2>1. pc' = "down" /\ file' = fdb /\ UNCHANGED <<db, reversible>>
    BY <1>5 DEF InitController
  <2>2. Files(file)' /\ States(file)'
    BY <1>1, <1>2, <1>4, <2>1 DEF Files, States, LogBlockOnly, OneState, SavedAs
  <2>3. file' # NoFile
    BY <1>3, <2>1, ControllerAssumption DEF Tree
  <2>4. Off'
    BY <2>2, <2>3 DEF Off
  <2>5. Sound'
    BY <1>1, <2>1, SameSound DEF SInv
  <2>6. QED
    BY <2>1, <2>4, <2>5, ToDownS
<1>6. CASE InitCheck = "ok"
  <2>1. /\ db' = [db EXCEPT !.stack = SubSeq(@, 1, num[head] - db.low + 1)]
        /\ reversible' = Kept
        /\ pc' = IF LastBlockNum > num[head] THEN "replay_log" ELSE "best"
        /\ UNCHANGED <<ret, branches, todo, file>>
    BY <1>6 DEF InitController, Goto
  <2>2. db \in [low : Nat, stack : Seq(Block)]
    <3>1. CASE OneState
      <4>1. PICK x \in LogBlocks : db = Db(num[x], <<x>>)
        BY <3>1 DEF OneState
      <4>2. x \in Block
        BY LogFacts DEF CInv
      <4>3. QED
        BY <4>1, <4>2, StackOne DEF Stacked
    <3>2. CASE ~OneState
      BY <1>4, <3>2 DEF States, Stacked
    <3>3. QED
      BY <3>1, <3>2
  <2>3. db' = Db(db.low, SubSeq(db.stack, 1, num[head] - db.low + 1))
    BY <2>1, <2>2 DEF Db
  <2>4. PICK t \in Block :
          /\ LogHead \in anc[t] /\ Kept = Above(t, num[LogHead]) /\ LastBlockNum = num[t]
          /\ mode = "IRREVERSIBLE" => t = LogHead
    BY <1>1, KeptIs
  <2>5. /\ Stacked(db', head) /\ head \in anc[t]
        /\ db'.low = num[LogHead] \/ (db'.low = num[head] /\ head \in LogBlocks)
        /\ \/ LogBlockOnly(fdb)
           \/ /\ fdb.root = LogHead
              /\ \/ t = LogHead /\ fdb.head = fdb.root
                 \/ /\ t \in fdb.index /\ \A c \in fdb.index : ~first_preferred(c, t)
                    /\ t \in fdb.validated \/ fdb.head = fdb.root
    BY <1>1, <1>6, <2>3, <2>4, InitFacts
  <2>6. num[t] \in Nat /\ num[head] \in Nat /\ num[LogHead] \in Nat /\ LogHead \in Block
    BY <1>3, <2>4, Ancestors
  <2>7. reversible' \cap invalid' = {}
    BY <1>1, <2>1 DEF SInv, Sound, Kept
  <2>8. CASE num[t] > num[head]
    <3>1. pc' = "replay_log"
      BY <2>1, <2>4, <2>8
    <3>2. LogBlockOnly(fdb)' \/ SavedAs(fdb, t)'
      BY <1>1, <1>2, <2>1, <2>4, <2>5 DEF LogBlockOnly, SavedAs
    <3>3. Rewound'
      BY <1>1, <1>2, <2>1, <2>4, <2>5, <3>2 DEF Rewound
    <3>4. Segment(Above(t, num[LogHead]))
      BY <2>4, <2>6, SegmentAbove
    <3>5. Sound'
      BY <1>2, <2>1, <2>4, <2>7, <3>4 DEF Sound, Segment
    <3>6. QED
      BY <3>1, <3>3, <3>5
      DEF SInv, Pushed, Called, Exact, Replays, Replaying, Bests, Onward, Forking, Off, Opened, Rewound,
          Running, Switching, Logging, Between
  <2>9. CASE ~(num[t] > num[head])
    <3>1. pc' = "best"
      BY <2>1, <2>4, <2>9
    <3>2. head = t
      BY <2>5, <2>6, <2>9, Ancestors
    <3>3. db'.low = num[LogHead]
      <4>1. head \in LogBlocks => head = LogHead
        <5>1. num[LogHead] <= num[head]
          BY <2>4, <2>6, <3>2, Ancestors
        <5>2. QED
          BY <5>1, LogFacts DEF CInv
      <4>2. QED
        BY <2>5, <4>1
    <3>4. Called' /\ Replays' /\ Onward'
      BY <3>1 DEF Called, Replays, Replaying, Onward, Logging
    <3>5. Exact'
      BY <1>1, <1>2, <2>1, <2>4, <3>1, <3>2 DEF Exact, Floor
    <3>6. Top(head) \/ (head = fdb.root /\ fdb.head = fdb.root)
      <4>1. LogBlockOnly(fdb) => Top(head)
        BY DEF LogBlockOnly, reset, Top
      <4>2. QED
        BY <2>5, <3>2, <4>1 DEF Top
    <3>7. Bests'
      BY <1>1, <3>1, <3>6 DEF Bests, Top, Logging
    <3>8. QED
      BY <1>1, <1>2, <1>3, <2>5, <2>7, <3>1, <3>3, <3>4, <3>5, <3>7, ToLinearS DEF Between
  <2>10. QED
    BY <2>8, <2>9
<1>7. QED
  BY <1>5, <1>6

(* The reversible blocks lead on from the last block of the log.           *)
LEMMA ToReplayS ==
  ASSUME CInv', pc' = "replay", pending' # "building", Stacked(db', head'), db'.low = num[LogHead'],
         reversible' \cap invalid' = {}, NEW t \in Block, head' \in anc[t],
         reversible' = Above(t, num[LogHead']), Top(t)' \/ (t = LogHead' /\ fdb'.head = fdb'.root)
  PROVE  SInv'
<1>1. Replayed(t)'
  BY DEF Replayed, Floor
<1>2. Replays' /\ Exact' /\ Called' /\ Bests' /\ Onward'
  BY <1>1 DEF Replays, Exact, Replaying, Called, Bests, Onward, Logging
<1>3. QED
  BY <1>2, ToLinearS DEF Between

(* A start that is told to quit with its head above the log finds that     *)
(* head to be the last of the stored blocks, or has nothing to undo.       *)
LEMMA QuitAbove ==
  ASSUME CInv, SInv, pc = "replay_log", num[LogHead] <= num[head], Stacked(db, head),
         db.low = num[LogHead], NEW t \in Block, LogHead \in anc[t], head \in anc[t],
         reversible = Above(t, num[LogHead]), LogBlockOnly(fdb) \/ SavedAs(fdb, t)
  PROVE  States(fdb)
<1>1. /\ Tree(fdb) /\ LogHead \in Block /\ head \in Block /\ head \in {fdb.head, Genesis}
      /\ fdb.root = LogHead /\ LogHead \in anc[head] /\ (head = fdb.root \/ head \in Valid(fdb))
  BY InStart, CaughtUp DEF Starting
<1>2. CASE head = LogHead
  <2>1. db \in [low : Nat, stack : Seq(Block)] /\ Len(db.stack) = 1 /\ db.stack[1] = LogHead
    <3>1. /\ db \in [low : Nat, stack : Seq(Block)] /\ db.stack # <<>> /\ Revision(db) = num[head]
          /\ \A i \in 1 .. Len(db.stack) : db.stack[i] \in anc[head] /\ num[db.stack[i]] = db.low + i - 1
      BY DEF Stacked
    <3>2. num[LogHead] \in Nat
      BY <1>1, Ancestors
    <3>3. Len(db.stack) = 1
      <4>1. db.low + Len(db.stack) - 1 = db.low
        BY <1>2, <3>1 DEF Revision
      <4>2. db.low \in Nat /\ Len(db.stack) \in Nat
        BY <3>1
      <4>3. ASSUME NEW l \in Nat, NEW n \in Nat, l + n - 1 = l PROVE n = 1
        BY <4>3
      <4>4. QED
        BY <4>1, <4>2, <4>3, Zenon
    <3>4. db.stack[1] \in anc[LogHead] /\ num[db.stack[1]] = num[LogHead]
      BY <1>2, <3>1, <3>2, <3>3
    <3>5. db.stack[1] = LogHead
      BY <1>1, <3>4, OnOneBranch, Ancestors
    <3>6. QED
      BY <3>1, <3>3, <3>5
  <2>2. db = Db(num[LogHead], <<LogHead>>)
    BY <2>1 DEF Db
  <2>3. LogHead \in LogBlocks
    BY LogFacts DEF CInv
  <2>4. QED
    BY <2>2, <2>3 DEF States, OneState
<1>3. CASE head # LogHead
  <2>1. head = fdb.head /\ head \in Valid(fdb) /\ fdb.head # fdb.root
    BY <1>1, <1>3, TreeAssumption
  <2>2. ~LogBlockOnly(fdb)
    BY <2>1 DEF LogBlockOnly, reset
  <2>3. SavedAs(fdb, t) /\ t \in Valid(fdb)
    BY <1>1, <2>1, <2>2 DEF SavedAs, Valid
  <2>4. t = head
    <3> SUFFICES ASSUME t # head PROVE FALSE
      OBVIOUS
    <3>1. /\ lib[head] <= lib[t] /\ num[head] < num[t] /\ num[t] \in Nat /\ num[head] \in Nat
          /\ lib[t] \in Nat /\ lib[head] \in Nat
      BY <1>1, Ancestors
    <3>2. QED
      BY <1>1, <2>1, <2>3, <3>1 DEF Tree, first_preferred
  <2>5. QED
    BY <2>3, <2>4 DEF States
<1>4. QED
  BY <1>2, <1>3

(* ReplayLog: the head moves up to the end of the log, or part of the way. *)
LEMMA ReplayLogS ==
  ASSUME CInv, SInv, CInv', NEW h \in Block, ReplayLog(h)
  PROVE  SInv'
<1>1. pc = "replay_log" /\ pc \in Starting /\ UNCHANGED <<invalid, mode, pending, reversible, blog>>
  BY DEF ReplayLog, Starting
<1>2. LogHead' = LogHead /\ LogBlocks' = LogBlocks /\ Sound' /\ reversible' \cap invalid' = {}
  BY <1>1, SameSound DEF LogHead, LogBlocks, SInv, Sound
<1>3. pending # "building" /\ Tree(fdb) /\ LogHead \in Block /\ head \in Block
  BY <1>1, InStart
<1>4. /\ Stacked(db, head)
      /\ db.low = num[LogHead] \/ (db.low = num[head] /\ head \in LogBlocks)
  BY <1>1 DEF SInv, Rewound
<1>5. PICK t \in Block :
        /\ LogHead \in anc[t] /\ head \in anc[t] /\ reversible = Above(t, num[LogHead])
        /\ LogBlockOnly(fdb) \/ SavedAs(fdb, t)
  BY <1>1 DEF SInv, Rewound
<1>6. Top(t) \/ (t = LogHead /\ fdb.head = fdb.root)
  <2>1. LogBlockOnly(fdb) => Top(t)
    BY DEF LogBlockOnly, reset, Top
  <2>2. QED
    BY <1>5, <2>1 DEF SavedAs, Top
<1>7. CASE pc' = "failed"
  BY <1>2, <1>7, ToFailedS
<1>8. CASE /\ num[head] < num[LogHead] /\ h \in LogBlocks
           /\ head' = h /\ db' = Db(num[h], <<h>>) /\ fdb' = Resynced(h)
           /\ \/ h = LogHead /\ pc' = "replay"
              \/ pc' = "down" /\ file' = fdb'
  <2>1. Stacked(db', h) /\ db'.low = num[h]
    BY <1>8, StackOne
  <2>2. fdb' = reset(h) \/ fdb' = fdb
    BY <1>1, <1>8, ResyncedTo
  <2>3. CASE h = LogHead /\ pc' = "replay"
    <3>2. Top(t)' \/ (t = LogHead /\ fdb'.head = fdb'.root)
      <4>1. fdb' = reset(h) => Top(t)'
        BY DEF reset, Top
      <4>2. fdb' = fdb => (Top(t)' <=> Top(t))
        BY DEF Top
      <4>3. QED
        BY <1>6, <2>2, <4>1, <4>2
    <3>3. QED
      BY <1>1, <1>2, <1>3, <1>5, <1>8, <2>1, <2>3, <3>2, ToReplayS
  <2>4. CASE pc' = "down" /\ file' = fdb'
    <3>2. Files(file)'
      <4>1. CASE fdb' = reset(h)
        BY <1>2, <1>8, <2>4, <4>1 DEF Files, LogBlockOnly
      <4>2. CASE fdb' = fdb
        <5>1. Files(fdb)
          BY <1>5 DEF Files
        <5>2. QED
          BY <1>1, <1>2, <2>4, <4>2, <5>1 DEF Files, LogBlockOnly, SavedAs
      <4>3. QED
        BY <2>2, <4>1, <4>2
    <3>3. States(file)'
      BY <1>2, <1>8 DEF States, OneState
    <3>4. file' # NoFile
      BY <2>4, ControllerAssumption DEF CInv, Tree
    <3>5. Off'
      BY <3>2, <3>3, <3>4 DEF Off
    <3>6. QED
      BY <1>2, <2>4, <3>5, ToDownS
  <2>5. QED
    BY <1>8, <2>3, <2>4
<1>9. CASE /\ ~(num[head] < num[LogHead]) /\ h = head
           /\ pc' = "replay" \/ (pc' = "down" /\ file' = fdb)
           /\ UNCHANGED <<ret, branches, todo, fdb, head, db>>
  <2>1. num[head] \in Nat /\ num[LogHead] \in Nat
    BY <1>3, Ancestors
  <2>2. num[LogHead] <= num[head]
    BY <1>9, <2>1
  <2>3. head \in LogBlocks => head = LogHead
    BY <2>2, LogFacts DEF CInv
  <2>4. db.low = num[LogHead]
    BY <1>4, <2>3
  <2>5. Top(t)' <=> Top(t)
    BY <1>9 DEF Top
  <2>6. CASE pc' = "replay"
    BY <1>1, <1>2, <1>3, <1>4, <1>5, <1>6, <1>9, <2>4, <2>5, <2>6, ToReplayS
  <2>7. CASE pc' = "down" /\ file' = fdb
    <3>1. Files(fdb) /\ States(fdb)
      BY <1>1, <1>3, <1>4, <1>5, <2>2, <2>4, QuitAbove DEF Files
    <3>2. Files(file)'
      BY <1>1, <1>2, <2>7, <3>1 DEF Files, LogBlockOnly, SavedAs
    <3>3. States(file)'
      BY <1>1, <1>2, <1>9, <2>7, <3>1 DEF States, OneState, SavedAs
    <3>4. file' # NoFile
      BY <1>3, <2>7, ControllerAssumption DEF Tree
    <3>5. Off'
      BY <3>2, <3>3, <3>4 DEF Off
    <3>6. QED
      BY <1>2, <2>7, <3>5, ToDownS
  <2>8. QED
    BY <1>9, <2>6, <2>7
<1>10. LogBlocks = {blog[i] : i \in 1 .. Len(blog)}
  BY DEF CInv, Types, LogBlocks
<1>11. \/ pc' = "failed"
       \/ /\ num[head] < num[LogHead] /\ h \in {blog[i] : i \in 1 .. Len(blog)}
          /\ head' = h /\ db' = Db(num[h], <<h>>) /\ fdb' = Resynced(h)
          /\ \/ h = LogHead /\ pc' = "replay"
             \/ pc' = "down" /\ file' = fdb'
       \/ /\ ~(num[head] < num[LogHead]) /\ h = head
          /\ pc' = "replay" \/ (pc' = "down" /\ file' = fdb)
          /\ UNCHANGED <<ret, branches, todo, fdb, head, db>>
  BY Zenon DEF ReplayLog, Fail, Goto
<1>12. QED
  BY <1>7, <1>8, <1>9, <1>10, <1>11

(* ReplayReversible: the next stored block is a child of the head.         *)
LEMMA ReplayReversibleS ==
  ASSUME CInv, SInv, CInv', ReplayReversible
  PROVE  SInv'
<1>1. pc = "replay" /\ pc \in Between /\ pc \in Running
  BY DEF ReplayReversible, Between, Running
<1>2. /\ mode \in {"SPECULATIVE", "IRREVERSIBLE"}
      /\ fdb.root = LogHead /\ LogHead \in anc[head] /\ Tree(fdb)
      /\ LogHead \in Block /\ head \in Block /\ fdb.index \subseteq Block
      /\ pending # "building"
      /\ mode = "IRREVERSIBLE" => reversible = {}
  BY <1>1, InBetween DEF CInv, Building
<1>3. UNCHANGED <<invalid, mode, head, db, pending, reversible, blog, file>>
  BY DEF ReplayReversible
<1>4. /\ Stacked(db, head) /\ db.low = num[LogHead] /\ reversible \cap invalid = {}
      /\ num[LogHead] \in Nat /\ num[head] \in Nat /\ num[LogHead] <= num[head]
  BY <1>1, <1>2, InRunning
<1>5. LogHead' = LogHead
  BY <1>3 DEF LogHead
<1>6. mode = "SPECULATIVE" =>
        \E t \in Block : /\ head \in anc[t] /\ reversible = Above(t, num[LogHead])
                         /\ Top(t) \/ (t = LogHead /\ fdb.head = fdb.root)
  BY <1>1 DEF SInv, Replays, Replaying, Replayed, Floor
<1>7. CASE \E r \in reversible : num[r] = num[head] + 1
  <2> DEFINE r == CHOOSE q \in reversible : num[q] = num[head] + 1
  <2>1. r \in reversible /\ num[r] = num[head] + 1
    BY <1>7
  <2>2. \/ /\ Extends(r) /\ fdb' = (IF r \in fdb.index THEN fdb ELSE add(fdb, r))
           /\ Known(fdb, head) /\ maybe_switch_forks(fdb', r, "replay")
        \/ pc' = "failed"
    BY <1>7, Zenon DEF ReplayReversible, Fail
  <2> HIDE DEF r
  <2>3. CASE pc' = "failed"
    BY <1>3, <2>3, SameSound, ToFailedS DEF SInv
  <2>4. CASE /\ Extends(r) /\ fdb' = (IF r \in fdb.index THEN fdb ELSE add(fdb, r))
             /\ Known(fdb, head) /\ maybe_switch_forks(fdb', r, "replay")
    <3>1. mode = "SPECULATIVE"
      BY <1>2, <2>1
    <3>2. PICK t \in Block : /\ head \in anc[t] /\ reversible = Above(t, num[LogHead])
                             /\ Top(t) \/ (t = LogHead /\ fdb.head = fdb.root)
      BY <1>6, <3>1
    <3>3. r \in anc[t] /\ r \in Block /\ num[LogHead] < num[r]
      BY <2>1, <3>2, Ancestors DEF Above
    <3>4. t # LogHead
      BY <1>2, <3>3, AboveBlock, Ancestors
    <3>5. r # Genesis /\ prev[r] = head
      BY <2>4 DEF Extends
    <3>6. fdb'.index = fdb.index \cup {r}
      <4>1. CASE r \in fdb.index
        BY <2>4, <4>1
      <4>2. CASE r \notin fdb.index
        BY <1>2, <2>4, <3>3, <3>5, <4>2, AddTree
      <4>3. QED
        BY <4>1, <4>2
    <3>7. Top(t)'
      <4>1. ~first_preferred(r, t)
        BY <3>3, NotPreferred
      <4>2. QED
        BY <3>2, <3>4, <3>6, <4>1 DEF Top
    <3>8. pc' = "extend" /\ todo' = {r} /\ ret' = "replay"
      <4>1. r # head
        BY <1>4, <2>1
      <4>2. QED
        BY <2>4, <4>1 DEF maybe_switch_forks, Goto
    <3>9. Called' /\ Exact' /\ Bests' /\ Onward'
      BY <3>8 DEF Called, Exact, Replaying, Bests, Onward, Logging
    <3>10. Replays'
      <4>1. Replayed(t)'
        BY <1>3, <1>5, <3>2, <3>3, <3>7, <3>8 DEF Replayed, Floor
      <4>2. QED
        BY <4>1 DEF Replays
    <3>11. QED
      BY <1>2, <1>3, <1>4, <1>5, <3>8, <3>9, <3>10, ToLinearS
  <2>5. QED
    BY <2>2, <2>3, <2>4
<1>8. CASE ~\E r \in reversible : num[r] = num[head] + 1
  <2>1. pc' = "best" /\ UNCHANGED <<fdb, ret, branches, todo>>
    BY <1>8 DEF ReplayReversible, Goto
  <2>2. Called' /\ Replays' /\ Onward' /\ pc' \in Running
    BY <2>1 DEF Called, Replays, Replaying, Onward, Logging, Running, Between
  <2>3. CASE mode = "IRREVERSIBLE"
    BY <1>2, <1>3, <1>4, <1>5, <2>1, <2>2, <2>3, ToIrreversibleS
  <2>4. CASE mode = "SPECULATIVE"
    <3>1. PICK t \in Block : /\ head \in anc[t] /\ reversible = Above(t, num[LogHead])
                             /\ Top(t) \/ (t = LogHead /\ fdb.head = fdb.root)
      BY <1>6, <2>4
    <3>2. head = t
      <4> SUFFICES ASSUME head # t PROVE FALSE
        OBVIOUS
      <4>1. PICK c \in anc[t] : num[c] = num[head] + 1
        BY <3>1, NextOnBranch
      <4>2. num[LogHead] < num[c]
        BY <1>4, <4>1
      <4>3. c \in reversible
        BY <3>1, <4>2 DEF Above
      <4>4. QED
        BY <1>8, <4>1, <4>3
    <3>3. Exact'
      BY <1>3, <1>5, <2>1, <3>1, <3>2 DEF Exact, Floor
    <3>4. Bests'
      BY <1>2, <1>3, <2>1, <3>1, <3>2 DEF Bests, Top, Logging
    <3>5. QED
      BY <1>2, <1>3, <1>4, <1>5, <2>1, <2>2, <3>3, <3>4, ToLinearS DEF Between
  <2>5. QED
    BY <1>2, <2>3, <2>4
<1>9. QED
  BY <1>7, <1>8

(* ApplyBest: the head is the best block, or the root and the branch of    *)
(* the best block is applied.                                              *)
LEMMA ApplyBestS ==
  ASSUME CInv, SInv, CInv', ApplyBest
  PROVE  SInv'
<1>1. pc \in {"best", "best_loop"} /\ pc \in Between /\ pc \in Running
  BY DEF ApplyBest, Between, Running
<1>2. /\ mode \in {"SPECULATIVE", "IRREVERSIBLE"}
      /\ fdb.root = LogHead /\ LogHead \in anc[head] /\ Tree(fdb)
      /\ LogHead \in Block /\ head \in Block
      /\ pending # "building"
      /\ mode = "SPECULATIVE" => head = fdb.root \/ head \in Valid(fdb)
  BY <1>1, InBetween DEF CInv, Building
<1>3. UNCHANGED <<invalid, mode, fdb, head, db, pending, reversible, blog, file>>
  BY DEF ApplyBest, chain
<1>4. Stacked(db, head) /\ db.low = num[LogHead] /\ reversible \cap invalid = {}
  BY <1>1, <1>2, InRunning
<1>5. LogHead' = LogHead
  BY <1>3 DEF LogHead
<1>6. mode = "SPECULATIVE" =>
        /\ reversible = Above(head, num[LogHead])
        /\ pc = "best" => Top(head) \/ (head = fdb.root /\ fdb.head = fdb.root)
        /\ pc = "best_loop" => Top(head) /\ fdb.head = head
  BY <1>1 DEF SInv, Exact, Replaying, Floor, Bests
<1> DEFINE p == pending_head(fdb)
<1>7. /\ p = fdb.head \/ (p \in fdb.index /\ first_preferred(p, fdb.head))
      /\ \A c \in fdb.index : ~first_preferred(c, p)
  <2>1. /\ p = fdb.head \/ p \in fdb.index \ fdb.validated
        /\ \A c \in fdb.index : ~first_preferred(c, p)
    BY <1>2, PendingTree
  <2>2. p = fdb.head \/ first_preferred(p, fdb.head)
    BY DEF pending_head
  <2>3. QED
    BY <2>1, <2>2
<1>8. CASE mode # "IRREVERSIBLE" /\ p # fdb.head /\ (pc = "best" => fdb.head = fdb.root)
  <2>1. maybe_switch_forks(fdb, p, "best_loop")
    BY <1>8 DEF ApplyBest
  <2>2. pc = "best"
    BY <1>1, <1>2, <1>6, <1>7, <1>8 DEF Top
  <2>3. head = fdb.root /\ fdb.head = fdb.root
    BY <1>2, <1>8, <2>2, NoneValid
  <2>4. maybe_switch_forks(fdb', p, "best_loop") /\ p = pending_head(fdb')
    BY <1>3, <2>1
  <2> HIDE DEF p
  <2>5. /\ Tree(fdb') /\ fdb'.root = LogHead /\ head = fdb'.root /\ fdb'.head = fdb'.root
        /\ mode = "SPECULATIVE" /\ reversible' = Above(head, num[LogHead]) /\ reversible' \cap invalid = {}
        /\ Stacked(db', head) /\ db'.low = num[LogHead] /\ pending' # "building"
        /\ UNCHANGED <<invalid, mode, head, blog>>
    BY <1>2, <1>3, <1>4, <1>6, <1>8, <2>3
  <2>6. QED
    BY <1>1, <2>4, <2>5, SwitchS
<1>9. CASE ~(mode # "IRREVERSIBLE" /\ p # fdb.head /\ (pc = "best" => fdb.head = fdb.root))
  <2>1. pc' = "idle" /\ ret' = "idle"
    BY <1>9 DEF ApplyBest, Goto
  <2>2. Called' /\ Replays' /\ Onward' /\ pc' \in Running
    BY <2>1 DEF Called, Replays, Replaying, Onward, Logging, Running, Between
  <2>3. CASE mode = "IRREVERSIBLE"
    BY <1>2, <1>3, <1>4, <1>5, <2>2, <2>3, ToIrreversibleS
  <2>4. CASE mode = "SPECULATIVE"
    <3>1. Top(head)
      BY <1>1, <1>6, <1>7, <1>9, <2>4 DEF Top
    <3>2. Exact'
      BY <1>3, <1>5, <1>6, <2>1, <2>4 DEF Exact, Floor
    <3>3. Bests'
      BY <1>3, <2>1, <3>1 DEF Bests, Top, Logging
    <3>4. QED
      BY <1>2, <1>3, <1>4, <1>5, <2>1, <2>2, <3>2, <3>3, ToLinearS DEF Between
  <2>5. QED
    BY <1>2, <2>3, <2>4
<1>10. QED
  BY <1>8, <1>9

(* QuitInit leaves the stores as a shutdown does.                          *)
LEMMA QuitInitS ==
  ASSUME CInv, SInv, CInv', QuitInit
  PROVE  SInv'
<1>1. /\ pc = "best" /\ pc \in Between /\ pc \in Running /\ file' = fdb /\ pc' = "down"
      /\ UNCHANGED <<invalid, mode, fdb, head, db, reversible, blog>>
  BY DEF QuitInit, Goto, Between, Running
<1>2. /\ mode \in {"SPECULATIVE", "IRREVERSIBLE"} /\ fdb.root = LogHead /\ Tree(fdb)
      /\ LogHead \in Block /\ head \in Block /\ LogHead \in anc[head] /\ pending # "building"
      /\ mode = "SPECULATIVE" => head = fdb.root \/ head \in Valid(fdb)
      /\ mode = "IRREVERSIBLE" => reversible = {} /\ head = LogHead /\ fdb.head = LogHead
  BY <1>1, InBetween DEF CInv, Building
<1>3. Stacked(db, head) /\ db.low = num[LogHead]
  BY <1>1, <1>2, InRunning
<1>4. mode = "SPECULATIVE" =>
        /\ reversible = Above(head, num[LogHead])
        /\ Top(head) \/ (head = fdb.root /\ fdb.head = fdb.root)
  BY <1>1 DEF SInv, Exact, Replaying, Floor, Bests
<1>5. LogHead' = LogHead /\ LogHead \in anc[LogHead] /\ Above(LogHead, num[LogHead]) = {}
  BY <1>1, <1>2, AboveBlock, Ancestors DEF LogHead
<1>6. SavedAs(fdb, head)
  <2>1. CASE mode = "IRREVERSIBLE"
    BY <1>2, <1>5, <2>1 DEF SavedAs
  <2>2. CASE mode = "SPECULATIVE" /\ head = fdb.root
    <3>1. fdb.head = fdb.root
      <4>1. Top(head) => fdb.index = {}
        BY <1>2, <2>2, AboveRoot DEF Top
      <4>2. fdb.index = {} => fdb.head = fdb.root
        BY <1>2 DEF Tree, Valid
      <4>3. QED
        BY <1>4, <2>2, <4>1, <4>2
    <3>2. QED
      BY <1>2, <1>4, <2>2, <3>1 DEF SavedAs
  <2>3. CASE mode = "SPECULATIVE" /\ head # fdb.root
    BY <1>2, <1>4, <2>3 DEF SavedAs, Top, Valid
  <2>4. QED
    BY <1>2, <2>1, <2>2, <2>3
<1>7. SavedAs(file, head)'
  BY <1>1, <1>5, <1>6 DEF SavedAs
<1>8. Stacked(db', head') /\ db'.low = num[LogHead'] /\ head' \in Block
  BY <1>1, <1>2, <1>3, <1>5
<1>9. file' # NoFile
  BY <1>1, <1>2, ControllerAssumption DEF Tree
<1>10. Off'
  BY <1>7, <1>8, <1>9 DEF Off, Files, States
<1>11. Sound'
  BY <1>1, SameSound DEF SInv
<1>12. QED
  BY <1>1, <1>10, <1>11, ToDownS

(* A new node.                                                             *)
LEMMA InitSInv == Init => SInv
<1> SUFFICES ASSUME Init PROVE SInv
  OBVIOUS
<1>1. Genesis \in Block /\ Genesis \in anc[Genesis] /\ num[Genesis] \in Nat
  BY TreeAssumption, Ancestors
<1>2. LogHead = Genesis /\ head = Genesis /\ reversible = {} /\ pc = "idle" /\ aborted(db) = db
  BY DEF Init, LogHead, aborted
<1>3. Stacked(db, head) /\ db.low = num[LogHead]
  BY <1>1, <1>2, StackOne DEF Init
<1>4. reversible = Above(head, num[LogHead])
  BY <1>1, <1>2, AboveBlock
<1>5. Segment(reversible)
  BY <1>1, <1>2, <1>4, NumAssumption DEF Segment
<1>6. Pushed /\ Exact /\ Sound
  BY <1>2, <1>3, <1>4, <1>5 DEF Pushed, Exact, Floor, Sound
<1>7. Bests
  BY <1>2 DEF Init, Bests, Top, reset, Logging
<1>8. QED
  BY <1>2, <1>6, <1>7 DEF SInv, Called, Replays, Replaying, Onward, Forking, Off, Opened, Rewound, Logging, Switching

(* Every step preserves it: one lemma per action.                          *)
LEMMA NextSInv == CInv /\ SInv /\ CInv' /\ [Next]_vars => SInv'
<1> SUFFICES ASSUME CInv, SInv, CInv', [Next]_vars PROVE SInv'
  OBVIOUS
<1>1. CASE Step
  BY <1>1, ExtendS, PopOldS, ApplyNewS, PopNewS, ReapplyOldS, LogIrreversibleS, LogBlockS, TrimS,
     InitControllerS, ReplayLogS, ReplayReversibleS, ApplyBestS, QuitInitS
  DEF Step
<1>2. ASSUME NEW b \in Block \ {Genesis}, PushBlock(b) \/ CommitBlock(b) PROVE SInv'
  BY <1>2, PushBlockS, CommitBlockS
<1>3. ASSUME NEW m \in Modes, Startup(m) PROVE SInv'
  BY <1>3, StartupS
<1>4. CASE UNCHANGED vars
  <2>1. /\ UNCHANGED <<invalid, mode, fdb, head, db, pending, reversible, blog>>
        /\ UNCHANGED <<file, pc, ret, branches, todo>>
    BY <1>4 DEF vars
  <2>2. LogHead' = LogHead /\ LogBlocks' = LogBlocks /\ aborted(db)' = aborted(db) /\ Floor' = Floor
    BY <2>1 DEF LogHead, LogBlocks, aborted, Floor
  <2>3. (Pushed /\ Called /\ Exact /\ Replays)'
    BY <2>1, <2>2 DEF SInv, Pushed, Called, Exact, Replays, Replayed, Replaying, Top
  <2>4. (Sound /\ Bests /\ Onward)'
    BY <2>1, <2>2, SameSound DEF SInv, Bests, Onward, Top
  <2>5. Forking'
    BY <2>1, <2>2 DEF SInv, Forking, Fork, Top
  <2>6. (Off /\ Opened /\ Rewound)'
    BY <2>1, <2>2 DEF SInv, Off, Opened, Rewound, Files, States, OneState, SavedAs, LogBlockOnly
  <2>7. QED
    BY <2>3, <2>4, <2>5, <2>6 DEF SInv
<1>5. QED
  BY <1>1, <1>2, <1>3, <1>4, PendingS, ShutdownS, CrashS, DeleteStateS DEF Next

-----------------------------------------------------------------------------
(* Theorems.                                                               *)

(* The states of a node whose undo stack goes down to the root.            *)
LEMMA StackBranch ==
  ASSUME NEW h \in Block, NEW d, Stacked(d, h), fdb.root \in anc[h], d.low = num[fdb.root]
  PROVE  StackIsBranch(d, h)
BY StackTop, StackLinks DEF StackIsBranch

(* Between calls the five stores agree, for every tree of blocks, every    *)
(* set of invalid ones, either read mode and any order of blocks, crashes  *)
(* and restarts: the log ends in the fork database's root, the undo states *)
(* are one for each block from there to the head, and exactly those blocks *)
(* are stored as reversible.                                               *)
THEOREM AllStoresAgree == Spec => []StoresAgree
<1>1. CInv /\ SInv => StoresAgree
  <2> SUFFICES ASSUME CInv, SInv, pc = "idle"
      PROVE /\ LogHead = fdb.root /\ fdb.root \in anc[head]
            /\ StackIsBranch(aborted(db), head)
            /\ reversible = IF mode = "IRREVERSIBLE" THEN {} ELSE anc[head] \ anc[fdb.root]
    BY DEF StoresAgree
  <2>1. /\ Stacked(aborted(db), head) /\ aborted(db).low = num[LogHead]
        /\ mode \in {"SPECULATIVE", "IRREVERSIBLE"} /\ fdb.root = LogHead
        /\ LogHead \in Block /\ head \in Block /\ LogHead \in anc[head]
        /\ mode = "SPECULATIVE" => reversible = Above(head, num[LogHead])
        /\ mode = "IRREVERSIBLE" => reversible = {}
    BY InIdleS
  <2>2. StackIsBranch(aborted(db), head)
    BY <2>1, StackBranch
  <2>3. Above(head, num[LogHead]) = anc[head] \ anc[LogHead]
    BY <2>1, AboveBlock
  <2>4. QED
    BY <2>1, <2>2, <2>3
<1>2. QED
  BY <1>1, InitCInv, NextCInv, InitSInv, NextSInv, PTL DEF Spec

(* A fork switch that meets an invalid block ends with the head it began   *)
(* with and with that head's chain state, wherever on the new branch the   *)
(* invalid block was.                                                      *)
THEOREM SwitchUndone == Spec => FailedSwitchUndone
<1>1. ASSUME CInv, SInv, [Next]_vars, pc = "reapply", pc' = "idle"
      PROVE  head' = Highest(branches.second) /\ StackIsBranch(db', head')
  <2>1. ReapplyOld
    BY <1>1 DEF Next, Step, PushBlock, StartBlock, AbortBlock, CommitBlock, Extend, PopOld, ApplyNew, PopNew,
       LogIrreversible, LogBlock, TrimReversible, Shutdown, Crash, DeleteState, Startup, InitController,
       ReplayLog, ReplayReversible, ApplyBest, QuitInit, Goto, vars
  <2>2. pc \in Switching /\ pc \in Switching \ {"extend"}
    BY <1>1 DEF Switching
  <2>3. fdb.root = LogHead
    BY <1>1, <2>2, InSwitch
  <2>4. PICK s, t \in Block : Fork(s, t)
    BY <1>1, <2>2, InFork
  <2>5. /\ branches.second = anc[s] \ anc[t] /\ LogHead \in anc[s]
        /\ head \in anc[s] /\ head # s /\ todo = Above(s, num[head])
    BY <1>1, <2>4 DEF Fork
  <2> DEFINE b == Lowest(todo)
  <2>6. /\ apply_block(b) /\ b \notin invalid /\ todo = {b}
        /\ UNCHANGED <<invalid, blog, mode>>
    BY <1>1, <2>1 DEF ReapplyOld, Fail, Goto
  <2>7. b \in Block /\ b # Genesis /\ prev[b] = head /\ (Above(s, num[head]) = {b} <=> b = s)
    BY <2>5, LowestAbove
  <2> HIDE DEF b
  <2>8. b = s
    BY <2>5, <2>6, <2>7
  <2>9. /\ Stacked(db', head') /\ db'.low = num[LogHead'] /\ head' = b /\ LogHead' = LogHead
    BY <1>1, <2>2, <2>6, <2>7, AppliedS
  <2>10. s \notin anc[t]
    <3>1. branches.second # {}
      BY <1>1, <2>2 DEF CInv, OldBranch
    <3>2. s \in anc[t] => anc[s] \subseteq anc[t]
      BY Ancestors
    <3>3. QED
      BY <2>5, <3>1, <3>2
  <2>11. head' = Highest(branches.second)
    BY <2>5, <2>8, <2>9, <2>10, HighestOwn
  <2>12. StackIsBranch(db', s)
    BY <2>3, <2>5, <2>8, <2>9, StackBranch
  <2>13. QED
    BY <2>8, <2>9, <2>11, <2>12
<1>2. CInv /\ SInv /\ [Next]_vars =>
        [pc = "reapply" /\ pc' = "idle" =>
            head' = Highest(branches.second) /\ StackIsBranch(db', head')]_vars
  BY <1>1
<1>3. QED
  BY <1>2, InitCInv, NextCInv, InitSInv, NextSInv, PTL DEF Spec, FailedSwitchUndone

(* No validated block stands on an invalid one.                            *)
Clean(d) == \A c \in Valid(d) : anc[c] \cap invalid = {}

(* Invalid blocks reach neither the fork database's validated blocks, in   *)
(* memory or in the file, nor the head's branch, nor the log.              *)
Cleared ==
  /\ Clean(fdb) /\ (file # NoFile => Clean(file))
  /\ anc[head] \cap invalid = {} /\ anc[LogHead] \cap invalid = {}

-----------------------------------------------------------------------------
(* Invalid blocks are kept out.                                            *)

(* A fork database with at most one more validated block, a valid one.     *)
LEMMA CleanWith ==
  ASSUME NEW d, Clean(d), NEW e, NEW b, Valid(e) \subseteq Valid(d) \cup {b}, anc[b] \cap invalid = {}
  PROVE  Clean(e)
BY DEF Clean

(* The four places, one by one.                                            *)
LEMMA ToCleared ==
  ASSUME Cleared, UNCHANGED invalid, Clean(fdb'), file' \in {file, fdb', NoFile},
         anc[head'] \cap invalid = {}, anc[LogHead'] \cap invalid = {}
  PROVE  Cleared'
BY DEF Cleared, Clean

(* A step that changes neither log, head nor fork database.                *)
LEMMA SameCleared ==
  ASSUME Cleared, UNCHANGED <<invalid, fdb, head, blog>>, file' \in {file, fdb, NoFile}
  PROVE  Cleared'
BY ToCleared DEF Cleared, Clean, LogHead

(* The child of the head that is applied next in a switch.                 *)
LEMMA NextNew ==
  ASSUME CInv, SInv, pc = "apply", NEW b, b = Lowest(todo)
  PROVE  b \in fdb.index /\ b \in Block /\ b # Genesis /\ prev[b] = head
<1>1. pc \in Switching \ {"extend"}
  BY DEF Switching
<1>2. PICK s \in Block, t \in Block : Fork(s, t)
  BY <1>1, InFork
<1>3. /\ branches.first = anc[t] \ anc[s]
      /\ head \in anc[t] /\ head # t /\ todo = Above(t, num[head]) /\ todo \cap anc[s] = {}
  BY <1>2 DEF Fork
<1>4. b \in todo /\ b \in anc[t] /\ b \in Block /\ b # Genesis /\ prev[b] = head
  BY <1>3, LowestAbove
<1>5. branches.first \subseteq fdb.index
  BY DEF CInv, NewBranch
<1>6. QED
  BY <1>3, <1>4, <1>5

(* The child of the head that is applied next when a switch is undone.     *)
LEMMA NextOld ==
  ASSUME CInv, SInv, pc = "reapply", NEW b, b = Lowest(todo)
  PROVE  b \in todo /\ b \in Block /\ b # Genesis /\ prev[b] = head
<1>1. pc \in Switching \ {"extend"}
  BY DEF Switching
<1>2. PICK s \in Block, t \in Block : Fork(s, t)
  BY <1>1, InFork
<1>3. head \in anc[s] /\ head # s /\ todo = Above(s, num[head])
  BY <1>2 DEF Fork
<1>4. QED
  BY <1>3, LowestAbove

(* A valid child of the head is applied and marked.                        *)
LEMMA AppliedClean ==
  ASSUME Cleared, Tree(fdb), NEW b \in fdb.index, b \in Block, b # Genesis, prev[b] = head, b \notin invalid
  PROVE  Clean(mark_valid(fdb, b)) /\ anc[b] \cap invalid = {}
<1>1. anc[b] \cap invalid = {}
  BY Child DEF Cleared
<1>2. Valid(mark_valid(fdb, b)) \subseteq Valid(fdb) \cup {b}
  BY MarkTree DEF Valid
<1>3. QED
  BY <1>1, <1>2, CleanWith DEF Cleared

(* Extend: the child of the head is removed, or valid and applied.         *)
LEMMA ExtendC ==
  ASSUME CInv, SInv, Cleared, Extend
  PROVE  Cleared'
<1>1. pc = "extend" /\ pc \in Switching
  BY DEF Extend, Switching
<1>2. Tree(fdb) /\ head \in Block /\ fdb.index \subseteq Block
  BY <1>1, InSwitch
<1>3. PICK t \in fdb.index : todo = {t} /\ Extends(t)
  BY <1>1 DEF CInv, Extending
<1>4. CASE UNCHANGED chain
  BY <1>4, SameCleared DEF chain
<1>5. CASE /\ ~RemoveThrows(fdb, t) /\ fdb' = remove(fdb, t) /\ Throw(fdb')
           /\ UNCHANGED <<invalid, mode, head, db, pending, reversible, blog>>
  <2>1. Valid(fdb') \subseteq Valid(fdb)
    BY <1>2, <1>5, RemoveTree
  <2>2. Clean(fdb') /\ LogHead' = LogHead
    BY <1>5, <2>1 DEF Cleared, Clean, LogHead
  <2>3. file' \in {file, fdb'}
    BY <1>5 DEF Throw
  <2>4. QED
    BY <1>5, <2>2, <2>3, ToCleared DEF Cleared
<1>6. CASE /\ t \notin invalid /\ apply_block(t) /\ fdb' = mark_valid(fdb, t)
           /\ UNCHANGED <<invalid, mode, pending, blog, file>>
  <2>1. Clean(fdb') /\ anc[t] \cap invalid = {}
    BY <1>2, <1>3, <1>6, AppliedClean DEF Extends
  <2>2. head' = t /\ LogHead' = LogHead
    BY <1>6 DEF apply_block, LogHead
  <2>3. QED
    BY <1>6, <2>1, <2>2, ToCleared DEF Cleared
<1>7. QED
  BY <1>3, <1>4, <1>5, <1>6 DEF Extend

(* PopOld and PopNew: the head goes back along its branch.                 *)
LEMMA PopC ==
  ASSUME CInv, SInv, Cleared, PopOld \/ PopNew
  PROVE  Cleared'
<1>1. \/ UNCHANGED chain
      \/ CanPop /\ pop_block /\ UNCHANGED <<invalid, mode, fdb, pending, blog, file>>
  BY Zenon DEF PopOld, PopNew
<1>2. CASE UNCHANGED chain
  BY <1>2, SameCleared DEF chain
<1>3. CASE CanPop /\ pop_block /\ UNCHANGED <<invalid, mode, fdb, pending, blog, file>>
  <2>1. head \in Block /\ head # Genesis /\ head' = prev[head]
    BY <1>3 DEF CInv, Types, CanPop, pop_block
  <2>2. anc[head'] \cap invalid = {}
    BY <2>1, Child DEF Cleared
  <2>3. Clean(fdb') /\ LogHead' = LogHead
    BY <1>3 DEF Cleared, LogHead
  <2>4. QED
    BY <1>3, <2>2, <2>3, ToCleared DEF Cleared
<1>4. QED
  BY <1>1, <1>2, <1>3

(* ApplyNew: the next block is removed, or valid and applied.              *)
LEMMA ApplyNewC ==
  ASSUME CInv, SInv, Cleared, ApplyNew
  PROVE  Cleared'
<1> DEFINE b == Lowest(todo)
<1>1. pc = "apply" /\ pc \in Switching
  BY DEF ApplyNew, Switching
<1>2. Tree(fdb)
  BY <1>1, InSwitch
<1>3. b \in fdb.index /\ b \in Block /\ b # Genesis /\ prev[b] = head
  BY <1>1, NextNew
<1>4. \/ UNCHANGED chain
      \/ /\ ~RemoveThrows(fdb, b) /\ fdb' = remove(fdb, b)
         /\ UNCHANGED <<invalid, mode, head, db, pending, reversible, blog, file>>
      \/ /\ b \notin invalid /\ apply_block(b) /\ fdb' = mark_valid(fdb, b)
         /\ UNCHANGED <<invalid, mode, pending, blog, file>>
  BY Zenon DEF ApplyNew
<1> HIDE DEF b
<1>5. CASE UNCHANGED chain
  BY <1>5, SameCleared DEF chain
<1>6. CASE /\ ~RemoveThrows(fdb, b) /\ fdb' = remove(fdb, b)
           /\ UNCHANGED <<invalid, mode, head, db, pending, reversible, blog, file>>
  <2>1. Valid(fdb') \subseteq Valid(fdb)
    BY <1>2, <1>3, <1>6, RemoveTree
  <2>2. Clean(fdb') /\ LogHead' = LogHead
    BY <1>6, <2>1 DEF Cleared, Clean, LogHead
  <2>3. QED
    BY <1>6, <2>2, ToCleared DEF Cleared
<1>7. CASE /\ b \notin invalid /\ apply_block(b) /\ fdb' = mark_valid(fdb, b)
           /\ UNCHANGED <<invalid, mode, pending, blog, file>>
  <2>1. Clean(fdb') /\ anc[b] \cap invalid = {}
    BY <1>2, <1>3, <1>7, AppliedClean
  <2>2. head' = b /\ LogHead' = LogHead
    BY <1>7 DEF apply_block, LogHead
  <2>3. QED
    BY <1>7, <2>1, <2>2, ToCleared DEF Cleared
<1>8. QED
  BY <1>4, <1>5, <1>6, <1>7

(* ReapplyOld: only a valid block is applied again.                        *)
LEMMA ReapplyOldC ==
  ASSUME CInv, SInv, Cleared, ReapplyOld
  PROVE  Cleared'
<1> DEFINE b == Lowest(todo)
<1>1. pc = "reapply"
  BY DEF ReapplyOld
<1>2. b \in Block /\ b # Genesis /\ prev[b] = head
  BY <1>1, NextOld
<1>3. \/ UNCHANGED chain
      \/ /\ b \notin invalid /\ apply_block(b) /\ file' \in {file, fdb}
         /\ UNCHANGED <<invalid, mode, fdb, pending, blog>>
  <2>1. \/ UNCHANGED chain
        \/ /\ b \notin invalid /\ apply_block(b) /\ (Throw(fdb) \/ UNCHANGED file)
           /\ UNCHANGED <<invalid, mode, fdb, pending, blog>>
    BY Zenon DEF ReapplyOld
  <2>2. QED
    BY <2>1 DEF Throw
<1> HIDE DEF b
<1>4. CASE UNCHANGED chain
  BY <1>4, SameCleared DEF chain
<1>5. CASE /\ b \notin invalid /\ apply_block(b) /\ file' \in {file, fdb}
           /\ UNCHANGED <<invalid, mode, fdb, pending, blog>>
  <2>1. anc[b] \cap invalid = {}
    BY <1>2, <1>5, Child DEF Cleared
  <2>2. head' = b /\ LogHead' = LogHead
    BY <1>5 DEF apply_block, LogHead
  <2>3. QED
    BY <1>5, <2>1, <2>2, ToCleared DEF Cleared
<1>6. QED
  BY <1>3, <1>4, <1>5

(* The root moves up to the log's last block.                              *)
LEMMA AdvancedTo ==
  ASSUME CInv, pc \in Logging, NEW e, e = advanced(fdb, LogHead)
  PROVE  /\ e.index \subseteq fdb.index /\ e.validated \subseteq fdb.validated
         /\ e.head = fdb.head /\ e.root = LogHead /\ Tree(e) /\ Valid(e) \subseteq Valid(fdb)
<1>1. /\ LogHead \in anc[head] /\ Tree(fdb) /\ LogHead \in Block /\ head \in Block
      /\ mode \in {"SPECULATIVE", "IRREVERSIBLE"}
      /\ mode = "IRREVERSIBLE" => fdb.head = LogHead
  BY InLog
<1>2. LogHead = fdb.root \/ LogHead \in fdb.index
  BY DEF CInv, Appending
<1>3. CASE LogHead = fdb.root
  BY <1>1, <1>3 DEF advanced
<1>4. CASE LogHead # fdb.root
  <2>1. mode = "SPECULATIVE" => fdb.head = head
    BY DEF CInv, Appending
  <2>2. LogHead \in anc[fdb.head]
    BY <1>1, <2>1, Ancestors
  <2>3. e = advance_root(fdb, LogHead) /\ LogHead \in fdb.index
    BY <1>2, <1>4 DEF advanced
  <2>4. QED
    BY <1>1, <2>2, <2>3, AdvanceTree DEF Valid
<1>5. QED
  BY <1>3, <1>4

(* LogBlock: in irreversible mode only a valid block is appended, in       *)
(* speculative mode one below the head.                                    *)
LEMMA LogBlockC ==
  ASSUME CInv, SInv, Cleared, LogBlock
  PROVE  Cleared'
<1> DEFINE b == Lowest(todo)
<1>1. pc = "log_block" /\ pc \in Logging
  BY DEF LogBlock, Logging
<1>2. /\ b \in Block /\ b # Genesis /\ prev[b] = LogHead
      /\ b \in fdb.index /\ (mode = "SPECULATIVE" => b \in anc[head])
  BY <1>1, NextToLog
<1>3. /\ Tree(fdb) /\ head \in Block /\ mode \in {"SPECULATIVE", "IRREVERSIBLE"}
      /\ mode = "IRREVERSIBLE" => head = LogHead
  BY <1>1, InLog
<1>4. \/ UNCHANGED chain
      \/ /\ fdb' = advanced(fdb, LogHead) /\ Throw(fdb')
         /\ UNCHANGED <<invalid, mode, head, db, pending, reversible, blog>>
      \/ /\ mode = "IRREVERSIBLE" => b \notin invalid
         /\ IF mode = "IRREVERSIBLE" THEN head' = b /\ fdb' = mark_valid(fdb, b)
            ELSE UNCHANGED <<head, fdb>>
         /\ blog' = Append(blog, b)
         /\ UNCHANGED <<invalid, mode, pending, reversible, file>>
  BY Zenon DEF LogBlock
<1> HIDE DEF b
<1>5. CASE UNCHANGED chain
  BY <1>5, SameCleared DEF chain
<1>6. CASE /\ fdb' = advanced(fdb, LogHead) /\ Throw(fdb')
           /\ UNCHANGED <<invalid, mode, head, db, pending, reversible, blog>>
  <2>1. Valid(fdb') \subseteq Valid(fdb)
    BY <1>1, <1>6, AdvancedTo
  <2>2. Clean(fdb') /\ LogHead' = LogHead
    BY <1>6, <2>1 DEF Cleared, Clean, LogHead
  <2>3. file' \in {file, fdb'}
    BY <1>6 DEF Throw
  <2>4. QED
    BY <1>6, <2>2, <2>3, ToCleared DEF Cleared
<1>7. CASE /\ mode = "IRREVERSIBLE" => b \notin invalid
           /\ IF mode = "IRREVERSIBLE" THEN head' = b /\ fdb' = mark_valid(fdb, b)
              ELSE UNCHANGED <<head, fdb>>
           /\ blog' = Append(blog, b)
           /\ UNCHANGED <<invalid, mode, pending, reversible, file>>
  <2>1. LogHead' = b
    BY <1>2, <1>7, LogGrows DEF CInv
  <2>2. CASE mode = "IRREVERSIBLE"
    <3>1. Clean(fdb') /\ anc[b] \cap invalid = {}
      BY <1>2, <1>3, <1>7, <2>2, AppliedClean
    <3>2. QED
      BY <1>7, <2>1, <2>2, <3>1, ToCleared
  <2>3. CASE mode = "SPECULATIVE"
    <3>1. anc[b] \cap invalid = {}
      BY <1>2, <1>3, <2>3, Ancestors DEF Cleared
    <3>2. QED
      BY <1>7, <2>1, <2>3, <3>1, ToCleared DEF Cleared
  <2>4. QED
    BY <1>3, <2>2, <2>3
<1>8. QED
  BY <1>4, <1>5, <1>6, <1>7

(* TrimReversible: the root moves up.                                      *)
LEMMA TrimC ==
  ASSUME CInv, SInv, Cleared, TrimReversible
  PROVE  Cleared'
<1>1. pc = "trim" /\ pc \in Logging /\ UNCHANGED <<invalid, head, blog, file>>
  BY DEF TrimReversible, Logging
<1>2. fdb' = fdb \/ fdb' = advanced(fdb, LogHead)
  BY Zenon DEF TrimReversible
<1>3. Valid(fdb') \subseteq Valid(fdb)
  BY <1>1, <1>2, AdvancedTo
<1>4. Clean(fdb') /\ LogHead' = LogHead
  BY <1>1, <1>3 DEF Cleared, Clean, LogHead
<1>5. QED
  BY <1>1, <1>4, ToCleared DEF Cleared

(* A received block is not validated.                                      *)
LEMMA AddedClean ==
  ASSUME Cleared, Tree(fdb), NEW b \in Block, b # Genesis, Known(fdb, prev[b]), b \notin fdb.index
  PROVE  Clean(add(fdb, b)) /\ Valid(add(fdb, b)) = Valid(fdb)
<1>1. add(fdb, b).index = fdb.index \cup {b} /\ add(fdb, b).validated = fdb.validated
  BY AddTree
<1>2. b # fdb.root
  <2>1. prev[b] \in Block /\ num[b] = num[prev[b]] + 1
    BY Child
  <2>2. num[fdb.root] <= num[prev[b]]
    BY <2>1, AboveRoot, Ancestors DEF Known
  <2>3. num[b] \in Nat /\ num[prev[b]] \in Nat
    BY <2>1, Ancestors
  <2>4. QED
    BY <2>1, <2>2, <2>3
<1>3. Valid(add(fdb, b)) = Valid(fdb)
  BY <1>1, <1>2 DEF Valid, Tree
<1>4. QED
  BY <1>3 DEF Cleared, Clean

(* PushBlock: the block is not validated yet.                              *)
LEMMA PushBlockC ==
  ASSUME CInv, SInv, Cleared, NEW b \in Block \ {Genesis}, PushBlock(b)
  PROVE  Cleared'
<1>1. /\ Known(fdb, prev[b]) /\ b \notin fdb.index /\ fdb' = add(fdb, b)
      /\ UNCHANGED <<invalid, head, blog, file>>
  BY DEF PushBlock
<1>2. Clean(fdb') /\ LogHead' = LogHead
  BY <1>1, AddedClean DEF CInv, LogHead
<1>3. QED
  BY <1>1, <1>2, ToCleared DEF Cleared

(* CommitBlock: a block built on the head is valid.                        *)
LEMMA CommitBlockC ==
  ASSUME CInv, SInv, Cleared, NEW b \in Block \ {Genesis}, CommitBlock(b)
  PROVE  Cleared'
<1>1. \/ UNCHANGED <<invalid, fdb, head, blog, file>>
      \/ /\ fdb' = mark_valid(add(fdb, b), b) /\ mark_valid(add(fdb, b), b).head = b
         /\ head' = mark_valid(add(fdb, b), b).head /\ UNCHANGED <<invalid, blog, file>>
  BY Zenon DEF CommitBlock
<1>2. pc = "idle" /\ Extends(b) /\ b \notin fdb.index /\ b \notin invalid
  BY Zenon DEF CommitBlock
<1>3. CASE UNCHANGED <<invalid, fdb, head, blog, file>>
  BY <1>3, SameCleared
<1>4. CASE /\ fdb' = mark_valid(add(fdb, b), b) /\ head' = b /\ UNCHANGED <<invalid, blog, file>>
  <2>1. /\ Tree(fdb) /\ mode \in {"SPECULATIVE", "IRREVERSIBLE"} /\ head \in Block /\ LogHead \in Block
        /\ fdb.root = LogHead
        /\ mode = "SPECULATIVE" => head = fdb.root \/ head \in Valid(fdb)
        /\ mode = "IRREVERSIBLE" => head = LogHead
    BY <1>2, InIdleS
  <2>2. prev[b] = head /\ Known(fdb, prev[b])
    BY <1>2, <2>1 DEF Extends, Known, Valid
  <2>3. Clean(add(fdb, b)) /\ Tree(add(fdb, b)) /\ b \in add(fdb, b).index
    BY <1>2, <2>1, <2>2, AddedClean, AddTree
  <2>4. anc[b] \cap invalid = {}
    BY <1>2, <2>2, Child DEF Cleared
  <2>5. Valid(fdb') \subseteq Valid(add(fdb, b)) \cup {b}
    BY <1>4, <2>3, MarkTree DEF Valid
  <2>6. Clean(fdb') /\ LogHead' = LogHead
    BY <1>4, <2>3, <2>4, <2>5, CleanWith DEF LogHead
  <2>7. QED
    BY <1>4, <2>4, <2>6, ToCleared DEF Cleared
<1>5. QED
  BY <1>1, <1>3, <1>4

(* Startup: what was written is read, validated blocks may be forgotten.   *)
LEMMA StartupC ==
  ASSUME CInv, SInv, Cleared, NEW m \in Modes, Startup(m)
  PROVE  Cleared'
<1> DEFINE opened == IF file = NoFile THEN reset(Genesis) ELSE file
           d == IF m = "IRREVERSIBLE" /\ opened.head # opened.root
                THEN rollback_head_to_root(opened) ELSE opened
<1>1. \/ UNCHANGED <<invalid, fdb, head, blog, file>>
      \/ /\ fdb' = d /\ file' = NoFile /\ head' \in {Genesis, d.head} /\ UNCHANGED <<invalid, blog>>
  BY DEF Startup
<1>2. CASE UNCHANGED <<invalid, fdb, head, blog, file>>
  BY <1>2, SameCleared
<1>3. CASE /\ fdb' = d /\ file' = NoFile /\ head' \in {Genesis, d.head} /\ UNCHANGED <<invalid, blog>>
  <2>1. Genesis \in Block /\ anc[Genesis] \cap invalid = {} /\ LogHead \in Block
        /\ LogBlocks \subseteq anc[LogHead]
    BY LogFacts, TreeAssumption, GenesisBelow, Ancestors DEF CInv, Cleared, Chained
  <2>2. Tree(opened) /\ Clean(opened) /\ opened.root \in anc[LogHead]
    <3>1. CASE file = NoFile
      BY <2>1, <3>1, ResetTree, GenesisBelow DEF reset, Clean, Valid
    <3>2. CASE file # NoFile
      <4>1. Tree(file) /\ OnLog(file) /\ Clean(file)
        BY <3>2 DEF CInv, Stored, Cleared
      <4>2. file.root \in anc[LogHead]
        BY <2>1, <4>1, Ancestors DEF OnLog, reset
      <4>3. QED
        BY <3>2, <4>1, <4>2
    <3>3. QED
      BY <3>1, <3>2
  <2> HIDE DEF opened
  <2>3. Clean(d) /\ Tree(d) /\ d.root = opened.root
    <3>1. CASE d = opened
      BY <2>2, <3>1
    <3>2. CASE d = rollback_head_to_root(opened)
      <4>1. Tree(d) /\ d.root = opened.root /\ d.head = d.root
        BY <2>2, <3>2, RollbackTree
      <4>2. Valid(d) = {}
        BY <4>1, NoneValid
      <4>3. QED
        BY <4>1, <4>2 DEF Clean
    <3>3. QED
      BY <3>1, <3>2
  <2> HIDE DEF d
  <2>4. anc[d.root] \cap invalid = {}
    BY <2>1, <2>2, <2>3, Ancestors DEF Cleared
  <2>5. anc[d.head] \cap invalid = {}
    BY <2>3, <2>4 DEF Tree, Clean
  <2>6. LogHead' = LogHead
    BY <1>3 DEF LogHead
  <2>7. QED
    BY <1>3, <2>1, <2>3, <2>5, <2>6, ToCleared DEF Cleared
<1>4. QED
  BY <1>1, <1>2, <1>3

(* ReplayLog: the head goes up the log.                                    *)
LEMMA ReplayLogC ==
  ASSUME CInv, SInv, Cleared, NEW h \in Block, ReplayLog(h)
  PROVE  Cleared'
<1>1. pc \in Starting /\ UNCHANGED <<invalid, blog>>
  BY DEF ReplayLog, Starting
<1>2. \/ UNCHANGED <<fdb, head>> /\ file' \in {file, fdb}
      \/ /\ h \in {blog[i] : i \in 1 .. Len(blog)} /\ head' = h /\ fdb' = Resynced(h)
         /\ file' \in {file, fdb'}
  BY DEF ReplayLog
<1>3. CASE UNCHANGED <<fdb, head>> /\ file' \in {file, fdb}
  BY <1>1, <1>3, SameCleared
<1>4. CASE /\ h \in {blog[i] : i \in 1 .. Len(blog)} /\ head' = h /\ fdb' = Resynced(h)
           /\ file' \in {file, fdb'}
  <2>1. h \in LogBlocks
    BY <1>4 DEF CInv, Types, LogBlocks
  <2>2. anc[h] \cap invalid = {}
    BY <2>1, LogFacts, Ancestors DEF CInv, Chained, Cleared
  <2>3. fdb' = reset(h) \/ fdb' = fdb
    BY <1>1, <1>4, <2>1, ResyncedTo
  <2>4. Clean(fdb')
    BY <2>2, <2>3 DEF Cleared, Clean, Valid, reset
  <2>5. LogHead' = LogHead
    BY <1>1 DEF LogHead
  <2>6. QED
    BY <1>1, <1>4, <2>2, <2>4, <2>5, ToCleared DEF Cleared
<1>5. QED
  BY <1>2, <1>3, <1>4

(* ReplayReversible: a stored block not known is added, not validated.     *)
LEMMA ReplayReversibleC ==
  ASSUME CInv, SInv, Cleared, ReplayReversible
  PROVE  Cleared'
<1>1. pc = "replay" /\ pc \in Between /\ UNCHANGED <<invalid, head, blog, file>>
  BY DEF ReplayReversible, Between
<1> DEFINE r == CHOOSE q \in reversible : num[q] = num[head] + 1
<1>2. \/ UNCHANGED fdb
      \/ /\ r \in reversible /\ Extends(r) /\ Known(fdb, head) /\ r \notin fdb.index
         /\ fdb' = add(fdb, r)
  <2>1. CASE \E q \in reversible : num[q] = num[head] + 1
    <3>1. r \in reversible
      BY <2>1
    <3>2. \/ /\ Extends(r) /\ Known(fdb, head) /\ fdb' = (IF r \in fdb.index THEN fdb ELSE add(fdb, r))
          \/ UNCHANGED fdb
      BY <2>1, Zenon DEF ReplayReversible
    <3> HIDE DEF r
    <3>3. QED
      BY <3>1, <3>2
  <2>2. CASE ~\E q \in reversible : num[q] = num[head] + 1
    BY <2>2 DEF ReplayReversible
  <2>3. QED
    BY <2>1, <2>2
<1> HIDE DEF r
<1>3. CASE UNCHANGED fdb
  BY <1>1, <1>3, SameCleared
<1>4. CASE /\ r \in reversible /\ Extends(r) /\ Known(fdb, head) /\ r \notin fdb.index
           /\ fdb' = add(fdb, r)
  <2>1. r \in Block /\ r # Genesis /\ Known(fdb, prev[r]) /\ Tree(fdb)
    BY <1>4 DEF CInv, Types, Extends
  <2>2. Clean(fdb') /\ LogHead' = LogHead
    BY <1>1, <1>4, <2>1, AddedClean DEF LogHead
  <2>3. QED
    BY <1>1, <2>2, ToCleared DEF Cleared
<1>5. QED
  BY <1>2, <1>3, <1>4

(* The first state holds the genesis block only, which is valid.           *)
LEMMA InitCleared == Init => Cleared
<1> SUFFICES ASSUME Init PROVE Cleared
  OBVIOUS
<1>1. anc[Genesis] = {Genesis} /\ Genesis \notin invalid
  BY TreeAssumption, ControllerAssumption DEF Init
<1>2. Clean(fdb)
  BY DEF Init, Clean, Valid, reset
<1>3. LogHead = Genesis
  BY DEF Init, LogHead
<1>4. QED
  BY <1>1, <1>2, <1>3 DEF Init, Cleared

(* Every step keeps invalid blocks out.                                    *)
LEMMA NextCleared == CInv /\ SInv /\ Cleared /\ [Next]_vars => Cleared'
<1> SUFFICES ASSUME CInv, SInv, Cleared, [Next]_vars PROVE Cleared'
  OBVIOUS
<1>1. CASE Step
  <2>1. ASSUME LogIrreversible \/ ApplyBest PROVE Cleared'
    BY <2>1, SameCleared DEF LogIrreversible, ApplyBest, chain
  <2>2. ASSUME InitController \/ QuitInit PROVE Cleared'
    BY <2>2, SameCleared DEF InitController, QuitInit
  <2>3. QED
    BY <1>1, <2>1, <2>2, ExtendC, PopC, ApplyNewC, ReapplyOldC, LogBlockC, TrimC, ReplayLogC, ReplayReversibleC
    DEF Step
<1>2. ASSUME NEW b \in Block \ {Genesis}, PushBlock(b) \/ CommitBlock(b) PROVE Cleared'
  BY <1>2, PushBlockC, CommitBlockC
<1>3. ASSUME NEW m \in Modes, Startup(m) PROVE Cleared'
  BY <1>3, StartupC
<1>4. CASE StartBlock \/ AbortBlock \/ Shutdown \/ Crash \/ DeleteState \/ UNCHANGED vars
  BY <1>4, SameCleared DEF StartBlock, AbortBlock, Shutdown, Crash, DeleteState, vars
<1>5. QED
  BY <1>1, <1>2, <1>3, <1>4 DEF Next

-----------------------------------------------------------------------------
(* The rest of the invariant: why no assertion fails, and what is applied. *)

(* The undo states reach down to the root of the fork database or below.   *)
Bottom ==
  /\ pc = "down" /\ file # NoFile /\ db # NoState => db.low <= num[file.root]
  /\ pc = "init" => db.low <= num[fdb.root]

(* While a switch is undone the head is known to the fork database.        *)
Linked == pc = "unapply" => Known(fdb, head)

(* The fork database's head is the only best one among the validated.      *)
Sole(d) == \A c \in Valid(d) : c = d.head \/ first_preferred(d.head, c)

(* A switch leads to a block that is better than every validated one.      *)
Ahead(t) == \A c \in Valid(fdb) : first_preferred(t, c)

(* The controller and the fork database have the same head.                *)
Settled == fdb.head = head /\ Sole(fdb)

(* The stored blocks are replayed below the fork database's head, or there *)
(* is none above the controller's.                                         *)
Resumed ==
  \/ fdb.validated \subseteq anc[head]
  \/ Sole(fdb) /\ head \in anc[fdb.head] /\ reversible = Above(fdb.head, Floor)

(* Without invalid blocks no switch is undone, and both heads go together. *)
Switches ==
  /\ pc \notin {"unapply", "reapply"}
  /\ mode = "SPECULATIVE" =>
       /\ pc \in {"idle", "best", "best_loop"} => Settled
       /\ pc \in {"log"} \cup Logging /\ ret # "replay" => Settled
       /\ pc = "extend" /\ ret # "replay" => \A t \in todo : Ahead(t)
       /\ pc \in {"pop", "apply"} => Ahead(Highest(branches.first))
       /\ Replaying => Resumed

(* Between calls, all that is declared irreversible is in the log.         *)
Drained == pc \in Between => Low(fdb.index)

(* A fork database of a run that has met no invalid block.                 *)
Intact(d) == Low(d.index) /\ Sole(d)

(* Such a run leaves the fork database's head, the controller's and the    *)
(* chain state's at the same block; or the chain state at the end of the   *)
(* log, if it was quit there.                                              *)
Whole ==
  /\ pc = "down" /\ file # NoFile =>
       /\ Intact(file) /\ (LogBlockOnly(file) \/ SavedAs(file, file.head))
       /\ mode = "IRREVERSIBLE" => file.head = file.root
       /\ db # NoState => \/ head = file.head /\ Revision(db) = num[head]
                          \/ cut /\ num[LogHead] <= Revision(db)
  /\ pc \in Starting =>
       /\ Intact(fdb)
       /\ mode = "SPECULATIVE" => LogBlockOnly(fdb) \/ SavedAs(fdb, fdb.head)
  /\ pc = "init" => num[head] <= Revision(db) \/ (cut /\ num[LogHead] <= Revision(db))

(* What holds as long as no block is invalid.                              *)
Good == Switches /\ Drained /\ Whole

-----------------------------------------------------------------------------
(* Bottom and Linked.                                                      *)

(* A step that leaves the process neither down nor opening its files.      *)
LEMMA ElsewhereB ==
  ASSUME pc' \notin {"down", "init"}
  PROVE  Bottom'
BY DEF Bottom

(* The calls that end in an exception during startup leave the undo states *)
(* of the blocks above the log's last block.                               *)
LEMMA ThrownB ==
  ASSUME CInv, SInv, pc \in Running, Throw(fdb'), pending # "building",
         fdb'.root = LogHead, db'.low = db.low
  PROVE  Bottom'
<1>1. pc' = "idle" \/ (pc' = "down" /\ file' = fdb')
  BY Zenon DEF Throw, Goto
<1>2. db.low = num[LogHead] /\ num[LogHead] \in Nat
  BY InRunning
<1>3. QED
  BY <1>1, <1>2 DEF Bottom

(* Extend may end the startup.                                             *)
LEMMA ExtendB ==
  ASSUME CInv, SInv, Extend
  PROVE  Bottom'
<1>1. pc = "extend" /\ pc \in Switching
  BY DEF Extend, Switching
<1>2. Tree(fdb) /\ fdb.root = LogHead /\ pending # "building" /\ pc \in Running
  BY <1>1, InSwitch
<1>3. PICK t \in fdb.index : todo = {t}
  BY <1>1 DEF CInv, Extending
<1>4. \/ pc' \in {"failed", "log"}
      \/ ~RemoveThrows(fdb, t) /\ fdb' = remove(fdb, t) /\ Throw(fdb') /\ db' = db
  BY <1>3, Zenon DEF Extend, Fail, Goto
<1>5. CASE pc' \in {"failed", "log"}
  BY <1>5, ElsewhereB
<1>6. CASE ~RemoveThrows(fdb, t) /\ fdb' = remove(fdb, t) /\ Throw(fdb') /\ db' = db
  <2>1. fdb'.root = LogHead
    BY <1>2, <1>6, RemoveTree
  <2>2. QED
    BY <1>2, <1>6, <2>1, ThrownB
<1>7. QED
  BY <1>4, <1>5, <1>6

(* ReapplyOld ends a call of push_block only.                              *)
LEMMA ReapplyOldB ==
  ASSUME CInv, SInv, ReapplyOld
  PROVE  Bottom'
<1>1. pc = "reapply" /\ pc \in Switching
  BY DEF ReapplyOld, Switching
<1>2. fdb.root = LogHead /\ pending # "building" /\ pc \in Running /\ Stacked(db, head)
  BY <1>1, InSwitch, InSwitchS
<1>3. \/ pc' \in {"failed", "reapply"}
      \/ fdb' = fdb /\ Throw(fdb) /\ db' = push_session(db, Lowest(todo))
  BY Zenon DEF ReapplyOld, Fail, Goto, apply_block
<1>4. CASE pc' \in {"failed", "reapply"}
  BY <1>4, ElsewhereB
<1>5. CASE fdb' = fdb /\ Throw(fdb) /\ db' = push_session(db, Lowest(todo))
  <2>1. db'.low = db.low
    BY <1>2, <1>5 DEF push_session, Stacked
  <2>2. QED
    BY <1>2, <1>5, <2>1, ThrownB
<1>6. QED
  BY <1>3, <1>4, <1>5

(* LogBlock fails in irreversible mode only, where push_block called it.   *)
LEMMA LogBlockB ==
  ASSUME CInv, SInv, LogBlock
  PROVE  Bottom'
<1>1. pc = "log_block" /\ pc \in Logging
  BY DEF LogBlock, Logging
<1>2. pending # "building" /\ pc \in Running
  BY <1>1, InLog
<1>3. pc' \in {"failed", "trim"} \/ (fdb' = advanced(fdb, LogHead) /\ Throw(fdb') /\ db' = db)
  BY Zenon DEF LogBlock, Fail, Goto
<1>4. CASE pc' \in {"failed", "trim"}
  BY <1>4, ElsewhereB
<1>5. CASE fdb' = advanced(fdb, LogHead) /\ Throw(fdb') /\ db' = db
  <2>1. fdb'.root = LogHead
    BY <1>1, <1>5, AdvancedTo
  <2>2. QED
    BY <1>2, <1>5, <2>1, ThrownB
<1>6. QED
  BY <1>3, <1>4, <1>5

(* Shutdown leaves the undo states down to the root.                       *)
LEMMA ShutdownB ==
  ASSUME CInv, SInv, Shutdown
  PROVE  Bottom'
<1>1. pc = "idle" /\ db' = aborted(db) /\ file' = fdb /\ pc' = "down"
  BY DEF Shutdown, Goto
<1>2. aborted(db).low = num[LogHead] /\ fdb.root = LogHead /\ LogHead \in Block
  BY <1>1, InIdleS
<1>3. num[LogHead] \in Nat
  BY <1>2, Ancestors
<1>4. QED
  BY <1>1, <1>2, <1>3 DEF Bottom

(* Startup opens what was left, or starts from the genesis block.          *)
LEMMA StartupB ==
  ASSUME CInv, SInv, Bottom, NEW m \in Modes, Startup(m)
  PROVE  Bottom'
<1> DEFINE opened == IF file = NoFile THEN reset(Genesis) ELSE file
           d == IF m = "IRREVERSIBLE" /\ opened.head # opened.root
                THEN rollback_head_to_root(opened) ELSE opened
<1>1. /\ pc = "down"
      /\ \/ pc' = "failed"
         \/ /\ ~(db # NoState /\ file = NoFile) /\ fdb' = d /\ pc' = "init"
            /\ db' = IF db = NoState THEN Db(num[Genesis], <<Genesis>>) ELSE db
  BY Zenon DEF Startup, Fail
<1>2. Tree(opened)
  BY ResetTree, TreeAssumption DEF CInv, Stored
<1>3. d.root = opened.root /\ opened.root \in Block
  BY <1>2, RollbackTree, AboveRoot
<1>4. num[Genesis] <= num[opened.root]
  BY <1>3, GenesisBelow, Ancestors
<1>5. file # NoFile => opened = file
  OBVIOUS
<1> HIDE DEF opened, d
<1>6. CASE pc' = "failed"
  BY <1>6, ElsewhereB
<1>7. CASE /\ ~(db # NoState /\ file = NoFile) /\ fdb' = d /\ pc' = "init"
           /\ db' = IF db = NoState THEN Db(num[Genesis], <<Genesis>>) ELSE db
  <2>1. CASE db = NoState
    BY <1>3, <1>4, <1>7, <2>1 DEF Bottom, Db
  <2>2. CASE db # NoState
    BY <1>1, <1>3, <1>5, <1>7, <2>2 DEF Bottom
  <2>3. QED
    BY <2>1, <2>2
<1>8. QED
  BY <1>1, <1>6, <1>7

(* InitController fails with everything as it found it.                    *)
LEMMA InitControllerB ==
  ASSUME Bottom, InitController
  PROVE  Bottom'
<1>1. /\ pc = "init"
      /\ pc' \in {"replay_log", "best"} \/ (pc' = "down" /\ file' = fdb /\ db' = db)
  BY Zenon DEF InitController, Goto
<1>2. QED
  BY <1>1 DEF Bottom

(* ReplayLog that is interrupted leaves the state of a block of the log.   *)
LEMMA ReplayLogB ==
  ASSUME CInv, SInv, NEW h \in Block, ReplayLog(h)
  PROVE  Bottom'
<1>1. /\ pc = "replay_log"
      /\ \/ pc' \in {"failed", "replay"}
         \/ /\ h \in {blog[i] : i \in 1 .. Len(blog)} /\ db' = Db(num[h], <<h>>)
            /\ fdb' = Resynced(h) /\ pc' = "down" /\ file' = fdb'
         \/ ~(num[head] < num[LogHead]) /\ db' = db /\ pc' = "down" /\ file' = fdb
  BY Zenon DEF ReplayLog, Fail, Goto
<1>2. CASE pc' \in {"failed", "replay"}
  BY <1>2, ElsewhereB
<1>3. CASE /\ h \in {blog[i] : i \in 1 .. Len(blog)} /\ db' = Db(num[h], <<h>>)
           /\ fdb' = Resynced(h) /\ pc' = "down" /\ file' = fdb'
  <2>1. h \in LogBlocks
    BY <1>3 DEF LogBlocks, CInv, Types
  <2>2. fdb'.root = h
    BY <1>1, <1>3, <2>1, ResyncedTo DEF Starting, reset
  <2>3. num[h] \in Nat
    BY Ancestors
  <2>4. QED
    BY <1>3, <2>2, <2>3 DEF Bottom, Db
<1>4. CASE ~(num[head] < num[LogHead]) /\ db' = db /\ pc' = "down" /\ file' = fdb
  <2>1. LogHead \in Block /\ head \in Block
    BY <1>1, InStart DEF Starting
  <2>2. num[head] \in Nat /\ num[LogHead] \in Nat
    BY <2>1, Ancestors
  <2>3. fdb.root = LogHead
    BY <1>1, <1>4, <2>2, CaughtUp DEF Starting
  <2>4. db.low = num[LogHead] \/ (db.low = num[head] /\ head \in LogBlocks)
    BY <1>1 DEF SInv, Rewound
  <2>5. head \in LogBlocks => head = LogHead
    BY <1>4, <2>2, LogFacts DEF CInv
  <2>6. QED
    BY <1>4, <2>2, <2>3, <2>4, <2>5 DEF Bottom
<1>5. QED
  BY <1>1, <1>2, <1>3, <1>4

(* QuitInit leaves the undo states down to the root.                       *)
LEMMA QuitInitB ==
  ASSUME CInv, SInv, QuitInit
  PROVE  Bottom'
<1>1. pc = "best" /\ db' = db /\ file' = fdb /\ pc' = "down"
  BY DEF QuitInit, Goto
<1>2. fdb.root = LogHead /\ LogHead \in Block /\ pending # "building"
  BY <1>1, InBetween DEF Between, CInv, Building
<1>3. db.low = num[LogHead] /\ num[LogHead] \in Nat
  BY <1>1, <1>2, InRunning, Ancestors DEF Running, Between
<1>4. QED
  BY <1>1, <1>2, <1>3 DEF Bottom

(* Every step keeps Bottom.                                                *)
LEMMA NextBottom == CInv /\ SInv /\ Bottom /\ [Next]_vars => Bottom'
<1> SUFFICES ASSUME CInv, SInv, Bottom, [Next]_vars PROVE Bottom'
  OBVIOUS
<1>1. CASE UNCHANGED vars
  BY <1>1 DEF vars, Bottom
<1>2. ASSUME NEW b \in Block \ {Genesis}, PushBlock(b) \/ CommitBlock(b) PROVE Bottom'
  <2>1. pc' \in {"idle", "extend", "apply", "pop", "log", "failed"}
    BY <1>2, Zenon DEF PushBlock, CommitBlock, maybe_switch_forks, Goto, Fail
  <2>2. QED
    BY <2>1, ElsewhereB
<1>3. CASE StartBlock \/ AbortBlock
  <2>1. pc' \in {pc, "failed"} /\ pc = "idle"
    BY <1>3, Zenon DEF StartBlock, AbortBlock, Fail, call
  <2>2. QED
    BY <2>1, ElsewhereB
<1>4. CASE PopOld \/ PopNew \/ ApplyNew
  <2>1. pc' \in {"pop", "apply", "unapply", "reapply", "log", "failed"}
    BY <1>4, Zenon DEF PopOld, PopNew, ApplyNew, Reversed, Fail, Goto
  <2>2. QED
    BY <2>1, ElsewhereB
<1>5. CASE LogIrreversible \/ TrimReversible
  <2>1. pc' \in {"log_block", "failed", ret}
    BY <1>5, Zenon DEF LogIrreversible, TrimReversible, Return, Fail, Goto
  <2>2. ret \in {"idle", "replay", "best_loop"}
    BY DEF CInv, Types
  <2>3. QED
    BY <2>1, <2>2, ElsewhereB
<1>6. CASE ReplayReversible \/ ApplyBest
  <2>1. pc' \in {"idle", "extend", "apply", "pop", "best", "best_loop", "replay", "failed"}
    BY <1>6, Zenon DEF ReplayReversible, ApplyBest, maybe_switch_forks, Goto, Fail
  <2>2. QED
    BY <2>1, ElsewhereB
<1>7. CASE Crash
  BY <1>7 DEF Crash, Bottom, Goto
<1>8. CASE DeleteState
  BY <1>8 DEF DeleteState, Bottom, call
<1>9. QED
  BY <1>1, <1>2, <1>3, <1>4, <1>5, <1>6, <1>7, <1>8, ExtendB, ReapplyOldB, LogBlockB, ShutdownB,
     StartupB, InitControllerB, ReplayLogB, QuitInitB DEF Next, Step

(* A block between the root and a known block is known.                    *)
LEMMA KnownBelow ==
  ASSUME NEW d, Tree(d), NEW t \in d.index, NEW h \in anc[t], d.root \in anc[h]
  PROVE  Known(d, h)
<1>1. /\ d.root \in Block /\ t \in Block /\ h \in Block
      /\ anc[t] \ anc[d.root] \subseteq d.index
  <2>1. d.root \in Block /\ t \in Block
    BY AboveRoot
  <2>2. QED
    BY <2>1, Ancestors DEF Tree
<1>2. CASE h \in anc[d.root]
  <2>1. h = d.root
    BY <1>1, <1>2, Ancestors
  <2>2. QED
    BY <2>1 DEF Known
<1>3. CASE h \notin anc[d.root]
  BY <1>1, <1>3 DEF Known
<1>4. QED
  BY <1>2, <1>3

(* The parent of a known block above the root is known.                    *)
LEMMA ParentKnown ==
  ASSUME NEW d, Tree(d), NEW h, Known(d, h), h # d.root
  PROVE  h \in Block /\ h # Genesis /\ Known(d, prev[h]) /\ d.root \in anc[prev[h]]
<1>1. /\ h \in d.index /\ h \in Block /\ d.root \in anc[h] /\ d.root \in Block
      /\ anc[h] \subseteq Block
  BY AboveRoot, Ancestors DEF Known
<1>2. h # Genesis
  BY <1>1, TreeAssumption
<1>3. anc[h] = {h} \cup anc[prev[h]] /\ prev[h] \in Block
  BY <1>1, <1>2, Child
<1>4. d.root \in anc[prev[h]] /\ prev[h] \in anc[h]
  BY <1>1, <1>3, Ancestors
<1>5. Known(d, prev[h])
  BY <1>1, <1>4, KnownBelow
<1>6. QED
  BY <1>1, <1>2, <1>4, <1>5

(* pop_block never passes the root.                                        *)
LEMMA MayPop ==
  ASSUME CInv, SInv, Linked, pc \in {"pop", "unapply"}
  PROVE  CanPop /\ head \notin anc[LogHead] /\ Known(fdb, head)
<1>1. pc \in Switching /\ pc \in Switching \ {"extend"}
  BY DEF Switching
<1>2. /\ fdb.root = LogHead /\ LogHead \in anc[head] /\ Tree(fdb)
      /\ LogHead \in Block /\ head \in Block /\ fdb.index \subseteq Block
  BY <1>1, InSwitch
<1>3. PICK s \in Block, t \in Block : Fork(s, t)
  BY <1>1, InFork
<1>4. head \notin anc[LogHead]
  <2>1. PICK c \in {s, t} : head \notin anc[c] /\ LogHead \in anc[c]
    BY <1>3 DEF Fork
  <2>2. QED
    BY <2>1, Ancestors
<1>5. Known(fdb, head)
  <2>1. CASE pc = "unapply"
    BY <2>1 DEF Linked
  <2>2. CASE pc = "pop"
    <3>1. head \in branches.second
      BY <1>3, <2>2 DEF Fork
    <3>2. PICK u \in branches.second \cap Valid(fdb) : branches.second \subseteq anc[u]
      BY <1>1, <3>1 DEF CInv, OldBranch
    <3>3. u \in fdb.index /\ head \in anc[u]
      BY <3>1, <3>2 DEF Valid
    <3>4. QED
      BY <1>2, <3>3, KnownBelow
  <2>3. QED
    BY <2>1, <2>2
<1>6. head # fdb.root
  BY <1>2, <1>4, Ancestors
<1>7. QED
  BY <1>2, <1>4, <1>5, <1>6, ParentKnown DEF CanPop

(* Linked is kept: the head is above the removed branch's parent, and is   *)
(* popped along known blocks.                                              *)
LEMMA NextLinked ==
  ASSUME CInv, SInv, Linked, [Next]_vars
  PROVE  Linked'
<1>1. CASE UNCHANGED vars
  BY <1>1 DEF vars, Linked
<1>2. CASE ApplyNew
  <2> DEFINE b == Lowest(todo)
  <2>1. pc = "apply" /\ pc \in Switching /\ pc \in Switching \ {"extend"}
    BY <1>2 DEF ApplyNew, Switching
  <2>2. /\ fdb.root = LogHead /\ LogHead \in anc[head] /\ Tree(fdb) /\ head \in Block
    BY <2>1, InSwitch
  <2>3. b \in fdb.index /\ b \in Block /\ b # Genesis /\ prev[b] = head
    BY <2>1, NextNew
  <2>4. pc' # "unapply" \/ (~RemoveThrows(fdb, b) /\ fdb' = remove(fdb, b) /\ head' = head)
    BY <1>2, Zenon DEF ApplyNew, Fail, Goto
  <2> HIDE DEF b
  <2>5. CASE ~RemoveThrows(fdb, b) /\ fdb' = remove(fdb, b) /\ head' = head
    <3>1. head \in anc[b] /\ b \notin anc[head]
      BY <2>2, <2>3, Child, Ancestors
    <3>2. Known(fdb, head)
      BY <2>2, <2>3, <3>1, KnownBelow
    <3>3. fdb'.root = fdb.root /\ fdb'.index = {c \in fdb.index : b \notin anc[c]}
      BY <2>2, <2>3, <2>5, RemoveTree
    <3>4. QED
      BY <2>5, <3>1, <3>2, <3>3 DEF Linked, Known
  <2>6. CASE pc' # "unapply"
    BY <2>6 DEF Linked
  <2>7. QED
    BY <2>4, <2>5, <2>6
<1>3. CASE PopNew
  <2>1. pc = "unapply"
    BY <1>3 DEF PopNew
  <2>2. CanPop
    BY <2>1, MayPop
  <2>3. head' = prev[head] /\ fdb' = fdb
    BY <1>3, <2>2, Zenon DEF PopNew, pop_block
  <2>4. QED
    BY <2>2, <2>3 DEF CanPop, Linked, Known
<1>4. CASE pc' # "unapply"
  BY <1>4 DEF Linked
<1>5. ASSUME NEW b \in Block \ {Genesis}, PushBlock(b) \/ CommitBlock(b) PROVE pc' # "unapply"
  BY <1>5, Zenon DEF PushBlock, CommitBlock, maybe_switch_forks, Goto, Fail
<1>6. CASE StartBlock \/ AbortBlock
  <2>1. pc' \in {pc, "failed"} /\ pc = "idle"
    BY <1>6, Zenon DEF StartBlock, AbortBlock, Fail, call
  <2>2. QED
    BY <1>4, <2>1
<1>7. CASE Extend \/ PopOld \/ ReapplyOld \/ LogBlock
  BY <1>7, <1>4, Zenon DEF Extend, PopOld, ReapplyOld, LogBlock, Throw, Fail, Goto
<1>8. CASE LogIrreversible \/ TrimReversible
  <2>1. pc' \in {"log_block", "failed", ret}
    BY <1>8, Zenon DEF LogIrreversible, TrimReversible, Return, Fail, Goto
  <2>2. QED
    BY <1>4, <2>1 DEF CInv, Types
<1>9. CASE \/ ReplayReversible \/ ApplyBest \/ QuitInit \/ InitController
           \/ \E h \in Block : ReplayLog(h)
  BY <1>9, <1>4, Zenon DEF ReplayReversible, ApplyBest, QuitInit, InitController, ReplayLog,
                            maybe_switch_forks, Goto, Fail
<1>10. CASE Shutdown \/ Crash \/ DeleteState \/ \E m \in Modes : Startup(m)
  BY <1>10, <1>4, Zenon DEF Shutdown, Crash, DeleteState, Startup, Goto, Fail, call
<1>11. QED
  BY <1>1, <1>2, <1>3, <1>4, <1>5, <1>6, <1>7, <1>8, <1>9, <1>10 DEF Next, Step

-----------------------------------------------------------------------------
(* The fork database's head, when a block is added or validated.           *)

(* The block is better than all validated ones: it becomes the head.       *)
LEMMA MarkAhead ==
  ASSUME NEW d, Tree(d), NEW t \in d.index, \A c \in Valid(d) : first_preferred(t, c)
  PROVE  mark_valid(d, t).head = t /\ Sole(mark_valid(d, t))
<1> DEFINE m == mark_valid(d, t)
<1>1. /\ Tree(m) /\ m.root = d.root /\ m.index = d.index /\ m.validated = d.validated \cup {t}
  BY MarkTree
<1>2. Valid(m) = Valid(d) \cup {t}
  BY <1>1 DEF Valid
<1> HIDE DEF m
<1>3. m.head = t
  <2>1. t \in Valid(m) /\ ~first_preferred(t, m.head) /\ (m.head = m.root \/ m.head \in Valid(m))
    BY <1>1, <1>2 DEF Tree
  <2>2. first_preferred(t, d.root)
    BY AboveRoot
  <2>3. QED
    BY <1>1, <1>2, <2>1, <2>2
<1>4. QED
  BY <1>2, <1>3 DEF Sole, m

(* The block is below the head: the head stays.                            *)
LEMMA MarkBelow ==
  ASSUME NEW d, Tree(d), Sole(d), NEW t \in d.index, t \in anc[d.head]
  PROVE  mark_valid(d, t).head = d.head /\ Sole(mark_valid(d, t))
<1> DEFINE m == mark_valid(d, t)
<1>1. /\ Tree(m) /\ m.root = d.root /\ m.index = d.index /\ m.validated = d.validated \cup {t}
  BY MarkTree
<1>2. Valid(m) = Valid(d) \cup {t}
  BY <1>1 DEF Valid
<1> HIDE DEF m
<1>3. /\ d.head \in Block /\ t \in Block /\ m.head \in Block /\ first_preferred(t, d.root)
      /\ d.head \in Valid(d)
  <2>1. d.head \in Block /\ t \in Block /\ m.head \in Block /\ first_preferred(t, d.root)
        /\ t \notin anc[d.root]
    BY <1>1, AboveRoot
  <2>2. QED
    BY <2>1 DEF Tree
<1>4. t = d.head \/ first_preferred(d.head, t)
  BY <1>3, NotPreferred
<1>5. \A c \in Valid(m) : c = d.head \/ first_preferred(d.head, c)
  BY <1>2, <1>4 DEF Sole
<1>6. m.head = d.head
  <2>1. d.head \in Valid(m) /\ ~first_preferred(d.head, m.head) /\ (m.head = m.root \/ m.head \in Valid(m))
    BY <1>1, <1>2, <1>3 DEF Tree
  <2>2. first_preferred(d.head, d.root)
    BY <1>3, AboveRoot DEF Valid
  <2>3. QED
    BY <1>1, <1>5, <2>1, <2>2
<1>7. QED
  BY <1>5, <1>6 DEF Sole, m

(* A block that is not validated is added: the head stays.                 *)
LEMMA AddSole ==
  ASSUME NEW d, Tree(d), Sole(d), NEW b \in Block, b # Genesis, Known(d, prev[b]), b \notin d.index
  PROVE  /\ add(d, b).head = d.head /\ Sole(add(d, b)) /\ Valid(add(d, b)) = Valid(d)
         /\ add(d, b).validated = d.validated
<1> DEFINE m == add(d, b)
<1>1. /\ Tree(m) /\ m.root = d.root /\ m.index = d.index \cup {b} /\ m.validated = d.validated
  BY AddTree
<1>2. b \notin d.validated
  <2>1. prev[b] \in Block /\ num[b] = num[prev[b]] + 1 /\ num[b] \in Nat /\ num[prev[b]] \in Nat
    BY Child, Ancestors
  <2>2. num[d.root] <= num[prev[b]]
    BY <2>1, AboveRoot, Ancestors DEF Known
  <2>3. b # d.root
    BY <2>1, <2>2
  <2>4. QED
    BY <2>3 DEF Tree
<1>3. Valid(m) = Valid(d)
  BY <1>1, <1>2 DEF Valid
<1> HIDE DEF m
<1>4. m.head = d.head
  <2>1. CASE Valid(d) = {}
    BY <1>1, <1>3, <2>1 DEF Tree
  <2>2. CASE Valid(d) # {}
    <3>1. PICK c \in Valid(d) : TRUE
      BY <2>2
    <3>2. first_preferred(c, d.root) /\ ~first_preferred(c, d.head)
      BY AboveRoot DEF Tree, Valid
    <3>3. d.head \in Valid(d)
      BY <3>2 DEF Tree
    <3>4. first_preferred(d.head, d.root)
      BY <3>3, AboveRoot DEF Valid
    <3>5. ~first_preferred(d.head, m.head) /\ (m.head = m.root \/ m.head \in Valid(m))
      BY <1>1, <1>3, <3>3 DEF Tree
    <3>6. QED
      BY <1>1, <1>3, <3>4, <3>5 DEF Sole
  <2>3. QED
    BY <2>1, <2>2
<1>5. QED
  BY <1>1, <1>3, <1>4 DEF Sole, m

(* With all validated blocks on the branch of the head, it is the best.    *)
LEMMA SoleOnBranch ==
  ASSUME NEW d, Tree(d), NEW h \in Block, h = d.root \/ h \in Valid(d), d.validated \subseteq anc[h]
  PROVE  d.head = h /\ Sole(d)
<1>1. CASE h = d.root
  BY <1>1, NoneValid DEF Sole
<1>2. CASE h \in Valid(d)
  <2>1. d.head = h
    BY <1>2, BestOnBranch
  <2>2. ASSUME NEW c \in Valid(d) PROVE c = h \/ first_preferred(h, c)
    <3>1. c \in anc[h] /\ c \in Block
      BY <2>2, Ancestors DEF Valid
    <3>2. QED
      BY <3>1, NotPreferred
  <2>3. QED
    BY <2>1, <2>2 DEF Sole
<1>3. QED
  BY <1>1, <1>2

(* A block better than the only best validated one is ahead of all.        *)
LEMMA BetterAhead ==
  ASSUME NEW d, Tree(d), Sole(d), NEW p, p \in Block, first_preferred(p, d.head)
  PROVE  \A c \in Valid(d) : first_preferred(p, c)
<1> SUFFICES ASSUME NEW c \in Valid(d) PROVE first_preferred(p, c)
  OBVIOUS
<1>1. c \in Block /\ d.head \in Block
  BY AboveRoot DEF Valid
<1>2. \A a \in Block : lib[a] \in Nat /\ num[a] \in Nat
  BY Ancestors
<1>3. c = d.head \/ first_preferred(d.head, c)
  BY DEF Sole
<1>4. QED
  BY <1>1, <1>2, <1>3 DEF first_preferred

(* pending_head, other than the head, is better than it.                   *)
LEMMA PendingBetter ==
  ASSUME NEW d
  PROVE  pending_head(d) = d.head \/ first_preferred(pending_head(d), d.head)
BY DEF pending_head

-----------------------------------------------------------------------------
(* Good, by the place a step leads to.                                     *)

(* Nowhere that Good speaks of.                                            *)
LEMMA ToNowhereG ==
  ASSUME pc' = "failed"
  PROVE  Good'
BY DEF Good, Switches, Drained, Whole, Logging, Replaying, Between, Starting

(* A call has ended, or applied what it should.                            *)
LEMMA ToSettledG ==
  ASSUME CInv', pc' \in {"idle", "best", "best_loop"} \/ (pc' \in {"log"} \cup Logging /\ ret' # "replay"),
         mode' = "SPECULATIVE" => Settled',
         (mode' = "IRREVERSIBLE" /\ pc' \in Between) \/ pc' = "best" => Low(fdb.index)'
  PROVE  Good'
<1>1. Switches'
  BY DEF Switches, Logging, Replaying
<1>2. Drained'
  BY DEF Drained, CInv, Types, Resting, Logging, Between
<1>3. Whole'
  BY DEF Whole, Logging, Starting
<1>4. QED
  BY <1>1, <1>2, <1>3 DEF Good

(* Stored blocks are replayed.                                             *)
LEMMA ToReplayG ==
  ASSUME pc' = "replay" \/ (ret' = "replay" /\ pc' \in {"extend", "log", "log_block", "trim"}),
         mode' = "SPECULATIVE" => Resumed', pc' = "replay" => Low(fdb.index)'
  PROVE  Good'
<1>1. Switches'
  BY DEF Switches, Logging
<1>2. Drained'
  BY DEF Drained, Between
<1>3. Whole'
  BY DEF Whole, Starting
<1>4. QED
  BY <1>1, <1>2, <1>3 DEF Good

(* A switch begins or goes on.                                             *)
LEMMA ToSwitchingG ==
  ASSUME pc' \in {"extend", "pop", "apply"}, ret' # "replay",
         pc' = "extend" => \A t \in todo' : Ahead(t)',
         pc' \in {"pop", "apply"} => Ahead(Highest(branches.first))'
  PROVE  Good'
<1>1. Switches'
  BY DEF Switches, Logging, Replaying
<1>2. Drained' /\ Whole'
  BY DEF Drained, Whole, Between, Starting
<1>3. QED
  BY <1>1, <1>2 DEF Good

(* maybe_switch_forks on a fork database whose head is the controller's.   *)
LEMMA MaybeSwitchG ==
  ASSUME CInv', mode = "SPECULATIVE", UNCHANGED <<mode, head>>, head \in Block,
         Tree(fdb'), fdb'.head = head, Sole(fdb'), head = fdb'.root \/ head \in fdb'.index,
         NEW p, p = pending_head(fdb'), NEW from \in {"idle", "best_loop"},
         maybe_switch_forks(fdb', p, from)
  PROVE  Good'
<1>1. \/ pc' = "extend" /\ todo' = {p} /\ ret' = from /\ p # head
      \/ /\ pc' \in {"pop", "apply"} /\ ret' = from /\ p # head
         /\ branches' = fetch_branch_from(fdb', p, head)
      \/ p = head /\ pc' = from
  <2>1. Extends(p) => p # head
    <3> SUFFICES ASSUME Extends(p), p = head PROVE FALSE
      OBVIOUS
    <3>1. num[head] = num[head] + 1 /\ num[head] \in Nat
      BY Child, Ancestors DEF Extends
    <3>2. QED
      BY <3>1
  <2>2. QED
    BY <2>1, Zenon DEF maybe_switch_forks, Goto
<1>2. CASE p = head /\ pc' = from
  BY <1>2, ToSettledG DEF Settled
<1>3. ASSUME p # head
      PROVE  p \in Block /\ p \notin anc[head] /\ Ahead(p)'
  <2>1. first_preferred(p, fdb'.head)
    BY <1>3, PendingBetter
  <2>2. p \in fdb'.index \cup {fdb'.root} /\ \A c \in fdb'.index : ~first_preferred(c, p)
    BY PendingTree
  <2>3. p \in fdb'.index /\ p \notin anc[head]
    BY <1>3, <2>2, BestNotBelow
  <2>4. p \in Block
    BY <2>3, AboveRoot
  <2>5. \A c \in Valid(fdb') : first_preferred(p, c)
    BY <2>1, <2>4, BetterAhead
  <2>6. QED
    BY <2>3, <2>4, <2>5 DEF Ahead
<1>4. CASE pc' = "extend" /\ todo' = {p} /\ ret' = from /\ p # head
  BY <1>3, <1>4, ToSwitchingG
<1>5. CASE /\ pc' \in {"pop", "apply"} /\ ret' = from /\ p # head
           /\ branches' = fetch_branch_from(fdb', p, head)
  <2>1. branches'.first = anc[p] \ anc[head]
    BY <1>5 DEF fetch_branch_from
  <2>2. Highest(branches'.first) = p
    BY <1>3, <1>5, <2>1, HighestOwn
  <2>3. QED
    BY <1>3, <1>5, <2>2, ToSwitchingG
<1>6. QED
  BY <1>1, <1>2, <1>4, <1>5

(* Extend: the child of the head becomes the head of both, or a stored     *)
(* block below the fork database's head is applied.                        *)
LEMMA ExtendG ==
  ASSUME CInv, SInv, CInv', invalid = {}, Good, Extend
  PROVE  Good'
<1>1. pc = "extend" /\ pc \in Switching
  BY DEF Extend, Switching
<1>2. /\ mode = "SPECULATIVE" /\ fdb.root = LogHead /\ LogHead \in anc[head] /\ Tree(fdb)
      /\ LogHead \in Block /\ head \in Block /\ fdb.index \subseteq Block
  BY <1>1, InSwitch
<1>3. PICK t \in fdb.index : todo = {t} /\ Extends(t)
  BY <1>1 DEF CInv, Extending
<1>4. /\ t \in Block /\ t # Genesis /\ anc[t] = {t} \cup anc[head]
      /\ num[t] = num[head] + 1
  BY <1>2, <1>3, Child DEF Extends
<1>5. \/ pc' = "failed"
      \/ /\ apply_block(t) /\ fdb' = mark_valid(fdb, t) /\ pc' = "log" /\ ret' = ret
         /\ UNCHANGED <<mode, blog>>
  BY <1>3, Zenon DEF Extend, Fail, Goto
<1>6. CASE pc' = "failed"
  BY <1>6, ToNowhereG
<1>7. CASE /\ apply_block(t) /\ fdb' = mark_valid(fdb, t) /\ pc' = "log" /\ ret' = ret
           /\ UNCHANGED <<mode, blog>>
  <2>1. head' = t /\ (ret = "replay" => reversible' = reversible) /\ LogHead' = LogHead
    BY <1>7 DEF apply_block, StoresReversible, LogHead
  <2>2. CASE ret # "replay"
    <3>1. \A c \in Valid(fdb) : first_preferred(t, c)
      BY <1>1, <1>2, <1>3, <2>2 DEF Good, Switches, Ahead
    <3>2. fdb'.head = t /\ Sole(fdb')
      BY <1>2, <1>7, <3>1, MarkAhead
    <3>3. Settled'
      BY <2>1, <3>2 DEF Settled
    <3>4. QED
      BY <1>2, <1>7, <2>2, <3>3, ToSettledG DEF Between
  <2>3. CASE ret = "replay"
    <3>1. Replaying /\ Floor = num[LogHead] /\ Floor' = num[LogHead]
      BY <1>1, <1>7, <2>1, <2>3 DEF Replaying, Floor
    <3>2. Resumed'
      <4>1. CASE fdb.validated \subseteq anc[head]
        <5>1. fdb'.validated = fdb.validated \cup {t}
          BY <1>2, <1>7, MarkTree
        <5>2. QED
          BY <1>4, <2>1, <4>1, <5>1 DEF Resumed
      <4>2. CASE Sole(fdb) /\ reversible = Above(fdb.head, Floor)
        <5>1. PICK u \in Block : reversible = Above(u, num[LogHead]) /\ t \in anc[u]
          BY <1>1, <1>2, <1>3, <3>1 DEF SInv, Replays, Replayed
        <5>2. num[LogHead] \in Nat /\ num[t] \in Nat /\ num[u] \in Nat /\ num[LogHead] < num[t]
          BY <1>2, <1>4, Ancestors
        <5>3. num[LogHead] < num[u]
          BY <5>1, <5>2, Ancestors
        <5>4. u = fdb.head
          <6>1. fdb.head \in Block /\ Above(u, num[LogHead]) = Above(fdb.head, num[LogHead])
            BY <1>2, <3>1, <4>2, <5>1, AboveRoot
          <6>2. QED
            BY <5>2, <5>3, <6>1, SameAbove
        <5>5. fdb'.head = fdb.head /\ Sole(fdb')
          BY <1>2, <1>7, <4>2, <5>1, <5>4, MarkBelow
        <5>6. QED
          BY <2>1, <2>3, <3>1, <4>2, <5>1, <5>4, <5>5 DEF Resumed
      <4>3. QED
        BY <1>2, <3>1, <4>1, <4>2 DEF Good, Switches, Resumed
    <3>3. QED
      BY <1>2, <1>7, <2>3, <3>2, ToReplayG DEF Between
  <2>4. QED
    BY <2>2, <2>3
<1>8. QED
  BY <1>5, <1>6, <1>7

(* PopOld: the fork database and the target of the switch stay.            *)
LEMMA PopOldG ==
  ASSUME CInv, SInv, CInv', invalid = {}, Good, PopOld
  PROVE  Good'
<1>1. pc = "pop" /\ pc \in Switching \ {"extend"} /\ pc \in Switching
  BY DEF PopOld, Switching
<1>2. mode = "SPECULATIVE" /\ ret # "replay"
  BY <1>1, InSwitch, InFork
<1>3. pc' = "failed" \/ (pc' \in {"pop", "apply"} /\ UNCHANGED <<fdb, branches, ret>>)
  BY Zenon DEF PopOld, Fail, Goto
<1>4. Ahead(Highest(branches.first))
  BY <1>1, <1>2 DEF Good, Switches
<1>5. CASE pc' = "failed"
  BY <1>5, ToNowhereG
<1>6. CASE pc' \in {"pop", "apply"} /\ UNCHANGED <<fdb, branches, ret>>
  <2>1. Ahead(Highest(branches.first))'
    BY <1>4, <1>6 DEF Ahead
  <2>2. QED
    BY <1>2, <1>6, <2>1, ToSwitchingG
<1>7. QED
  BY <1>3, <1>5, <1>6

(* ApplyNew: with the last block of the new branch the fork database's     *)
(* head moves to it.                                                       *)
LEMMA ApplyNewG ==
  ASSUME CInv, SInv, CInv', invalid = {}, Good, ApplyNew
  PROVE  Good'
<1> DEFINE b == Lowest(todo)
           t == Highest(branches.first)
<1>1. pc = "apply" /\ pc \in Switching \ {"extend"} /\ pc \in Switching
  BY DEF ApplyNew, Switching
<1>2. mode = "SPECULATIVE" /\ ret # "replay" /\ Tree(fdb) /\ head \in Block
  BY <1>1, InSwitch, InFork
<1>3. \/ pc' = "failed"
      \/ /\ apply_block(b) /\ fdb' = mark_valid(fdb, b)
         /\ pc' = (IF todo = {b} THEN "log" ELSE "apply") /\ UNCHANGED <<ret, branches, mode>>
  BY Zenon DEF ApplyNew, Fail, Goto
<1>4. b \in fdb.index /\ b \in Block
  BY <1>1, NextNew
<1>5. PICK s \in Block, u \in Block : Fork(s, u)
  BY <1>1, InFork
<1>6. /\ branches.first = anc[u] \ anc[s] /\ head \in anc[u] /\ head # u
      /\ todo = Above(u, num[head]) /\ todo \cap anc[s] = {}
  BY <1>1, <1>5 DEF Fork
<1>7. b \in anc[u] /\ (todo = {b} <=> b = u)
  BY <1>6, LowestAbove
<1>8. t = u
  <2>1. u \in todo
    BY <1>6, AboveBlock
  <2>2. u \notin anc[s]
    BY <1>6, <2>1
  <2>3. QED
    BY <1>6, <2>2, HighestOwn
<1>9. \A c \in Valid(fdb) : first_preferred(t, c)
  BY <1>1, <1>2 DEF Good, Switches, Ahead
<1>10. branches' = branches => Highest(branches'.first) = t
  OBVIOUS
<1> HIDE DEF b, t
<1>11. CASE pc' = "failed"
  BY <1>11, ToNowhereG
<1>12. CASE /\ apply_block(b) /\ fdb' = mark_valid(fdb, b)
            /\ pc' = (IF todo = {b} THEN "log" ELSE "apply") /\ UNCHANGED <<ret, branches, mode>>
  <2>1. head' = b
    BY <1>12 DEF apply_block
  <2>2. CASE todo = {b}
    <3>1. b = t
      BY <1>7, <1>8, <2>2
    <3>2. fdb'.head = b /\ Sole(fdb')
      BY <1>2, <1>4, <1>9, <1>12, <3>1, MarkAhead
    <3>3. Settled' /\ pc' = "log"
      BY <1>12, <2>1, <2>2, <3>2 DEF Settled
    <3>4. QED
      BY <1>2, <1>12, <3>3, ToSettledG DEF Between
  <2>3. CASE todo # {b}
    <3>1. pc' = "apply"
      BY <1>12, <2>3
    <3>2. first_preferred(t, b)
      BY <1>4, <1>7, <1>8, <2>3, NotPreferred
    <3>3. Valid(fdb') \subseteq Valid(fdb) \cup {b}
      BY <1>2, <1>4, <1>12, MarkTree DEF Valid
    <3>4. \A c \in Valid(fdb') : first_preferred(t, c)
      BY <1>9, <3>2, <3>3
    <3>5. Ahead(Highest(branches.first))'
      BY <1>10, <1>12, <3>4 DEF Ahead
    <3>6. QED
      BY <1>2, <1>12, <3>1, <3>5, ToSwitchingG
  <2>4. QED
    BY <2>2, <2>3
<1>13. QED
  BY <1>3, <1>11, <1>12

(* PushBlock: the better block, if there is one, is switched to.           *)
LEMMA PushBlockG ==
  ASSUME CInv, SInv, CInv', invalid = {}, Good, NEW b \in Block \ {Genesis}, PushBlock(b)
  PROVE  Good'
<1>1. /\ pc = "idle" /\ b \notin fdb.index /\ Known(fdb, prev[b]) /\ fdb' = add(fdb, b)
      /\ UNCHANGED <<mode, head>>
      /\ IF mode = "IRREVERSIBLE" THEN Goto("log") /\ ret' = "idle"
         ELSE maybe_switch_forks(fdb', pending_head(fdb'), "idle")
  BY DEF PushBlock
<1>2. /\ Tree(fdb) /\ mode \in {"SPECULATIVE", "IRREVERSIBLE"} /\ head \in Block
      /\ mode = "SPECULATIVE" => head = fdb.root \/ head \in Valid(fdb)
  BY <1>1, InIdleS
<1>3. CASE mode = "IRREVERSIBLE"
  <2>1. pc' = "log" /\ ret' = "idle" /\ mode' = "IRREVERSIBLE"
    BY <1>1, <1>3, Zenon DEF Goto
  <2>2. QED
    BY <2>1, ToSettledG DEF Between
<1>4. CASE mode = "SPECULATIVE"
  <2>1. fdb.head = head /\ Sole(fdb)
    BY <1>1, <1>4 DEF Good, Switches, Settled
  <2>2. /\ Tree(fdb') /\ fdb'.root = fdb.root /\ fdb'.index = fdb.index \cup {b}
    BY <1>1, <1>2, AddTree
  <2>3. fdb'.head = head /\ Sole(fdb')
    BY <1>1, <1>2, <2>1, AddSole
  <2>4. head = fdb'.root \/ head \in fdb'.index
    BY <1>2, <1>4, <2>2 DEF Valid
  <2>5. maybe_switch_forks(fdb', pending_head(fdb'), "idle")
    BY <1>1, <1>4
  <2>6. QED
    BY <1>1, <1>2, <1>4, <2>2, <2>3, <2>4, <2>5, MaybeSwitchG
<1>5. QED
  BY <1>2, <1>3, <1>4

(* A block built on the head becomes the fork database's only best one.    *)
LEMMA CommittedHead ==
  ASSUME CInv, SInv, pc = "idle", pending = "building", NEW b \in Block, Extends(b), b \notin fdb.index,
         NEW d, d = mark_valid(add(fdb, b), b)
  PROVE  d.head = b /\ Sole(d) /\ mode = "SPECULATIVE" /\ \A r \in reversible : num[r] # num[b]
<1>1. mode = "SPECULATIVE"
  BY DEF CInv, Building
<1>2. /\ Tree(fdb) /\ head \in Block /\ LogHead \in anc[head] /\ reversible = Above(head, num[LogHead])
      /\ Top(head) /\ (head = fdb.root \/ head \in Valid(fdb))
  BY <1>1, InIdleS
<1>3. b # Genesis /\ prev[b] = head /\ num[b] = num[head] + 1 /\ head \in anc[b]
  BY <1>2, Child, Ancestors DEF Extends
<1>4. Known(fdb, prev[b])
  BY <1>2, <1>3 DEF Known, Valid
<1>5. /\ Tree(add(fdb, b)) /\ add(fdb, b).index = fdb.index \cup {b}
  BY <1>2, <1>3, <1>4, AddTree
<1>6. ASSUME NEW c \in fdb.index PROVE first_preferred(b, c)
  <2>1. /\ c \in Block /\ lib[c] \in Nat /\ num[c] \in Nat /\ lib[b] \in Nat /\ num[b] \in Nat
        /\ num[head] \in Nat /\ lib[head] \in Nat /\ lib[head] <= lib[b]
    BY <1>2, <1>3, <1>6, AboveRoot, Ancestors
  <2>2. ~first_preferred(c, head)
    BY <1>2, <1>6 DEF Top
  <2>3. QED
    BY <1>3, <2>1, <2>2 DEF first_preferred
<1>7. Valid(add(fdb, b)) \subseteq fdb.index
  <2>1. add(fdb, b).validated = fdb.validated
    BY <1>2, <1>3, <1>4, AddTree
  <2>2. b # fdb.root
    BY <1>2, <1>3, AboveRoot, Ancestors DEF Valid
  <2>3. QED
    BY <1>2, <1>5, <2>1, <2>2 DEF Valid, Tree
<1>8. d.head = b /\ Sole(d)
  <2>1. b \in add(fdb, b).index /\ \A c \in Valid(add(fdb, b)) : first_preferred(b, c)
    BY <1>5, <1>6, <1>7
  <2>2. QED
    BY <1>5, <2>1, MarkAhead
<1>9. \A r \in reversible : num[r] # num[b]
  <2> SUFFICES ASSUME NEW r \in reversible PROVE num[r] # num[b]
    OBVIOUS
  <2>1. r \in anc[head]
    BY <1>2 DEF Above
  <2>2. r = head \/ num[r] < num[head]
    BY <1>2, <2>1, Ancestors
  <2>3. num[r] \in Nat /\ num[head] \in Nat
    BY <1>2, <2>1, Ancestors
  <2>4. QED
    BY <1>3, <2>2, <2>3
<1>10. QED
  BY <1>1, <1>8, <1>9

(* CommitBlock: both heads move to the block produced.                     *)
LEMMA CommitBlockG ==
  ASSUME CInv, SInv, CInv', NEW b \in Block \ {Genesis}, CommitBlock(b)
  PROVE  Good'
<1>1. /\ pc = "idle" /\ pending = "building" /\ Extends(b) /\ b \notin fdb.index
      /\ \/ pc' = "failed"
         \/ /\ fdb' = mark_valid(add(fdb, b), b) /\ head' = mark_valid(add(fdb, b), b).head
            /\ pc' = "log" /\ ret' = "idle" /\ UNCHANGED mode
  BY Zenon DEF CommitBlock, Fail, Goto
<1>2. mark_valid(add(fdb, b), b).head = b /\ Sole(mark_valid(add(fdb, b), b)) /\ mode = "SPECULATIVE"
  BY <1>1, CommittedHead
<1>3. CASE pc' = "failed"
  BY <1>3, ToNowhereG
<1>4. CASE /\ fdb' = mark_valid(add(fdb, b), b) /\ head' = mark_valid(add(fdb, b), b).head
           /\ pc' = "log" /\ ret' = "idle" /\ UNCHANGED mode
  <2>1. Settled'
    BY <1>2, <1>4 DEF Settled
  <2>2. QED
    BY <1>2, <1>4, <2>1, ToSettledG DEF Between
<1>5. QED
  BY <1>1, <1>3, <1>4

(* log_irreversible goes on or returns: the heads stay where they are.     *)
LEMMA LoggedG ==
  ASSUME CInv, CInv', Good, pc \in {"log"} \cup Logging, UNCHANGED <<mode, ret>>,
         pc' \in {"log"} \cup Logging \/ pc' = ret,
         mode = "SPECULATIVE" =>
           /\ head' = head /\ fdb'.head = fdb.head /\ fdb'.validated \subseteq fdb.validated
           /\ fdb'.index \subseteq fdb.index
           /\ reversible = Above(fdb.head, Floor) => reversible' = Above(fdb.head, Floor'),
         mode = "IRREVERSIBLE" => ret = "idle", pc' = ret => Low(fdb.index)'
  PROVE  Good'
<1>1. ret \in {"idle", "replay", "best_loop"}
  BY DEF CInv, Types
<1>2. /\ pc' \in Between => pc' = ret
      /\ pc' # "best" /\ (pc' = "replay" => pc' = ret) /\ mode' = mode
  BY <1>1 DEF Between, Logging
<1>3. CASE mode = "SPECULATIVE"
  <2>1. Sole(fdb) => Sole(fdb')
    BY <1>3 DEF Sole, Valid
  <2>2. CASE ret # "replay"
    <3>1. Settled
      BY <1>3, <2>2 DEF Good, Switches
    <3>2. Settled'
      BY <1>3, <2>1, <3>1 DEF Settled
    <3>3. pc' \in {"idle", "best", "best_loop"} \/ (pc' \in {"log"} \cup Logging /\ ret' # "replay")
      BY <1>1, <2>2
    <3>4. QED
      BY <1>2, <1>3, <3>2, <3>3, ToSettledG
  <2>3. CASE ret = "replay"
    <3>1. Resumed
      BY <1>3, <2>3 DEF Good, Switches, Replaying, Logging
    <3>2. Resumed'
      BY <1>3, <2>1, <3>1 DEF Resumed
    <3>3. pc' = "replay" \/ (ret' = "replay" /\ pc' \in {"extend", "log", "log_block", "trim"})
      BY <2>3 DEF Logging
    <3>4. QED
      BY <1>2, <1>3, <3>2, <3>3, ToReplayG
  <2>4. QED
    BY <2>2, <2>3
<1>4. CASE mode = "IRREVERSIBLE"
  <2>1. pc' \in {"idle", "best", "best_loop"} \/ (pc' \in {"log"} \cup Logging /\ ret' # "replay")
    BY <1>4
  <2>2. QED
    BY <1>2, <1>4, <2>1, ToSettledG
<1>5. QED
  BY <1>3, <1>4 DEF CInv, Types

(* LogIrreversible returns if the best block declares nothing irreversible *)
(* that is not logged: then no block does.                                 *)
LEMMA LogIrreversibleG ==
  ASSUME CInv, SInv, CInv', Good, LogIrreversible
  PROVE  Good'
<1>1. pc = "log" /\ UNCHANGED chain
  BY DEF LogIrreversible
<1>2. /\ LogHead' = LogHead /\ UNCHANGED <<fdb, head, reversible, mode>>
  BY <1>1 DEF chain, LogHead
<1>3. /\ Tree(fdb) /\ LogHead \in Block /\ fdb.index \subseteq Block
      /\ ret \in {"idle", "replay", "best_loop"}
  BY <1>1, InLog
<1>4. mode = "IRREVERSIBLE" => ret = "idle"
  BY <1>1, InLogS
<1>5. \/ pc' = "failed"
      \/ pc' = "log_block" /\ ret' = ret
      \/ pc' = ret /\ ret' = ret /\ lib[ForkHead] <= num[LogHead]
  BY Zenon DEF LogIrreversible, Return, Fail, Goto
<1>6. CASE pc' = "failed"
  BY <1>6, ToNowhereG
<1>7. CASE ret' = ret /\ (pc' = "log_block" \/ (pc' = ret /\ lib[ForkHead] <= num[LogHead]))
  <2>1. Floor' = Floor
    BY <1>1, <1>2, <1>3, <1>7 DEF Floor
  <2>2. ASSUME pc' = ret PROVE Low(fdb.index)'
    <3>1. lib[ForkHead] <= num[LogHead]
      BY <1>3, <1>7, <2>2
    <3>2. CASE mode = "IRREVERSIBLE"
      <4>1. ForkHead = pending_head(fdb)
        BY <3>2 DEF ForkHead
      <4>2. \A c \in fdb.index : ~first_preferred(c, pending_head(fdb))
        BY <1>3, PendingTree
      <4>3. pending_head(fdb) \in Block
        BY <1>3, PendingTree, AboveRoot
      <4>4. \A c \in fdb.index : lib[c] <= num[LogHead]
        BY <1>3, <3>1, <4>1, <4>2, <4>3, Ancestors DEF first_preferred
      <4>5. QED
        BY <1>2, <4>4 DEF Low
    <3>3. CASE mode = "SPECULATIVE"
      <4>1. \/ Low(fdb.index)
            \/ /\ fdb.head = head
               /\ \A c \in fdb.index : lib[c] <= num[LogHead] \/ lib[c] <= lib[head]
        BY <1>1, <3>3 DEF CInv, Applied
      <4>2. ForkHead = fdb.head
        BY <3>3 DEF ForkHead
      <4>3. /\ head \in Block /\ lib[head] \in Nat /\ num[LogHead] \in Nat
            /\ \A c \in fdb.index : lib[c] \in Nat
        BY <1>3, Ancestors DEF CInv, Types
      <4>4. Low(fdb.index)
        BY <3>1, <4>1, <4>2, <4>3 DEF Low
      <4>5. QED
        BY <1>2, <4>4 DEF Low
    <3>4. QED
      BY <3>2, <3>3 DEF CInv, Types
  <2>3. pc' \in {"log"} \cup Logging \/ pc' = ret
    BY <1>7 DEF Logging
  <2>4. QED
    BY <1>1, <1>2, <1>4, <1>7, <2>1, <2>2, <2>3, LoggedG
<1>8. QED
  BY <1>5, <1>6, <1>7

(* LogBlock: in speculative mode the heads stay.                           *)
LEMMA LogBlockG ==
  ASSUME CInv, SInv, CInv', invalid = {}, Good, LogBlock
  PROVE  Good'
<1> DEFINE b == Lowest(todo)
<1>1. pc = "log_block" /\ pc \in {"log"} \cup Logging
  BY DEF LogBlock, Logging
<1>2. \/ pc' = "failed"
      \/ /\ pc' = "trim" /\ UNCHANGED <<mode, ret, reversible>> /\ blog' = Append(blog, b)
         /\ mode = "IRREVERSIBLE" \/ UNCHANGED <<head, fdb>>
  BY Zenon DEF LogBlock, Fail, Goto
<1>3. b \in Block /\ b # Genesis /\ prev[b] = LogHead /\ num[b] = num[LogHead] + 1
  BY <1>1, NextToLog
<1>4. mode = "IRREVERSIBLE" => ret = "idle"
  BY <1>1, InLogS
<1> HIDE DEF b
<1>5. CASE pc' = "failed"
  BY <1>5, ToNowhereG
<1>6. CASE /\ pc' = "trim" /\ UNCHANGED <<mode, ret, reversible>> /\ blog' = Append(blog, b)
           /\ mode = "IRREVERSIBLE" \/ UNCHANGED <<head, fdb>>
  <2>1. LogHead' = b
    BY <1>3, <1>6, LogGrows DEF CInv
  <2>2. num[LogHead] \in Nat
    BY LogFacts, Ancestors DEF CInv
  <2>3. Floor' = Floor
    BY <1>1, <1>3, <1>6, <2>1, <2>2 DEF Floor
  <2>4. pc' \in {"log"} \cup Logging
    BY <1>6 DEF Logging
  <2>5. pc' # ret
    BY <1>6 DEF CInv, Types
  <2>6. mode = "SPECULATIVE" => UNCHANGED <<head, fdb>>
    BY <1>6
  <2>7. QED
    BY <1>1, <1>4, <1>6, <2>3, <2>4, <2>5, <2>6, LoggedG
<1>7. QED
  BY <1>2, <1>5, <1>6

(* The last block to be appended is the one that was declared              *)
(* irreversible, and no block known declares a later one.                  *)
LEMMA LastLogged ==
  ASSUME CInv, pc = "trim", todo = {Lowest(todo)}
  PROVE  Low(fdb.index)
<1>1. Tree(fdb) /\ LogHead \in Block /\ fdb.index \subseteq Block
  BY InLog DEF Logging
<1>2. PICK f \in fdb.index :
        /\ LogHead \in anc[f] /\ num[LogHead] <= lib[f]
        /\ todo = {b \in anc[f] : num[LogHead] <= num[b] /\ num[b] <= lib[f]}
        /\ \A c \in fdb.index : lib[c] <= lib[f]
  BY DEF CInv, Appending, Logging
<1>3. f \in Block /\ lib[f] \in Nat /\ num[f] \in Nat /\ lib[f] <= num[f] /\ num[LogHead] \in Nat
  BY <1>1, <1>2, Ancestors
<1>4. LogHead \in todo
  BY <1>2, <1>3
<1>5. lib[f] = num[LogHead]
  <2> SUFFICES ASSUME num[LogHead] < lib[f] PROVE FALSE
    BY <1>2, <1>3
  <2>1. PICK c \in anc[f] : num[c] = num[LogHead] + 1
    BY <1>2, <1>3, NextOnBranch
  <2>2. c \in todo
    BY <1>2, <1>3, <2>1
  <2>3. c = LogHead
    BY <1>4, <2>2
  <2>4. QED
    BY <1>3, <2>1, <2>3
<1>6. QED
  BY <1>2, <1>5 DEF Low

(* TrimReversible: the root moves up.                                      *)
LEMMA TrimG ==
  ASSUME CInv, SInv, CInv', Good, TrimReversible
  PROVE  Good'
<1>1. pc = "trim" /\ pc \in {"log"} \cup Logging /\ pc \in Logging
  BY DEF TrimReversible, Logging
<1>2. /\ UNCHANGED <<mode, head, blog>>
      /\ reversible' = {r \in reversible : num[r] > num[LogHead]}
  BY DEF TrimReversible
<1>3. \/ pc' = "failed"
      \/ pc' = "log_block" /\ fdb' = fdb /\ ret' = ret
      \/ /\ pc' = ret /\ fdb' = advanced(fdb, LogHead) /\ ret' = ret
         /\ todo = {Lowest(todo)}
  BY Zenon DEF TrimReversible, Return, Fail, Goto
<1>4. /\ Tree(fdb) /\ LogHead \in Block /\ ret \in {"idle", "replay", "best_loop"}
  BY <1>1, InLog
<1>5. mode = "IRREVERSIBLE" => ret = "idle"
  BY <1>1, InLogS
<1>6. LogHead' = LogHead /\ num[LogHead] \in Nat /\ fdb.head \in Block
  BY <1>2, <1>4, Ancestors, AboveRoot DEF LogHead
<1>7. CASE pc' = "failed"
  BY <1>7, ToNowhereG
<1>8. CASE \/ pc' = "log_block" /\ fdb' = fdb /\ ret' = ret
           \/ /\ pc' = ret /\ fdb' = advanced(fdb, LogHead) /\ ret' = ret
              /\ todo = {Lowest(todo)}
  <2>1. /\ fdb'.index \subseteq fdb.index /\ fdb'.validated \subseteq fdb.validated
        /\ fdb'.head = fdb.head
    BY <1>1, <1>8, AdvancedTo
  <2>2. Floor = num[LogHead] - 1 /\ Floor' = num[LogHead]
    BY <1>1, <1>4, <1>6, <1>8 DEF Floor
  <2>3. reversible = Above(fdb.head, Floor) => reversible' = Above(fdb.head, Floor')
    BY <1>2, <1>6, <2>2, AboveHigher
  <2>4. ASSUME pc' = ret PROVE Low(fdb.index)'
    <3>1. todo = {Lowest(todo)}
      BY <1>4, <1>8, <2>4
    <3>2. Low(fdb.index)
      BY <1>1, <3>1, LastLogged
    <3>3. QED
      BY <1>6, <2>1, <3>2 DEF Low
  <2>5. pc' \in {"log"} \cup Logging \/ pc' = ret
    BY <1>8 DEF Logging
  <2>6. ret' = ret
    BY <1>8
  <2>7. QED
    BY <1>1, <1>2, <1>5, <2>1, <2>3, <2>4, <2>5, <2>6, LoggedG
<1>9. QED
  BY <1>3, <1>7, <1>8

(* StartBlock and AbortBlock touch neither head.                           *)
LEMMA PendingG ==
  ASSUME CInv, CInv', Good, StartBlock \/ AbortBlock
  PROVE  Good'
<1>1. pc = "idle" /\ UNCHANGED <<mode, fdb, head, blog>> /\ pc' \in {"idle", "failed"}
  BY Zenon DEF StartBlock, AbortBlock, Fail, call
<1>2. CASE pc' = "failed"
  BY <1>2, ToNowhereG
<1>3. CASE pc' = "idle"
  <2>1. mode = "SPECULATIVE" => Settled'
    BY <1>1 DEF Good, Switches, Settled
  <2>2. Low(fdb.index)'
    BY <1>1 DEF Good, Drained, Low, LogHead, Between
  <2>3. QED
    BY <1>1, <1>3, <2>1, <2>2, ToSettledG
<1>4. QED
  BY <1>1, <1>2, <1>3

(* ApplyBest: the best block is switched to, or both heads stay.           *)
LEMMA ApplyBestG ==
  ASSUME CInv, SInv, CInv', Good, ApplyBest
  PROVE  Good'
<1>1. /\ pc \in {"best", "best_loop"} /\ pc \in Between /\ UNCHANGED <<mode, fdb, head, blog>>
  BY DEF ApplyBest, chain, Between
<1>2. \/ mode # "IRREVERSIBLE" /\ maybe_switch_forks(fdb', pending_head(fdb'), "best_loop")
      \/ pc' = "idle"
  BY <1>1, Zenon DEF ApplyBest, Goto
<1>3. /\ Tree(fdb) /\ mode \in {"SPECULATIVE", "IRREVERSIBLE"} /\ head \in Block
      /\ mode = "SPECULATIVE" => head = fdb.root \/ head \in Valid(fdb)
  BY <1>1, InBetween
<1>4. mode = "SPECULATIVE" => fdb.head = head /\ Sole(fdb)
  BY <1>1 DEF Good, Switches, Settled
<1>5. CASE pc' = "idle"
  <2>1. mode = "SPECULATIVE" => Settled'
    BY <1>1, <1>4 DEF Settled
  <2>2. Low(fdb.index)'
    BY <1>1 DEF Good, Drained, Low, LogHead
  <2>3. QED
    BY <1>1, <1>5, <2>1, <2>2, ToSettledG
<1>6. CASE mode # "IRREVERSIBLE" /\ maybe_switch_forks(fdb', pending_head(fdb'), "best_loop")
  <2>1. mode = "SPECULATIVE"
    BY <1>3, <1>6
  <2>2. /\ Tree(fdb') /\ fdb'.head = head /\ Sole(fdb')
        /\ head = fdb'.root \/ head \in fdb'.index
    BY <1>1, <1>3, <1>4, <2>1 DEF Valid
  <2>3. QED
    BY <1>1, <1>3, <1>6, <2>1, <2>2, MaybeSwitchG
<1>7. QED
  BY <1>2, <1>5, <1>6

(* ReplayReversible: the replay ends at the fork database's head.          *)
LEMMA ReplayReversibleG ==
  ASSUME CInv, SInv, CInv', Good, ReplayReversible
  PROVE  Good'
<1>1. pc = "replay" /\ pc \in Between /\ UNCHANGED <<mode, head, reversible, blog>>
  BY DEF ReplayReversible, Between
<1>2. /\ mode \in {"SPECULATIVE", "IRREVERSIBLE"} /\ LogHead \in anc[head] /\ Tree(fdb)
      /\ LogHead \in Block /\ head \in Block
      /\ mode = "IRREVERSIBLE" => reversible = {}
      /\ mode = "SPECULATIVE" => head = fdb.root \/ head \in Valid(fdb)
  BY <1>1, InBetween
<1>3. Low(fdb.index)
  BY <1>1 DEF Good, Drained
<1>4. LogHead' = LogHead /\ Floor = num[LogHead]
  BY <1>1 DEF LogHead, Floor
<1>5. mode = "SPECULATIVE" =>
        \/ fdb.validated \subseteq anc[head]
        \/ Sole(fdb) /\ head \in anc[fdb.head] /\ reversible = Above(fdb.head, num[LogHead])
  BY <1>1, <1>4 DEF Good, Switches, Replaying, Resumed
<1>6. CASE \E r \in reversible : num[r] = num[head] + 1
  <2> DEFINE r == CHOOSE q \in reversible : num[q] = num[head] + 1
  <2>1. r \in reversible /\ num[r] = num[head] + 1
    BY <1>6
  <2>2. \/ /\ Extends(r) /\ fdb' = (IF r \in fdb.index THEN fdb ELSE add(fdb, r))
           /\ Known(fdb, head) /\ maybe_switch_forks(fdb', r, "replay")
        \/ pc' = "failed"
    BY <1>6, Zenon DEF ReplayReversible, Fail
  <2>3. r \in Block
    BY <2>1 DEF CInv, Types
  <2> HIDE DEF r
  <2>4. CASE pc' = "failed"
    BY <2>4, ToNowhereG
  <2>5. CASE /\ Extends(r) /\ fdb' = (IF r \in fdb.index THEN fdb ELSE add(fdb, r))
             /\ Known(fdb, head) /\ maybe_switch_forks(fdb', r, "replay")
    <3>1. pc' = "extend" /\ ret' = "replay"
      <4>1. num[head] \in Nat
        BY <1>2, Ancestors
      <4>2. r # head
        BY <2>1, <4>1
      <4>3. QED
        BY <2>5, <4>2 DEF maybe_switch_forks, Goto
    <3>2. Floor' = num[LogHead] /\ mode = "SPECULATIVE"
      BY <1>2, <1>4, <2>1, <3>1 DEF Floor
    <3>3. fdb'.validated = fdb.validated
      <4>1. r \notin fdb.index => add(fdb, r).validated = fdb.validated
        BY <1>2, <2>3, <2>5, AddTree DEF Extends
      <4>2. QED
        BY <2>5, <4>1
    <3>4. Sole(fdb) => Sole(fdb') /\ fdb'.head = fdb.head
      <4>1. r \notin fdb.index /\ Sole(fdb) => Sole(add(fdb, r)) /\ add(fdb, r).head = fdb.head
        BY <1>2, <2>3, <2>5, AddSole DEF Extends
      <4>2. QED
        BY <2>5, <4>1
    <3>5. Resumed'
      BY <1>1, <1>5, <3>2, <3>3, <3>4 DEF Resumed
    <3>6. QED
      BY <1>1, <3>1, <3>2, <3>5, ToReplayG
  <2>6. QED
    BY <2>2, <2>4, <2>5
<1>7. CASE ~\E r \in reversible : num[r] = num[head] + 1
  <2>1. pc' = "best" /\ fdb' = fdb
    BY <1>7 DEF ReplayReversible, Goto
  <2>2. ASSUME mode = "SPECULATIVE" PROVE fdb.head = head /\ Sole(fdb)
    <3>1. CASE fdb.validated \subseteq anc[head]
      BY <1>2, <2>2, <3>1, SoleOnBranch
    <3>2. CASE Sole(fdb) /\ head \in anc[fdb.head] /\ reversible = Above(fdb.head, num[LogHead])
      <4> SUFFICES ASSUME head # fdb.head PROVE FALSE
        BY <3>2
      <4>1. fdb.head \in Block
        BY <1>2, AboveRoot
      <4>2. PICK c \in anc[fdb.head] : num[c] = num[head] + 1
        BY <3>2, <4>1, NextOnBranch
      <4>3. num[LogHead] <= num[head] /\ num[LogHead] \in Nat /\ num[head] \in Nat
        BY <1>2, Ancestors
      <4>4. c \in reversible
        BY <3>2, <4>2, <4>3 DEF Above
      <4>5. QED
        BY <1>7, <4>2, <4>4
    <3>3. QED
      BY <1>5, <2>2, <3>1, <3>2
  <2>3. mode = "SPECULATIVE" => Settled'
    BY <1>1, <2>1, <2>2 DEF Settled
  <2>4. Low(fdb.index)'
    BY <1>3, <1>4, <2>1 DEF Low
  <2>5. QED
    BY <1>1, <2>1, <2>3, <2>4, ToSettledG
<1>8. QED
  BY <1>6, <1>7

(* What a run leaves behind.                                               *)
LEMMA ToDownG ==
  ASSUME pc' = "down",
         file' # NoFile =>
           /\ Low(file.index)' /\ Sole(file') /\ (LogBlockOnly(file)' \/ SavedAs(file, file.head)')
           /\ mode' = "IRREVERSIBLE" => file'.head = file'.root
           /\ db' # NoState => \/ head' = file'.head /\ Revision(db') = num[head']
                               \/ cut' /\ num[LogHead'] <= Revision(db')
  PROVE  Good'
<1>1. Whole'
  BY DEF Whole, Intact, Starting
<1>2. Switches' /\ Drained'
  BY DEF Switches, Drained, Logging, Replaying, Between
<1>3. QED
  BY <1>1, <1>2 DEF Good

(* Shutdown: both heads are the same.                                      *)
LEMMA ShutdownG ==
  ASSUME CInv, SInv, CInv', Good, Shutdown
  PROVE  Good'
<1>1. /\ pc = "idle" /\ db' = aborted(db) /\ file' = fdb /\ pc' = "down"
      /\ UNCHANGED <<mode, head, reversible, blog>>
  BY DEF Shutdown, Goto
<1>2. /\ Stacked(aborted(db), head) /\ fdb.root = LogHead /\ Tree(fdb)
      /\ LogHead \in Block /\ head \in Block /\ LogHead \in anc[head]
      /\ mode \in {"SPECULATIVE", "IRREVERSIBLE"}
      /\ mode = "SPECULATIVE" =>
           /\ reversible = Above(head, num[LogHead]) /\ Top(head)
           /\ head = fdb.root \/ head \in Valid(fdb)
      /\ mode = "IRREVERSIBLE" => reversible = {} /\ head = LogHead /\ fdb.head = LogHead
  BY <1>1, InIdleS
<1>3. LogHead' = LogHead /\ LogHead \in anc[LogHead] /\ Above(LogHead, num[LogHead]) = {}
  BY <1>1, <1>2, AboveBlock, Ancestors DEF LogHead
<1>4. fdb.head = head /\ Sole(fdb)
  <2>1. CASE mode = "SPECULATIVE"
    BY <1>1, <2>1 DEF Good, Switches, Settled
  <2>2. CASE mode = "IRREVERSIBLE"
    BY <1>2, <2>2, NoneValid DEF Sole
  <2>3. QED
    BY <1>2, <2>1, <2>2
<1>5. Low(fdb.index)
  <2>1. CASE mode = "SPECULATIVE"
    BY <1>1, <2>1, InBetween DEF Between
  <2>2. CASE mode = "IRREVERSIBLE"
    BY <1>1, <2>2 DEF Good, Drained, Between
  <2>3. QED
    BY <1>2, <2>1, <2>2
<1>6. SavedAs(fdb, head)
  <2>1. CASE head = LogHead
    <3>1. reversible = Above(LogHead, num[LogHead])
      BY <1>2, <1>3, <2>1
    <3>2. QED
      BY <1>2, <1>3, <1>4, <2>1, <3>1 DEF SavedAs
  <2>2. CASE mode = "SPECULATIVE" /\ head \in Valid(fdb)
    BY <1>2, <2>2 DEF SavedAs, Top, Valid
  <2>3. QED
    BY <1>2, <2>1, <2>2
<1>7. SavedAs(file, file.head)'
  BY <1>1, <1>3, <1>4, <1>6 DEF SavedAs
<1>8. Low(file.index)' /\ Sole(file')
  BY <1>1, <1>3, <1>4, <1>5 DEF Low
<1>9. Revision(db') = num[head'] /\ head' = file'.head
  BY <1>1, <1>2, <1>4 DEF Stacked
<1>10. mode' = "IRREVERSIBLE" => file'.head = file'.root
  BY <1>1, <1>2
<1>11. QED
  BY <1>1, <1>7, <1>8, <1>9, <1>10, ToDownG

(* QuitInit: both heads are the same, as at a shutdown.                    *)
LEMMA QuitInitG ==
  ASSUME CInv, SInv, CInv', Good, QuitInit
  PROVE  Good'
<1>1. /\ pc = "best" /\ pc \in Between /\ pc \in Running /\ db' = db /\ file' = fdb /\ pc' = "down"
      /\ UNCHANGED <<mode, head, reversible, blog>>
  BY DEF QuitInit, Goto, Between, Running
<1>2. /\ mode \in {"SPECULATIVE", "IRREVERSIBLE"} /\ fdb.root = LogHead /\ Tree(fdb)
      /\ LogHead \in Block /\ head \in Block /\ LogHead \in anc[head] /\ pending # "building"
      /\ mode = "SPECULATIVE" => head = fdb.root \/ head \in Valid(fdb)
      /\ mode = "IRREVERSIBLE" => reversible = {} /\ head = LogHead /\ fdb.head = LogHead
  BY <1>1, InBetween DEF CInv, Building
<1>3. LogHead' = LogHead /\ LogHead \in anc[LogHead] /\ Above(LogHead, num[LogHead]) = {}
  BY <1>1, <1>2, AboveBlock, Ancestors DEF LogHead
<1>4. fdb.head = head /\ Sole(fdb)
  <2>1. CASE mode = "SPECULATIVE"
    BY <1>1, <2>1 DEF Good, Switches, Settled
  <2>2. CASE mode = "IRREVERSIBLE"
    BY <1>2, <2>2, NoneValid DEF Sole
  <2>3. QED
    BY <1>2, <2>1, <2>2
<1>5. Low(fdb.index)
  BY <1>1 DEF Good, Drained
<1>6. mode = "SPECULATIVE" =>
        /\ reversible = Above(head, num[LogHead])
        /\ Top(head) \/ head = fdb.root
  BY <1>1 DEF SInv, Exact, Replaying, Floor, Bests
<1>7. SavedAs(fdb, head)
  <2>1. CASE head = LogHead
    <3>1. reversible = Above(LogHead, num[LogHead])
      BY <1>2, <1>3, <1>6, <2>1
    <3>2. QED
      BY <1>2, <1>3, <1>4, <2>1, <3>1 DEF SavedAs
  <2>2. CASE head # LogHead
    BY <1>2, <1>6, <2>2 DEF SavedAs, Top, Valid
  <2>3. QED
    BY <2>1, <2>2
<1>8. SavedAs(file, file.head)'
  BY <1>1, <1>3, <1>4, <1>7 DEF SavedAs
<1>9. Low(file.index)' /\ Sole(file')
  BY <1>1, <1>3, <1>4, <1>5 DEF Low
<1>10. Revision(db') = num[head'] /\ head' = file'.head
  BY <1>1, <1>2, <1>4, InRunning DEF Stacked
<1>11. mode' = "IRREVERSIBLE" => file'.head = file'.root
  BY <1>1, <1>2
<1>12. QED
  BY <1>1, <1>8, <1>9, <1>10, <1>11, ToDownG

(* Crash and DeleteState leave no chain state.                             *)
LEMMA CrashG ==
  ASSUME Good, Crash \/ DeleteState
  PROVE  Good'
<1>1. CASE Crash
  BY <1>1, ToDownG DEF Crash, Goto
<1>2. CASE DeleteState
  <2>1. pc = "down" /\ pc' = "down" /\ db' = NoState /\ UNCHANGED <<mode, file, reversible, blog>>
    BY <1>2 DEF DeleteState, call
  <2>2. LogHead' = LogHead /\ LogBlocks' = LogBlocks
    BY <2>1 DEF LogHead, LogBlocks
  <2>3. file # NoFile =>
          /\ Low(file.index) /\ Sole(file) /\ (LogBlockOnly(file) \/ SavedAs(file, file.head))
          /\ mode = "IRREVERSIBLE" => file.head = file.root
    BY <2>1 DEF Good, Whole, Intact
  <2>4. LogBlockOnly(file) => LogBlockOnly(file)'
    BY <2>1, <2>2 DEF LogBlockOnly
  <2>5. SavedAs(file, file.head) => SavedAs(file, file.head)'
    BY <2>1, <2>2 DEF SavedAs
  <2>6. QED
    BY <2>1, <2>2, <2>3, <2>4, <2>5, ToDownG DEF Low
<1>3. QED
  BY <1>1, <1>2

(* What the next run finds.                                                *)
LEMMA ToStartingG ==
  ASSUME pc' \in Starting, Low(fdb.index)', Sole(fdb'),
         mode' = "SPECULATIVE" => LogBlockOnly(fdb)' \/ SavedAs(fdb, fdb.head)',
         pc' = "init" => num[head'] <= Revision(db') \/ (cut' /\ num[LogHead'] <= Revision(db'))
  PROVE  Good'
<1>1. Whole'
  BY DEF Whole, Intact, Starting
<1>2. Switches' /\ Drained'
  BY DEF Switches, Drained, Logging, Replaying, Between, Starting
<1>3. QED
  BY <1>1, <1>2 DEF Good

(* Startup: the chain state reaches the head that is read.                 *)
LEMMA StartupG ==
  ASSUME CInv, SInv, CInv', Good, NEW m \in Modes, Startup(m)
  PROVE  Good'
<1> DEFINE opened == IF file = NoFile THEN reset(Genesis) ELSE file
           d == IF m = "IRREVERSIBLE" /\ opened.head # opened.root
                THEN rollback_head_to_root(opened) ELSE opened
<1>1. /\ pc = "down" /\ UNCHANGED <<reversible, blog>> /\ mode' = m
      /\ cut' = cut
      /\ \/ pc' = "failed"
         \/ /\ ~(db # NoState /\ file = NoFile) /\ fdb' = d /\ pc' = "init"
            /\ head' = IF db = NoState THEN Genesis ELSE d.head
            /\ db' = IF db = NoState THEN Db(num[Genesis], <<Genesis>>) ELSE db
  BY Zenon DEF Startup, Fail
<1>2. LogHead' = LogHead /\ LogBlocks' = LogBlocks
  BY <1>1 DEF LogHead, LogBlocks
<1>3. Genesis \in LogBlocks /\ Genesis \in Block
  BY LogFacts DEF CInv
<1>4. Tree(opened) /\ Low(opened.index) /\ Sole(opened)
  <2>1. CASE file = NoFile
    BY <1>3, <2>1, ResetTree DEF reset, Low, Sole, Valid
  <2>2. CASE file # NoFile
    BY <1>1, <2>2 DEF CInv, Stored, Good, Whole, Intact
  <2>3. QED
    BY <2>1, <2>2
<1>5. LogBlockOnly(opened) \/ SavedAs(opened, opened.head)
  <2>1. CASE file = NoFile
    BY <1>3, <2>1 DEF LogBlockOnly
  <2>2. CASE file # NoFile
    BY <1>1, <2>2 DEF Good, Whole
  <2>3. QED
    BY <2>1, <2>2
<1>6. file # NoFile => opened = file
  OBVIOUS
<1>7. m # "IRREVERSIBLE" => d = opened
  OBVIOUS
<1>8. \/ d = opened
      \/ d = rollback_head_to_root(opened)
  OBVIOUS
<1> HIDE DEF opened, d
<1>9. Low(d.index) /\ Sole(d) /\ num[d.head] <= num[opened.head]
  <2>1. opened.root \in Block /\ opened.head \in Block /\ opened.root \in anc[opened.head]
    BY <1>4, AboveRoot
  <2>2. num[opened.root] <= num[opened.head] /\ num[opened.head] \in Nat
    BY <2>1, Ancestors
  <2>3. CASE d = opened
    BY <1>4, <2>2, <2>3
  <2>4. CASE d = rollback_head_to_root(opened)
    <3>1. Tree(d) /\ d.root = opened.root /\ d.head = opened.root /\ d.index = opened.index
      BY <1>4, <2>4, RollbackTree
    <3>2. Valid(d) = {}
      BY <3>1, NoneValid
    <3>3. QED
      BY <1>4, <2>2, <3>1, <3>2 DEF Sole
  <2>5. QED
    BY <1>8, <2>3, <2>4
<1>10. CASE pc' = "failed"
  BY <1>10, ToNowhereG
<1>11. CASE /\ ~(db # NoState /\ file = NoFile) /\ fdb' = d /\ pc' = "init"
            /\ head' = IF db = NoState THEN Genesis ELSE d.head
            /\ db' = IF db = NoState THEN Db(num[Genesis], <<Genesis>>) ELSE db
  <2>1. Low(fdb.index)' /\ Sole(fdb')
    BY <1>2, <1>9, <1>11 DEF Low
  <2>2. ASSUME mode' = "SPECULATIVE" PROVE LogBlockOnly(fdb)' \/ SavedAs(fdb, fdb.head)'
    <3>1. fdb' = opened
      BY <1>1, <1>7, <1>11, <2>2
    <3>2. CASE LogBlockOnly(opened)
      BY <1>2, <3>1, <3>2 DEF LogBlockOnly
    <3>3. CASE SavedAs(opened, opened.head)
      BY <1>1, <1>2, <3>1, <3>3 DEF SavedAs
    <3>4. QED
      BY <1>5, <3>2, <3>3
  <2>3. num[head'] <= Revision(db') \/ (cut' /\ num[LogHead'] <= Revision(db'))
    <3>1. CASE db = NoState
      <4>1. Revision(db') = num[Genesis] /\ head' = Genesis
        BY <1>3, <1>11, <3>1, StackOne
      <4>2. num[Genesis] \in Nat
        BY <1>3, Ancestors
      <4>3. QED
        BY <4>1, <4>2
    <3>2. CASE db # NoState
      <4>1. /\ opened = file
            /\ \/ head = file.head /\ Revision(db) = num[head]
               \/ cut /\ num[LogHead] <= Revision(db)
        BY <1>1, <1>6, <1>11, <3>2 DEF Good, Whole
      <4>2. db' = db /\ head' = d.head
        BY <1>11, <3>2
      <4>3. QED
        BY <1>1, <1>2, <1>9, <4>1, <4>2
    <3>3. QED
      BY <3>1, <3>2
  <2>4. QED
    BY <1>11, <2>1, <2>2, <2>3, ToStartingG DEF Starting
<1>12. QED
  BY <1>1, <1>10, <1>11

-----------------------------------------------------------------------------
(* The checks of init.                                                     *)

(* A fork database with one block of the log has nothing above the log.    *)
LEMMA OnlyLogBlock ==
  ASSUME CInv, NEW d, LogBlockOnly(d)
  PROVE  /\ d.index = {} /\ d.head = d.root /\ pending_head(d) = d.root /\ d.root \in LogBlocks
         /\ d.validated = {d.root} /\ num[d.root] <= num[LogHead]
<1>1. PICK b \in LogBlocks : d = reset(b)
  BY DEF LogBlockOnly
<1>2. d.index = {} /\ d.head = b /\ d.root = b /\ d.validated = {b}
  BY <1>1 DEF reset
<1>3. pending_head(d) = d.head
  BY <1>2 DEF pending_head, Unvalidated
<1>4. num[b] <= num[LogHead]
  <2>1. b \in Block /\ LogHead \in Block /\ (num[LogHead] <= num[b] => b = LogHead)
    BY LogFacts DEF CInv
  <2>2. num[b] \in Nat /\ num[LogHead] \in Nat
    BY <2>1, Ancestors
  <2>3. QED
    BY <2>1, <2>2
<1>5. QED
  BY <1>1, <1>2, <1>3, <1>4

(* Nothing is greater than the last block stored: neither the fork         *)
(* database's head nor, with blocks above the log, its pending head.       *)
LEMMA NothingGreater ==
  ASSUME CInv, SInv, pc = "init", NEW t \in Block, LogHead \in anc[t], Kept = Above(t, num[LogHead]),
         mode # "IRREVERSIBLE"
  PROVE  num[fdb.head] <= num[t] /\ (Kept # {} => num[pending_head(fdb)] <= num[t])
<1>1. Tree(fdb) /\ LogHead \in Block
  BY InStart DEF Starting
<1>2. num[LogHead] <= num[t] /\ num[LogHead] \in Nat /\ num[t] \in Nat
  BY <1>1, Ancestors
<1>3. CASE LogBlockOnly(fdb)
  <2>1. num[fdb.root] <= num[LogHead] /\ fdb.head = fdb.root /\ pending_head(fdb) = fdb.root
        /\ fdb.root \in Block
    BY <1>1, <1>3, OnlyLogBlock, AboveRoot
  <2>2. num[fdb.root] \in Nat
    BY <2>1, Ancestors
  <2>3. QED
    BY <1>2, <2>1, <2>2
<1>4. CASE \E s \in Block : SavedAs(fdb, s)
  <2>1. /\ fdb.root = LogHead
        /\ \/ t = LogHead /\ fdb.head = fdb.root
           \/ t \in fdb.index /\ (\A c \in fdb.index : ~first_preferred(c, t))
              /\ (t \in fdb.validated \/ fdb.head = fdb.root)
    BY <1>4, SavedIs
  <2>2. CASE t = LogHead /\ fdb.head = fdb.root
    <3>1. Kept = {}
      BY <1>1, <2>2, AboveBlock
    <3>2. QED
      BY <1>2, <2>1, <2>2, <3>1
  <2>3. CASE t \in fdb.index /\ \A c \in fdb.index : ~first_preferred(c, t)
    <3>1. ASSUME NEW p \in fdb.index PROVE lib[p] < lib[t] \/ (lib[p] = lib[t] /\ num[p] <= num[t])
      <4>1. p \in Block
        BY <1>1, AboveRoot
      <4>2. QED
        BY <2>3, <3>1, <4>1, NotPreferred
    <3>2. num[pending_head(fdb)] <= num[t]
      <4>1. pending_head(fdb) \in fdb.index \cup {fdb.root} /\ ~first_preferred(t, pending_head(fdb))
        BY <1>1, <2>3, PendingTree
      <4>2. CASE pending_head(fdb) = fdb.root
        BY <1>2, <2>1, <4>2
      <4>3. CASE pending_head(fdb) \in fdb.index
        <5>1. pending_head(fdb) \in Block
          BY <1>1, <4>3, AboveRoot
        <5>2. lib[pending_head(fdb)] \in Nat /\ lib[t] \in Nat /\ num[pending_head(fdb)] \in Nat
          BY <5>1, Ancestors
        <5>3. QED
          BY <1>2, <3>1, <4>1, <4>3, <5>2 DEF first_preferred
      <4>4. QED
        BY <4>1, <4>2, <4>3
    <3>3. num[fdb.head] <= num[t]
      <4>1. CASE fdb.head = fdb.root
        BY <1>2, <2>1, <4>1
      <4>2. CASE fdb.head # fdb.root
        <5>1. t \in Valid(fdb) /\ fdb.head \in fdb.index
          BY <1>1, <2>1, <2>3, <4>2 DEF Valid, Tree
        <5>2. ~first_preferred(t, fdb.head) /\ fdb.head \in Block
          BY <1>1, <5>1, AboveRoot DEF Tree
        <5>3. lib[fdb.head] \in Nat /\ lib[t] \in Nat /\ num[fdb.head] \in Nat
          BY <5>2, Ancestors
        <5>4. QED
          BY <1>2, <3>1, <5>1, <5>2, <5>3 DEF first_preferred
      <4>3. QED
        BY <4>1, <4>2
    <3>4. QED
      BY <3>2, <3>3
  <2>4. QED
    BY <2>1, <2>2, <2>3
<1>5. QED
  BY <1>3, <1>4 DEF SInv, Opened, Files

(* Two checks of init may fail, after an invalid block; and the one on the *)
(* head, in speculative mode, after a replay that was quit.                *)
LEMMA InitChecks ==
  ASSUME CInv, SInv, Bottom, invalid = {} => Good, pc = "init"
  PROVE  \/ InitCheck = "ok"
         \/ invalid # {} /\ InitCheck \in KnownFailures
         \/ /\ cut /\ InitCheck = "fork database head is inconsistent with state"
            /\ mode = "SPECULATIVE" /\ num[LogHead] <= Revision(db)
<1> DEFINE p == pending_head(fdb)
<1>1. PICK t \in Block :
        /\ LogHead \in anc[t] /\ Kept = Above(t, num[LogHead]) /\ LastBlockNum = num[t]
        /\ mode = "IRREVERSIBLE" => t = LogHead
  BY KeptIs
<1>2. /\ Tree(fdb) /\ LogHead \in Block /\ head \in Block /\ head \in {fdb.head, Genesis}
  BY InStart DEF Starting
<1>3. /\ head = fdb.head \/ (head = Genesis /\ db = Db(num[Genesis], <<Genesis>>))
      /\ Files(fdb) /\ States(fdb)
  BY DEF SInv, Opened
<1>4. /\ fdb.root \in Block /\ fdb.head \in Block /\ fdb.root \in anc[fdb.head]
  BY <1>2, AboveRoot
<1>5. /\ num[fdb.root] \in Nat /\ num[fdb.head] \in Nat /\ num[fdb.root] <= num[fdb.head]
      /\ num[LogHead] \in Nat /\ num[t] \in Nat /\ num[LogHead] <= num[t]
      /\ num[Genesis] <= num[t] /\ num[Genesis] \in Nat
  BY <1>1, <1>2, <1>4, GenesisBelow, Ancestors
<1>6. db.low \in Nat
  <2>1. CASE OneState
    BY <2>1, LogFacts, Ancestors DEF OneState, Db, CInv
  <2>2. CASE ~OneState
    BY <1>3, <2>2 DEF States, Stacked
  <2>3. QED
    BY <2>1, <2>2
<1>7. ~(db.low > num[head])
  <2>1. CASE head = fdb.head
    <3>1. db.low <= num[fdb.root]
      BY DEF Bottom
    <3>2. QED
      BY <1>5, <1>6, <2>1, <3>1
  <2>2. CASE head = Genesis /\ db = Db(num[Genesis], <<Genesis>>)
    BY <1>5, <2>2 DEF Db
  <2>3. QED
    BY <1>3, <2>1, <2>2
<1>8. Kept # {} => num[Lowest(Kept)] = num[LogHead] + 1
  <2> SUFFICES ASSUME Kept # {} PROVE num[Lowest(Kept)] = num[LogHead] + 1
    OBVIOUS
  <2>1. t # LogHead
    BY <1>1, <1>2, AboveBlock
  <2>2. QED
    BY <1>1, <2>1, LowestAbove
<1>9. ASSUME mode # "IRREVERSIBLE" PROVE ~(num[head] > LastBlockNum) /\ (Kept # {} => ~(LastBlockNum < num[p]))
  <2>1. num[fdb.head] <= num[t] /\ (Kept # {} => num[p] <= num[t])
    BY <1>1, <1>9, NothingGreater
  <2>2. p \in Block
    BY <1>2, <1>4, PendingTree, AboveRoot
  <2>3. num[p] \in Nat
    BY <2>2, Ancestors
  <2>4. QED
    BY <1>1, <1>3, <1>5, <2>1, <2>3
<1>10. Revision(db) < num[head] =>
         invalid # {} \/ (cut /\ mode = "SPECULATIVE" /\ num[LogHead] <= Revision(db))
  <2> SUFFICES ASSUME invalid = {}, Revision(db) < num[head]
               PROVE  cut /\ mode = "SPECULATIVE" /\ num[LogHead] <= Revision(db)
    OBVIOUS
  <2>1. num[head] <= Revision(db) \/ (cut /\ num[LogHead] <= Revision(db))
    BY DEF Good, Whole
  <2>2. num[head] \in Nat
    BY <1>2, Ancestors
  <2>3. Revision(db) \in Int
    <3>1. CASE OneState
      BY <3>1, LogFacts, StackOne, Ancestors DEF OneState, CInv
    <3>2. CASE ~OneState
      <4>1. PICK s \in Block : Stacked(db, s)
        BY <1>3, <3>2 DEF States
      <4>2. QED
        BY <4>1, Ancestors DEF Stacked
    <3>3. QED
      BY <3>1, <3>2
  <2>4. ASSUME mode = "IRREVERSIBLE" PROVE num[head] <= num[LogHead]
    <3>1. fdb.head = fdb.root /\ OnLog(fdb)
      BY <2>4, InStart DEF Starting
    <3>2. num[fdb.root] <= num[LogHead]
      BY <1>2, <1>5, <3>1, OnlyLogBlock DEF OnLog, LogBlockOnly
    <3>3. num[Genesis] <= num[LogHead]
      BY <1>2, GenesisBelow, Ancestors
    <3>4. QED
      BY <1>2, <3>1, <3>2, <3>3
  <2>5. mode \in {"SPECULATIVE", "IRREVERSIBLE"}
    BY DEF CInv, Types
  <2>6. QED
    BY <1>5, <2>1, <2>2, <2>3, <2>4, <2>5
<1>11. ASSUME mode # "IRREVERSIBLE", Kept # {}, num[LogHead] < num[p], p \notin Kept
       PROVE  invalid # {}
  <2> SUFFICES ASSUME invalid = {} PROVE FALSE
    OBVIOUS
  <2>1. mode = "SPECULATIVE"
    BY <1>11 DEF CInv, Types
  <2>2. LogBlockOnly(fdb) \/ SavedAs(fdb, fdb.head)
    BY <2>1 DEF Good, Whole, Starting
  <2>3. CASE LogBlockOnly(fdb)
    BY <1>5, <1>11, <2>3, OnlyLogBlock
  <2>4. CASE SavedAs(fdb, fdb.head)
    <3>1. /\ fdb.head = t
          /\ \/ t = LogHead /\ fdb.head = fdb.root
             \/ t \in fdb.index /\ \A c \in fdb.index : ~first_preferred(c, t)
      BY <1>1, <1>4, <1>11, <2>4, SavedIs
    <3>2. t # LogHead
      BY <1>1, <1>2, <1>11, AboveBlock
    <3>3. p # t
      BY <1>1, <1>11, <3>2, AboveBlock
    <3>4. first_preferred(p, t)
      BY <3>1, <3>3, PendingBetter
    <3>5. p \in fdb.index
      BY <1>2, <3>1, <3>3, PendingTree
    <3>6. QED
      BY <3>1, <3>2, <3>4, <3>5
  <2>5. QED
    BY <2>2, <2>3, <2>4
<1> HIDE DEF p
<1>12. CASE mode = "IRREVERSIBLE"
  BY <1>7, <1>10, <1>12, Zenon DEF InitCheck, KnownFailures
<1>13. CASE mode # "IRREVERSIBLE"
  <2>1. InitCheck = IF Revision(db) < num[head] THEN "fork database head is inconsistent with state"
                    ELSE IF Kept # {} /\ num[LogHead] < num[p] /\ num[p] <= LastBlockNum /\ p \notin Kept
                    THEN "mismatch in block id of pending head block"
                    ELSE "ok"
    BY <1>7, <1>8, <1>9, <1>13, Zenon DEF InitCheck, p
  <2>2. QED
    BY <1>10, <1>11, <1>13, <2>1 DEF KnownFailures
<1>14. QED
  BY <1>12, <1>13

(* InitController: with nothing to replay both heads are the same.         *)
LEMMA InitControllerG ==
  ASSUME CInv, SInv, Bottom, CInv', invalid = {}, Good, InitController
  PROVE  Good'
<1>1. pc = "init" /\ pc \in Starting /\ UNCHANGED <<mode, fdb, head, blog>>
  BY DEF InitController, Starting
<1>2. \/ InitCheck = "ok"
      \/ InitCheck # "ok" /\ cut /\ mode = "SPECULATIVE" /\ num[LogHead] <= Revision(db)
  BY <1>1, InitChecks
<1>3. InitCheck = "ok" =>
        reversible' = Kept /\ pc' = IF LastBlockNum > num[head] THEN "replay_log" ELSE "best"
  BY DEF InitController, Goto
<1>4. LogHead' = LogHead /\ LogBlocks' = LogBlocks
  BY <1>1 DEF LogHead, LogBlocks
<1>5. /\ Low(fdb.index) /\ Sole(fdb)
      /\ mode = "SPECULATIVE" => LogBlockOnly(fdb) \/ SavedAs(fdb, fdb.head)
  BY <1>1 DEF Good, Whole, Intact
<1>6. /\ Tree(fdb) /\ LogHead \in Block /\ head \in Block /\ head \in {fdb.head, Genesis}
      /\ fdb.head \in Block
  BY <1>1, InStart, AboveRoot
<1>7. PICK t \in Block :
        /\ LogHead \in anc[t] /\ Kept = Above(t, num[LogHead]) /\ LastBlockNum = num[t]
        /\ mode = "IRREVERSIBLE" => t = LogHead
  BY <1>1, KeptIs
<1>8. ASSUME mode = "SPECULATIVE", SavedAs(fdb, fdb.head)
      PROVE  fdb.head = t /\ fdb.root = LogHead
  BY <1>1, <1>6, <1>7, <1>8, SavedIs
<1>9. Low(fdb.index)' /\ Sole(fdb')
  BY <1>1, <1>4, <1>5 DEF Low
<1>10. CASE InitCheck = "ok" /\ LastBlockNum > num[head]
  <2>1. ASSUME mode = "SPECULATIVE" PROVE LogBlockOnly(fdb)' \/ SavedAs(fdb, fdb.head)'
    <3>1. CASE LogBlockOnly(fdb)
      BY <1>1, <1>4, <3>1 DEF LogBlockOnly
    <3>2. CASE SavedAs(fdb, fdb.head)
      <4>1. reversible' = Above(fdb.head, num[LogHead])
        BY <1>3, <1>7, <1>8, <1>10, <2>1, <3>2
      <4>2. QED
        BY <1>1, <1>4, <3>2, <4>1 DEF SavedAs
    <3>3. QED
      BY <1>5, <2>1, <3>1, <3>2
  <2>2. pc' = "replay_log"
    BY <1>3, <1>10
  <2>3. QED
    BY <1>1, <1>9, <2>1, <2>2, ToStartingG DEF Starting
<1>11. CASE InitCheck = "ok" /\ ~(LastBlockNum > num[head])
  <2>1. pc' = "best"
    BY <1>3, <1>11
  <2>2. num[LogHead] <= num[head] /\ num[t] <= num[head]
    BY <1>6, <1>7, <1>11, Ancestors
  <2>3. fdb.root = LogHead /\ LogHead \in anc[head]
    BY <1>1, <2>2, CaughtUp
  <2>4. ASSUME mode = "SPECULATIVE" PROVE fdb.head = head
    <3> SUFFICES ASSUME head = Genesis, head # fdb.head PROVE FALSE
      BY <1>6
    <3>1. LogHead = Genesis
      BY <2>3, TreeAssumption
    <3>2. CASE LogBlockOnly(fdb)
      BY <2>3, <3>1, <3>2, OnlyLogBlock
    <3>3. CASE SavedAs(fdb, fdb.head)
      <4>1. fdb.head = t
        BY <1>8, <2>4, <3>3
      <4>2. t = LogHead \/ num[LogHead] < num[t]
        BY <1>7, Ancestors
      <4>3. num[t] \in Nat /\ num[LogHead] \in Nat
        BY <1>6, Ancestors
      <4>4. QED
        BY <2>2, <3>1, <4>1, <4>2, <4>3
    <3>4. QED
      BY <1>5, <2>4, <3>2, <3>3
  <2>5. mode = "SPECULATIVE" => Settled'
    BY <1>1, <1>9, <2>4 DEF Settled
  <2>6. QED
    BY <1>1, <1>9, <2>1, <2>5, ToSettledG
<1>12. CASE InitCheck # "ok"
  <2>1. pc' = "down" /\ file' = fdb /\ db' = db /\ reversible' = reversible /\ cut' = cut
    BY <1>12 DEF InitController
  <2>2. LogBlockOnly(fdb) => LogBlockOnly(file)'
    BY <1>4, <2>1 DEF LogBlockOnly
  <2>3. SavedAs(fdb, fdb.head) => SavedAs(file, file.head)'
    BY <1>4, <2>1 DEF SavedAs
  <2>4. Low(file.index)' /\ Sole(file')
    BY <1>4, <1>5, <2>1 DEF Low
  <2>5. QED
    BY <1>1, <1>2, <1>4, <1>5, <1>12, <2>1, <2>2, <2>3, <2>4, ToDownG
<1>13. QED
  BY <1>10, <1>11, <1>12

(* The replay is quit before the stored blocks: the fork database is as it *)
(* was read, and the chain state has not reached its head.                 *)
LEMMA QuitG ==
  ASSUME CInv, SInv, Good, pc = "replay_log", pc' = "down", file' = fdb, cut' = TRUE,
         UNCHANGED <<mode, reversible, blog>>, num[LogHead'] <= Revision(db')
  PROVE  Good'
<1>1. LogHead' = LogHead /\ LogBlocks' = LogBlocks
  BY DEF LogHead, LogBlocks
<1>2. /\ Low(fdb.index) /\ Sole(fdb)
      /\ mode = "SPECULATIVE" => LogBlockOnly(fdb) \/ SavedAs(fdb, fdb.head)
  BY DEF Good, Whole, Intact, Starting
<1>3. /\ Tree(fdb) /\ LogHead \in Block /\ mode \in {"SPECULATIVE", "IRREVERSIBLE"}
      /\ mode = "IRREVERSIBLE" => fdb.head = fdb.root /\ reversible = {}
  BY InStart DEF Starting, CInv, Types
<1>4. ASSUME mode = "IRREVERSIBLE" PROVE LogBlockOnly(fdb) \/ SavedAs(fdb, fdb.head)
  <2>1. PICK t \in Block : LogBlockOnly(fdb) \/ SavedAs(fdb, t)
    BY DEF SInv, Rewound
  <2>2. CASE SavedAs(fdb, t)
    <3>1. fdb.root = LogHead /\ LogHead \in anc[LogHead] /\ Above(LogHead, num[LogHead]) = {}
      BY <1>3, <2>2, AboveBlock, Ancestors DEF SavedAs
    <3>2. QED
      BY <1>3, <1>4, <3>1 DEF SavedAs
  <2>3. QED
    BY <2>1, <2>2
<1>5. LogBlockOnly(fdb) => LogBlockOnly(file)'
  BY <1>1 DEF LogBlockOnly
<1>6. SavedAs(fdb, fdb.head) => SavedAs(file, file.head)'
  BY <1>1 DEF SavedAs
<1>7. Low(file.index)' /\ Sole(file')
  BY <1>1, <1>2 DEF Low
<1>8. QED
  BY <1>2, <1>3, <1>4, <1>5, <1>6, <1>7, ToDownG

(* ReplayLog: the replay of the stored blocks begins, below the fork       *)
(* database's head; or it is interrupted, at a block of the log.           *)
LEMMA ReplayLogG ==
  ASSUME CInv, SInv, CInv', Good, NEW h \in Block, ReplayLog(h)
  PROVE  Good'
<1>1. pc = "replay_log" /\ pc \in Starting /\ UNCHANGED <<mode, reversible, blog>>
  BY DEF ReplayLog, Starting
<1>2. LogHead' = LogHead /\ LogBlocks' = LogBlocks
  BY <1>1 DEF LogHead, LogBlocks
<1>3. /\ Low(fdb.index) /\ Sole(fdb)
      /\ mode = "SPECULATIVE" => LogBlockOnly(fdb) \/ SavedAs(fdb, fdb.head)
  BY <1>1 DEF Good, Whole, Intact
<1>4. /\ Tree(fdb) /\ OnLog(fdb) /\ LogHead \in Block /\ head \in Block /\ head \in {fdb.head, Genesis}
      /\ fdb.head \in Block /\ fdb.root \in anc[fdb.head]
  BY <1>1, InStart, AboveRoot
<1>5. \/ pc' = "failed"
      \/ /\ h \in {blog[i] : i \in 1 .. Len(blog)} /\ head' = h /\ db' = Db(num[h], <<h>>)
         /\ fdb' = Resynced(h)
         /\ \/ h = LogHead /\ pc' = "replay"
            \/ pc' = "down" /\ file' = fdb' /\ cut' = (h = LogHead)
      \/ ~(num[head] < num[LogHead]) /\ pc' = "replay" /\ UNCHANGED <<fdb, head>>
      \/ /\ ~(num[head] < num[LogHead]) /\ pc' = "down" /\ file' = fdb /\ cut' = TRUE
         /\ UNCHANGED <<fdb, head, db>>
  BY Zenon DEF ReplayLog, Fail, Goto
<1>6. CASE pc' = "failed"
  BY <1>6, ToNowhereG
<1>7. CASE /\ h \in {blog[i] : i \in 1 .. Len(blog)} /\ head' = h /\ db' = Db(num[h], <<h>>)
           /\ fdb' = Resynced(h)
           /\ \/ h = LogHead /\ pc' = "replay"
              \/ pc' = "down" /\ file' = fdb' /\ cut' = (h = LogHead)
  <2>1. h \in LogBlocks
    BY <1>7 DEF LogBlocks, CInv, Types
  <2>2. fdb' = reset(h) \/ (fdb' = fdb /\ fdb.root = h)
    BY <1>1, <1>7, <2>1, ResyncedTo
  <2>3. CASE h = LogHead /\ pc' = "replay"
    <3>1. pc' = "replay"
      BY <2>3
    <3>2. Low(fdb.index)'
      BY <1>2, <1>3, <2>2 DEF Low, reset
    <3>3. ASSUME mode = "SPECULATIVE" PROVE Resumed'
      <4>1. Floor' = num[LogHead] /\ head' = LogHead /\ LogHead \in anc[LogHead]
        BY <1>2, <1>4, <1>7, <2>3, <3>1, Ancestors DEF Floor
      <4>2. CASE fdb' = reset(h) \/ (fdb' = fdb /\ LogBlockOnly(fdb))
        <5>1. fdb'.validated = {h}
          BY <2>2, <4>2, OnlyLogBlock DEF reset
        <5>2. QED
          BY <2>3, <4>1, <5>1 DEF Resumed
      <4>3. CASE fdb' = fdb /\ fdb.root = h /\ SavedAs(fdb, fdb.head)
        <5>1. reversible = Above(fdb.head, num[LogHead]) /\ LogHead \in anc[fdb.head]
          BY <4>3 DEF SavedAs
        <5>2. QED
          BY <1>1, <1>3, <4>1, <4>3, <5>1 DEF Resumed
      <4>4. QED
        BY <1>3, <2>2, <3>3, <4>2, <4>3
    <3>4. QED
      BY <1>1, <3>1, <3>2, <3>3, ToReplayG
  <2>4. CASE h # LogHead
    <3>1. fdb' = reset(h)
      <4>1. CASE fdb' = fdb /\ fdb.root = h
        <5>1. PICK b \in LogBlocks : fdb = reset(b)
          BY <1>4, <2>4, <4>1 DEF OnLog
        <5>2. QED
          BY <4>1, <5>1 DEF reset
      <4>2. QED
        BY <2>2, <4>1
    <3>2. pc' = "down" /\ file' = reset(h)
      BY <1>7, <2>4, <3>1
    <3>3. LogBlockOnly(file)'
      BY <1>2, <2>1, <3>2 DEF LogBlockOnly
    <3>4. Low(file.index)' /\ Sole(file') /\ file'.head = h /\ file'.root = h
      BY <3>2 DEF reset, Low, Sole, Valid
    <3>5. Revision(db') = num[h]
      BY <1>7, StackOne
    <3>6. QED
      BY <1>7, <3>2, <3>3, <3>4, <3>5, ToDownG
  <2>5. CASE h = LogHead /\ pc' = "down" /\ file' = fdb' /\ cut' = TRUE
    <3>1. CASE fdb' = reset(h)
      <4>1. LogBlockOnly(file)'
        BY <1>2, <2>1, <2>5, <3>1 DEF LogBlockOnly
      <4>2. Low(file.index)' /\ Sole(file') /\ file'.head = h /\ file'.root = h
        BY <2>5, <3>1 DEF reset, Low, Sole, Valid
      <4>3. Revision(db') = num[h]
        BY <1>7, StackOne
      <4>4. QED
        BY <1>7, <2>5, <4>1, <4>2, <4>3, ToDownG
    <3>2. CASE fdb' = fdb
      <4>1. Revision(db') = num[LogHead'] /\ num[LogHead] \in Nat
        BY <1>2, <1>4, <1>7, <2>5, StackOne, Ancestors
      <4>2. QED
        BY <1>1, <1>2, <2>5, <3>2, <4>1, QuitG
    <3>3. QED
      BY <2>2, <3>1, <3>2
  <2>6. QED
    BY <1>7, <2>3, <2>4, <2>5
<1>8. CASE ~(num[head] < num[LogHead]) /\ pc' = "replay" /\ UNCHANGED <<fdb, head>>
  <2>1. num[LogHead] <= num[head]
    BY <1>4, <1>8, Ancestors
  <2>2. fdb.root = LogHead /\ LogHead \in anc[head]
    BY <1>1, <2>1, CaughtUp
  <2>3. Low(fdb.index)'
    BY <1>2, <1>3, <1>8 DEF Low
  <2>4. ASSUME mode = "SPECULATIVE" PROVE Resumed'
    <3>1. Floor' = num[LogHead]
      BY <1>2, <1>8 DEF Floor
    <3>2. CASE LogBlockOnly(fdb)
      BY <1>8, <2>2, <3>2, OnlyLogBlock DEF Resumed
    <3>3. CASE SavedAs(fdb, fdb.head)
      <4>1. head \in anc[fdb.head]
        BY <1>4, GenesisBelow, Ancestors
      <4>2. QED
        BY <1>1, <1>3, <1>8, <3>1, <3>3, <4>1 DEF Resumed, SavedAs
    <3>4. QED
      BY <1>3, <2>4, <3>2, <3>3
  <2>5. QED
    BY <1>1, <1>8, <2>3, <2>4, ToReplayG
<1>9. CASE /\ ~(num[head] < num[LogHead]) /\ pc' = "down" /\ file' = fdb /\ cut' = TRUE
           /\ UNCHANGED <<fdb, head, db>>
  <2>1. Revision(db) = num[head]
    BY <1>1 DEF SInv, Rewound, Stacked
  <2>2. num[LogHead'] <= Revision(db')
    BY <1>2, <1>4, <1>9, <2>1, Ancestors
  <2>3. QED
    BY <1>1, <1>9, <2>2, QuitG
<1>10. QED
  BY <1>5, <1>6, <1>7, <1>8, <1>9

(* The first state.                                                        *)
LEMMA InitRest == Init => Bottom /\ Linked /\ Good
<1> SUFFICES ASSUME Init PROVE Bottom /\ Linked /\ Good
  OBVIOUS
<1>1. pc = "idle" /\ fdb = reset(Genesis) /\ head = Genesis
  BY DEF Init
<1>2. Bottom /\ Linked
  BY <1>1 DEF Bottom, Linked
<1>3. Settled /\ Low(fdb.index)
  BY <1>1 DEF Settled, Sole, Valid, reset, Low
<1>4. QED
  BY <1>1, <1>2, <1>3 DEF Good, Switches, Drained, Whole, Logging, Replaying, Between, Starting

(* Every step keeps Good, if no block is invalid.                          *)
LEMMA NextGood ==
  CInv /\ SInv /\ Bottom /\ CInv' /\ invalid = {} /\ Good /\ [Next]_vars => Good'
<1> SUFFICES ASSUME CInv, SInv, Bottom, CInv', invalid = {}, Good, [Next]_vars PROVE Good'
  OBVIOUS
<1>1. CASE UNCHANGED vars
  <2>1. UNCHANGED <<mode, fdb, head, db, reversible, blog, file, pc, ret, branches, todo, cut>>
    BY <1>1 DEF vars
  <2>2. LogHead' = LogHead /\ LogBlocks' = LogBlocks /\ Floor' = Floor
    BY <2>1 DEF LogHead, LogBlocks, Floor
  <2>3. Switches'
    BY <2>1, <2>2 DEF Good, Switches, Settled, Ahead, Resumed, Replaying
  <2>4. Drained'
    BY <2>1, <2>2 DEF Good, Drained, Low
  <2>5. Whole'
    BY <2>1, <2>2 DEF Good, Whole, Intact, Low, LogBlockOnly, SavedAs
  <2>6. QED
    BY <2>3, <2>4, <2>5 DEF Good
<1>2. CASE PopNew \/ ReapplyOld
  BY <1>2 DEF PopNew, ReapplyOld, Good, Switches
<1>3. QED
  BY <1>1, <1>2, ExtendG, PopOldG, ApplyNewG, PushBlockG, CommitBlockG, LogIrreversibleG, LogBlockG,
     TrimG, PendingG, ApplyBestG, QuitInitG, ReplayReversibleG, ShutdownG, CrashG, StartupG,
     InitControllerG, ReplayLogG DEF Next, Step

-----------------------------------------------------------------------------
(* No assertion fails.                                                     *)

(* No assertion has failed while the files are read and the log replayed.  *)
Unfailed == pc \in Starting => failure = "none"

(* The process gets there through startup alone, which forgets what failed.*)
LEMMA NextUnfailed == CInv /\ Unfailed /\ [Next]_vars => Unfailed'
<1> SUFFICES ASSUME CInv, Unfailed, [Next]_vars PROVE Unfailed'
  OBVIOUS
<1>1. ret \in {"idle", "replay", "best_loop"}
  BY DEF CInv, Types
<1>2. ASSUME pc' \notin Starting PROVE Unfailed'
  BY <1>2 DEF Unfailed
<1>3. CASE UNCHANGED vars
  BY <1>3 DEF vars, Unfailed
<1>4. ASSUME NEW b \in Block \ {Genesis}, PushBlock(b) \/ CommitBlock(b) PROVE Unfailed'
  <2>1. pc' \in {"idle", "extend", "apply", "pop", "log", "failed"}
    BY <1>4, Zenon DEF PushBlock, CommitBlock, maybe_switch_forks, Goto, Fail
  <2>2. QED
    BY <1>2, <2>1 DEF Starting
<1>5. CASE StartBlock \/ AbortBlock
  <2>1. pc' \in {"idle", "failed"}
    BY <1>5, Zenon DEF StartBlock, AbortBlock, Fail, call
  <2>2. QED
    BY <1>2, <2>1 DEF Starting
<1>6. CASE Extend \/ PopOld \/ ApplyNew \/ PopNew \/ ReapplyOld \/ LogBlock
  <2>1. pc' \in {"idle", "down", "pop", "apply", "unapply", "reapply", "log", "trim", "failed"}
    BY <1>6, Zenon DEF Extend, PopOld, ApplyNew, PopNew, ReapplyOld, LogBlock, Reversed, Throw, Fail, Goto
  <2>2. QED
    BY <1>2, <2>1 DEF Starting
<1>7. CASE LogIrreversible \/ TrimReversible
  <2>1. pc' \in {"log_block", "failed", ret}
    BY <1>7, Zenon DEF LogIrreversible, TrimReversible, Return, Fail, Goto
  <2>2. QED
    BY <1>1, <1>2, <2>1 DEF Starting
<1>8. CASE ReplayReversible \/ ApplyBest \/ \E h \in Block : ReplayLog(h)
  <2>1. pc' \in {"idle", "extend", "apply", "pop", "best", "best_loop", "replay", "down", "failed"}
    BY <1>8, Zenon DEF ReplayReversible, ApplyBest, ReplayLog, maybe_switch_forks, Goto, Fail
  <2>2. QED
    BY <1>2, <2>1 DEF Starting
<1>9. CASE QuitInit \/ Shutdown \/ Crash \/ DeleteState
  <2>1. pc' = "down"
    BY <1>9 DEF QuitInit, Shutdown, Crash, DeleteState, Goto, call
  <2>2. QED
    BY <1>2, <2>1 DEF Starting
<1>10. ASSUME NEW m \in Modes, Startup(m) PROVE Unfailed'
  <2>1. pc' = "failed" \/ failure' = "none"
    BY <1>10, Zenon DEF Startup, Fail
  <2>2. QED
    BY <2>1 DEF Unfailed, Starting
<1>11. CASE InitController
  <2>1. pc = "init" /\ (pc' = "down" \/ failure' = failure)
    BY <1>11, Zenon DEF InitController, Goto
  <2>2. QED
    BY <2>1 DEF Unfailed, Starting
<1>12. QED
  BY <1>3, <1>4, <1>5, <1>6, <1>7, <1>8, <1>9, <1>10, <1>11 DEF Next, Step

(* A step that fails no assertion but a known one.                         *)
LEMMA Unfailing ==
  ASSUME NeverFails, UNCHANGED invalid,
         \/ failure' = "none"
         \/ failure' = failure /\ (cut' = cut \/ failure = "none")
         \/ invalid # {} /\ failure' \in KnownFailures
         \/ cut' /\ failure' = "fork database head is inconsistent with state"
  PROVE  NeverFails'
BY DEF NeverFails, KnownFailures

(* Only init and the replay of the log touch the mark of a quit.           *)
LEMMA SameCut ==
  [Next]_vars => cut' = cut \/ InitController \/ \E h \in Block : ReplayLog(h)
BY Zenon DEF Next, Step, PushBlock, StartBlock, AbortBlock, CommitBlock, Extend, PopOld, ApplyNew, PopNew,
   ReapplyOld, LogIrreversible, LogBlock, TrimReversible, Shutdown, Crash, DeleteState, Startup,
   ReplayReversible, ApplyBest, QuitInit, vars, chain

(* An invalid block can be removed: the fork database's head is not on it. *)
LEMMA MayRemove ==
  ASSUME Cleared, Tree(fdb), NEW b \in fdb.index, b \in invalid
  PROVE  ~RemoveThrows(fdb, b)
<1> SUFFICES ASSUME fdb.head \in RemoveQueue(fdb, b) PROVE FALSE
  BY DEF RemoveThrows
<1>1. b \in Block /\ b \notin anc[fdb.root]
  BY AboveRoot
<1>2. b \in anc[fdb.head]
  BY <1>1, Ancestors DEF RemoveQueue
<1>3. fdb.head \in Valid(fdb)
  BY <1>1, <1>2 DEF Tree
<1>4. QED
  BY <1>2, <1>3 DEF Cleared, Clean

(* A child of the head can be applied: the chain state is the head's, and  *)
(* no block of its number is stored as reversible.                         *)
LEMMA MayApply ==
  ASSUME CInv, SInv, pc \in Switching, NEW b \in Block, b # Genesis, prev[b] = head
  PROVE  CanApply(b)
<1>1. Stacked(db, head) /\ (ret # "replay" => reversible = Above(head, num[LogHead])) /\ head \in Block
  BY InSwitchS, InSwitch
<1>2. num[b] = num[head] + 1
  BY Child
<1>3. ASSUME ret # "replay", NEW r \in reversible PROVE num[r] # num[b]
  <2>1. r \in anc[head]
    BY <1>1, <1>3 DEF Above
  <2>2. (r = head \/ num[r] < num[head]) /\ num[r] \in Nat /\ num[head] \in Nat
    BY <1>1, <2>1, Ancestors
  <2>3. QED
    BY <1>2, <2>2
<1>4. QED
  BY <1>1, <1>3 DEF CanApply, StoresReversible, Stacked

(* Extend fails no assertion.                                              *)
LEMMA ExtendN ==
  ASSUME CInv, SInv, Cleared, Extend
  PROVE  failure' = failure /\ invalid' = invalid
<1>1. pc = "extend" /\ pc \in Switching
  BY DEF Extend, Switching
<1>2. Tree(fdb) /\ fdb.index \subseteq Block
  BY <1>1, InSwitch
<1>3. PICK t \in fdb.index : todo = {t} /\ Extends(t)
  BY <1>1 DEF CInv, Extending
<1>4. CanApply(t) /\ (t \in invalid => ~RemoveThrows(fdb, t))
  BY <1>1, <1>2, <1>3, MayApply, MayRemove DEF Extends
<1>5. QED
  BY <1>3, <1>4, Zenon DEF Extend, Throw, Goto, chain

(* PopOld arrives where the branches part.                                 *)
LEMMA PopOldN ==
  ASSUME CInv, SInv, Linked, PopOld
  PROVE  failure' = failure /\ invalid' = invalid
<1>1. pc = "pop" /\ pc \in Switching \ {"extend"} /\ pc \in Switching
  BY DEF PopOld, Switching
<1>2. CanPop /\ head \in Block
  BY <1>1, MayPop, InSwitch
<1>3. PICK s \in Block, t \in Block : Fork(s, t)
  BY <1>1, InFork
<1>4. /\ branches.second = anc[s] \ anc[t]
      /\ head \in anc[s] /\ head \notin anc[t] /\ todo = anc[head] \ anc[t]
  BY <1>1, <1>3 DEF Fork
<1>5. todo = {Highest(todo)} => prev[head] = prev[Lowest(branches.second)]
  <2> SUFFICES ASSUME todo = {Highest(todo)} PROVE prev[head] = prev[Lowest(branches.second)]
    OBVIOUS
  <2>1. Highest(todo) = head /\ head # Genesis /\ (todo = {head} <=> prev[head] \in anc[t])
    BY <1>2, <1>4, HighestOwn
  <2>2. head # Genesis /\ prev[head] \in anc[t]
    BY <2>1
  <2>3. Lowest(branches.second) = head
    BY <1>4, <2>2, Parting
  <2>4. QED
    BY <2>3
<1>6. QED
  BY <1>2, <1>5, Zenon DEF PopOld, pop_block, Goto

(* The reversal of a switch finds where the branches part, if it popped    *)
(* any block.                                                              *)
LEMMA ReversedN ==
  ASSUME NEW s \in Block, NEW t \in Block, NEW h, Fork(s, t), Reversed(h),
         NEW c \in anc[t], c \notin anc[s], c # Genesis, prev[c] = h, h \in anc[s]
  PROVE  failure' = failure \/ failure' \in KnownFailures
<1>1. branches.second = anc[s] \ anc[t]
  BY DEF Fork
<1>2. CASE branches.second = {}
  <2>1. failure' = "branches.second.back() of an empty branch"
    BY <1>2, Zenon DEF Reversed, Fail
  <2>2. QED
    BY <2>1 DEF KnownFailures
<1>3. CASE branches.second # {}
  <2>1. prev[c] \in anc[s]
    OBVIOUS
  <2>2. anc[s] \ anc[t] = Above(s, num[prev[c]]) /\ prev[c] \in anc[t]
    BY <2>1, Parting
  <2>3. h # s
    BY <1>1, <1>3, <2>2, Ancestors
  <2>4. prev[Lowest(branches.second)] = h
    BY <1>1, <2>2, <2>3, LowestAbove
  <2>5. QED
    BY <1>3, <2>4, Zenon DEF Reversed, Goto
<1>4. QED
  BY <1>2, <1>3

(* ApplyNew fails no assertion but the one of the reversal.                *)
LEMMA ApplyNewN ==
  ASSUME CInv, SInv, Cleared, ApplyNew
  PROVE  /\ invalid' = invalid
         /\ failure' = failure \/ (invalid # {} /\ failure' \in KnownFailures)
<1> DEFINE b == Lowest(todo)
           applied == {c \in branches.first : num[c] < num[b]}
<1>1. pc = "apply" /\ pc \in Switching \ {"extend"} /\ pc \in Switching
  BY DEF ApplyNew, Switching
<1>2. Tree(fdb) /\ head \in Block
  BY <1>1, InSwitch
<1>3. b \in fdb.index /\ b \in Block /\ b # Genesis /\ prev[b] = head
  BY <1>1, NextNew
<1>4. CanApply(b) /\ (b \in invalid => ~RemoveThrows(fdb, b))
  BY <1>1, <1>2, <1>3, MayApply, MayRemove
<1>5. PICK s \in Block, t \in Block : Fork(s, t)
  BY <1>1, InFork
<1>6. /\ branches.first = anc[t] \ anc[s] /\ head \in anc[t] /\ head # t
      /\ todo = Above(t, num[head]) /\ todo \cap anc[s] = {}
  BY <1>1, <1>5 DEF Fork
<1>7. b \in todo /\ b \in anc[t] /\ b \notin anc[s] /\ num[b] = num[head] + 1
  BY <1>6, LowestAbove
<1>8. applied = {} => head \in anc[s]
  <2> SUFFICES ASSUME head \notin anc[s] PROVE head \in applied
    OBVIOUS
  <2>1. num[head] \in Nat
    BY <1>2, Ancestors
  <2>2. QED
    BY <1>6, <1>7, <2>1
<1>9. /\ invalid' = invalid
      /\ failure' = failure \/ (b \in invalid /\ applied = {} /\ Reversed(head))
  BY <1>4, Zenon DEF ApplyNew, Goto, chain
<1> HIDE DEF b, applied
<1>10. CASE b \in invalid /\ applied = {} /\ Reversed(head)
  <2>1. failure' = failure \/ failure' \in KnownFailures
    BY <1>3, <1>5, <1>7, <1>8, <1>10, ReversedN
  <2>2. QED
    BY <1>9, <1>10, <2>1
<1>11. QED
  BY <1>9, <1>10

(* PopNew fails no assertion but the one of the reversal.                  *)
LEMMA PopNewN ==
  ASSUME CInv, SInv, Linked, PopNew
  PROVE  invalid' = invalid /\ (failure' = failure \/ failure' \in KnownFailures)
<1>1. pc = "unapply" /\ pc \in Switching \ {"extend"} /\ pc \in Switching
  BY DEF PopNew, Switching
<1>2. CanPop /\ head \in Block
  BY <1>1, MayPop, InSwitch
<1>3. PICK s \in Block, t \in Block : Fork(s, t)
  BY <1>1, InFork
<1>4. head \in anc[t] /\ head \notin anc[s] /\ todo = anc[head] \ anc[s]
  BY <1>1, <1>3 DEF Fork
<1>5. Highest(todo) = head /\ head # Genesis /\ (todo = {head} <=> prev[head] \in anc[s])
  BY <1>2, <1>4, HighestOwn
<1>6. /\ invalid' = invalid
      /\ failure' = failure \/ (todo = {head} /\ Reversed(prev[head]))
  BY <1>2, <1>5, Zenon DEF PopNew, Goto, pop_block
<1>7. CASE todo = {head} /\ Reversed(prev[head])
  BY <1>3, <1>4, <1>5, <1>6, <1>7, ReversedN
<1>8. QED
  BY <1>6, <1>7

(* ReapplyOld fails no assertion: what was popped is valid.                *)
LEMMA ReapplyOldN ==
  ASSUME CInv, SInv, Cleared, ReapplyOld
  PROVE  failure' = failure /\ invalid' = invalid
<1> DEFINE b == Lowest(todo)
<1>1. pc = "reapply" /\ pc \in Switching \ {"extend"} /\ pc \in Switching
  BY DEF ReapplyOld, Switching
<1>2. b \in todo /\ b \in Block /\ b # Genesis /\ prev[b] = head
  BY <1>1, NextOld
<1>3. CanApply(b)
  BY <1>1, <1>2, MayApply
<1>4. b \notin invalid
  <2>1. PICK s \in Valid(fdb) : branches.second \subseteq anc[s] /\ todo \subseteq branches.second
    BY <1>1 DEF CInv, OldBranch
  <2>2. b \in anc[s]
    BY <1>2, <2>1
  <2>3. QED
    BY <2>2 DEF Cleared, Clean
<1>5. QED
  BY <1>3, <1>4, Zenon DEF ReapplyOld, Throw, Goto, chain

(* log_irreversible finds the root and the log together, and in            *)
(* irreversible mode the chain state at the log's last block.              *)
LEMMA LoggingN ==
  ASSUME CInv, SInv, LogIrreversible \/ LogBlock
  PROVE  failure' = failure /\ invalid' = invalid
<1>1. CASE LogIrreversible
  <2>1. fdb.root = LogHead
    BY <1>1 DEF LogIrreversible, CInv, Rooted, Running, Logging
  <2>2. QED
    BY <1>1, <2>1, Zenon DEF LogIrreversible, Return, Goto, chain
<1>2. CASE LogBlock
  <2>1. pc = "log_block" /\ pc \in {"log"} \cup Logging
    BY <1>2 DEF LogBlock, Logging
  <2>2. mode = "IRREVERSIBLE" => CanApply(Lowest(todo))
    BY <2>1, InLogS DEF CanApply, StoresReversible, Stacked
  <2>3. QED
    BY <1>2, <2>2, Zenon DEF LogBlock, Throw, Goto, chain
<1>3. QED
  BY <1>1, <1>2

(* advance_root along the head's branch removes no head.                   *)
LEMMA MayAdvance ==
  ASSUME NEW d, Tree(d), NEW b \in d.index, b \in anc[d.head]
  PROVE  ~AdvanceThrows(d, b)
<1>1. F!DbOK(d) /\ d.head \in Block
  BY SameTree, AboveRoot
<1>2. ~F!AdvanceThrows(d, b)
  BY <1>1, F!AdvanceNeverThrows, SameAssumptions, Zenon
<1>3. F!AdvanceThrows(d, b) <=> AdvanceThrows(d, b)
  BY Zenon DEF F!AdvanceThrows, AdvanceThrows, F!BlocksToRemove, BlocksToRemove, F!RemoveThrows, RemoveThrows,
               F!RemoveQueue, RemoveQueue
<1>4. QED
  BY <1>2, <1>3

(* TrimReversible advances the root along the head's branch.               *)
LEMMA TrimN ==
  ASSUME CInv, SInv, TrimReversible
  PROVE  failure' = failure /\ invalid' = invalid
<1>1. pc = "trim" /\ pc \in Logging
  BY DEF TrimReversible, Logging
<1>2. /\ LogHead \in anc[head] /\ Tree(fdb) /\ LogHead \in Block /\ head \in Block
      /\ mode \in {"SPECULATIVE", "IRREVERSIBLE"}
      /\ mode = "IRREVERSIBLE" => fdb.head = LogHead
  BY <1>1, InLog
<1>3. LogHead \in fdb.index /\ (mode = "SPECULATIVE" => fdb.head = head)
  BY <1>1 DEF CInv, Appending
<1>4. LogHead \in anc[fdb.head]
  BY <1>2, <1>3, Ancestors
<1>5. ~AdvanceThrows(fdb, LogHead)
  BY <1>2, <1>3, <1>4, MayAdvance
<1>6. QED
  BY <1>5, Zenon DEF TrimReversible, Return, Goto

(* A block is built on the head's chain state, and becomes the head.       *)
LEMMA BuildingN ==
  ASSUME CInv, SInv, StartBlock \/ \E b \in Block \ {Genesis} : CommitBlock(b)
  PROVE  failure' = failure /\ invalid' = invalid
<1>1. CASE StartBlock
  <2>1. pc = "idle" /\ pending = "none"
    BY <1>1 DEF StartBlock
  <2>2. Revision(db) = num[head]
    BY <2>1, InIdleS DEF aborted, Stacked
  <2>3. QED
    BY <1>1, <2>2, Zenon DEF StartBlock, call
<1>2. ASSUME NEW b \in Block \ {Genesis}, CommitBlock(b) PROVE failure' = failure /\ invalid' = invalid
  <2>1. pc = "idle" /\ pending = "building" /\ Extends(b) /\ b \notin fdb.index
    BY <1>2, Zenon DEF CommitBlock
  <2>2. mark_valid(add(fdb, b), b).head = b /\ \A r \in reversible : num[r] # num[b]
    BY <2>1, CommittedHead
  <2>3. QED
    BY <1>2, <2>2, Zenon DEF CommitBlock, Goto
<1>3. QED
  BY <1>1, <1>2

(* Startup finds the fork database beside the chain state, no higher than  *)
(* the log.                                                                *)
LEMMA StartupN ==
  ASSUME CInv, SInv, NEW m \in Modes, Startup(m)
  PROVE  failure' = "none" /\ invalid' = invalid
<1>1. pc = "down"
  BY DEF Startup
<1>2. file = NoFile => db = NoState
  BY <1>1 DEF SInv, Off
<1>3. ASSUME file # NoFile PROVE ~(num[file.root] > num[LogHead])
  <2>1. Tree(file) /\ OnLog(file)
    BY <1>3 DEF CInv, Stored
  <2>2. LogHead \in Block /\ file.root \in Block
    BY <2>1, LogFacts, AboveRoot DEF CInv
  <2>3. num[LogHead] \in Nat /\ num[file.root] \in Nat
    BY <2>2, Ancestors
  <2>4. CASE file.root = LogHead
    BY <2>3, <2>4
  <2>5. CASE LogBlockOnly(file)
    BY <2>3, <2>5, OnlyLogBlock
  <2>6. QED
    BY <2>1, <2>4, <2>5 DEF OnLog, LogBlockOnly
<1>4. QED
  BY <1>2, <1>3, Zenon DEF Startup

(* ReplayLog finds no undo state: the head is below the log's last block,  *)
(* so the chain state is of a block of the log.                            *)
LEMMA ReplayLogN ==
  ASSUME CInv, SInv, NEW h \in Block, ReplayLog(h)
  PROVE  failure' = failure /\ invalid' = invalid
<1>1. pc = "replay_log" /\ pc \in Starting
  BY DEF ReplayLog, Starting
<1>2. Stacked(db, head) /\ (db.low = num[LogHead] \/ db.low = num[head])
  BY <1>1 DEF SInv, Rewound
<1>3. head \in Block /\ LogHead \in Block
  BY <1>1, InStart
<1>4. /\ Len(db.stack) = num[head] - db.low + 1 /\ Len(db.stack) >= 1 /\ Len(db.stack) \in Nat
      /\ num[head] \in Nat /\ num[LogHead] \in Nat
  BY <1>2, <1>3, StackTop, Ancestors
<1>5. num[head] < num[LogHead] => Len(db.stack) = 1
  BY <1>2, <1>4
<1>6. QED
  BY <1>5, Zenon DEF ReplayLog, Goto

(* ReplayReversible finds the child of the head.                           *)
LEMMA ReplayReversibleN ==
  ASSUME CInv, SInv, ReplayReversible
  PROVE  failure' = failure /\ invalid' = invalid
<1>1. pc = "replay" /\ pc \in Between
  BY DEF ReplayReversible, Between
<1>2. /\ mode \in {"SPECULATIVE", "IRREVERSIBLE"} /\ head \in Block
      /\ mode = "SPECULATIVE" => head = fdb.root \/ head \in Valid(fdb)
      /\ mode = "IRREVERSIBLE" => reversible = {}
  BY <1>1, InBetween
<1>3. ASSUME NEW r \in reversible, num[r] = num[head] + 1 PROVE Extends(r) /\ Known(fdb, head)
  <2>1. mode = "SPECULATIVE"
    BY <1>2, <1>3
  <2>2. PICK t \in Block : head \in anc[t] /\ reversible = Above(t, num[LogHead])
    BY <1>1, <2>1 DEF SInv, Replays, Replaying, Replayed, Floor
  <2>3. r \in anc[t]
    BY <1>3, <2>2 DEF Above
  <2>4. r # head /\ num[head] \in Nat
    BY <1>2, <1>3, Ancestors
  <2>5. head # t
    BY <1>2, <1>3, <2>3, <2>4, Ancestors
  <2>6. PICK c \in anc[t] : c # Genesis /\ prev[c] = head /\ num[c] = num[head] + 1
    BY <2>2, <2>5, NextOnBranch
  <2>7. r = c
    BY <1>3, <2>3, <2>6, OnOneBranch
  <2>8. QED
    BY <1>2, <2>1, <2>6, <2>7 DEF Extends, Known, Valid
<1>4. CASE \E r \in reversible : num[r] = num[head] + 1
  <2> DEFINE r == CHOOSE q \in reversible : num[q] = num[head] + 1
  <2>1. r \in reversible /\ num[r] = num[head] + 1
    BY <1>4
  <2>2. Extends(r) /\ Known(fdb, head)
    BY <1>3, <2>1
  <2>3. QED
    BY <1>4, <2>2, Zenon DEF ReplayReversible, maybe_switch_forks, Goto
<1>5. CASE ~\E r \in reversible : num[r] = num[head] + 1
  BY <1>5, Zenon DEF ReplayReversible, Goto
<1>6. QED
  BY <1>4, <1>5

(* Every step fails no assertion but the known ones.                       *)
LEMMA NextNeverFails ==
  /\ CInv /\ SInv /\ Cleared /\ Linked /\ Bottom /\ (invalid = {} => Good)
  /\ NeverFails /\ Unfailed /\ [Next]_vars
  => NeverFails'
<1> SUFFICES ASSUME CInv, SInv, Cleared, Linked, Bottom, invalid = {} => Good, NeverFails, Unfailed,
                    [Next]_vars
             PROVE  NeverFails'
  OBVIOUS
<1>1. cut' = cut \/ failure = "none" \/ InitController
  <2>1. ASSUME NEW h \in Block, ReplayLog(h) PROVE failure = "none"
    BY <2>1 DEF ReplayLog, Unfailed, Starting
  <2>2. QED
    BY <2>1, SameCut
<1>2. ASSUME failure' \in {failure, "none"} \/ (invalid # {} /\ failure' \in KnownFailures),
             invalid' = invalid, ~InitController
      PROVE  NeverFails'
  BY <1>1, <1>2, Unfailing
<1>3. CASE InitController
  <2>1. pc = "init" /\ invalid' = invalid /\ failure = "none"
    BY <1>3 DEF InitController, Unfailed, Starting
  <2>2. \/ InitCheck = "ok"
        \/ invalid # {} /\ InitCheck \in KnownFailures
        \/ cut /\ InitCheck = "fork database head is inconsistent with state"
    BY <2>1, InitChecks
  <2>3. failure' = failure \/ (InitCheck # "ok" /\ failure' = InitCheck /\ cut' = cut)
    BY <1>3, Zenon DEF InitController, Goto
  <2>4. QED
    BY <2>1, <2>2, <2>3, Unfailing
<1>4. ASSUME ~InitController
      PROVE  /\ failure' \in {failure, "none"} \/ (invalid # {} /\ failure' \in KnownFailures)
             /\ invalid' = invalid
  <2>1. CASE UNCHANGED vars
    BY <2>1 DEF vars
  <2>2. CASE Extend \/ PopOld \/ ApplyNew \/ ReapplyOld
    BY <2>2, ExtendN, PopOldN, ApplyNewN, ReapplyOldN
  <2>3. CASE PopNew
    <3>1. invalid # {}
      BY <2>3 DEF PopNew, Good, Switches
    <3>2. QED
      BY <2>3, <3>1, PopNewN
  <2>4. CASE LogIrreversible \/ LogBlock \/ TrimReversible
    BY <2>4, LoggingN, TrimN
  <2>5. CASE StartBlock \/ \E b \in Block \ {Genesis} : CommitBlock(b)
    BY <2>5, BuildingN
  <2>6. CASE \/ ReplayReversible \/ (\E h \in Block : ReplayLog(h)) \/ \E m \in Modes : Startup(m)
    BY <2>6, ReplayReversibleN, ReplayLogN, StartupN
  <2>7. CASE \/ AbortBlock \/ Shutdown \/ Crash \/ DeleteState \/ ApplyBest \/ QuitInit
             \/ \E b \in Block \ {Genesis} : PushBlock(b)
    BY <2>7, Zenon DEF AbortBlock, Shutdown, Crash, DeleteState, ApplyBest, QuitInit, PushBlock,
                       maybe_switch_forks, Goto, call, chain
  <2>8. QED
    BY <1>4, <2>1, <2>2, <2>3, <2>4, <2>5, <2>6, <2>7 DEF Next, Step
<1>5. QED
  BY <1>2, <1>3, <1>4

-----------------------------------------------------------------------------
(* The whole invariant and its theorems.                                   *)

(* What holds besides CInv and SInv; Good only while no block is invalid.  *)
RInv == Cleared /\ Linked /\ Bottom /\ NeverFails /\ Unfailed /\ (invalid = {} => Good)

(* Which blocks are invalid is settled once and for all.                   *)
LEMMA SameInvalid == [Next]_vars => invalid' = invalid
BY Zenon DEF Next, Step, PushBlock, StartBlock, AbortBlock, CommitBlock, Extend, PopOld, ApplyNew, PopNew,
   ReapplyOld, LogIrreversible, LogBlock, TrimReversible, Shutdown, Crash, DeleteState, Startup, InitController,
   ReplayLog, ReplayReversible, ApplyBest, QuitInit, vars, chain

(* A new node.                                                             *)
LEMMA InitRInv == Init => RInv
BY InitCleared, InitRest DEF RInv, Init, NeverFails, Unfailed

(* Every step preserves it.                                                *)
LEMMA NextRInv == CInv /\ SInv /\ CInv' /\ RInv /\ [Next]_vars => RInv'
<1> SUFFICES ASSUME CInv, SInv, CInv', RInv, [Next]_vars PROVE RInv'
  OBVIOUS
<1>1. Cleared /\ Linked /\ Bottom /\ NeverFails /\ Unfailed /\ (invalid = {} => Good)
  BY DEF RInv
<1>2. Cleared' /\ Linked' /\ Bottom' /\ Unfailed'
  BY <1>1, NextCleared, NextLinked, NextBottom, NextUnfailed
<1>3. NeverFails'
  BY <1>1, NextNeverFails
<1>4. (invalid = {} => Good)'
  BY <1>1, SameInvalid, NextGood
<1>5. QED
  BY <1>2, <1>3, <1>4 DEF RInv

(* No assertion of the controller fails as long as every block is valid,   *)
(* and with invalid blocks none but the known ones: no fork switch, trim   *)
(* or startup finds its stores in disagreement, for every tree of blocks   *)
(* and any order of blocks, crashes, requests to quit and restarts in      *)
(* either mode; but for init's check on the head when the start before was *)
(* told to quit between the log's last block and the reversible ones.      *)
THEOREM NoAssertionFails == Spec => []NeverFails
<1>1. RInv => NeverFails
  BY DEF RInv
<1>2. QED
  BY <1>1, InitCInv, NextCInv, InitSInv, NextSInv, InitRInv, NextRInv, PTL DEF Spec

(* No invalid block is ever the head, in the log, or validated in the fork *)
(* database, in memory or in its file: none is applied, however the switch *)
(* that met it was undone and the node restarted.                          *)
THEOREM InvalidKeptOut == Spec => []Cleared
<1>1. RInv => Cleared
  BY DEF RInv
<1>2. QED
  BY <1>1, InitCInv, NextCInv, InitSInv, NextSInv, InitRInv, NextRInv, PTL DEF Spec

(* Between calls the controller has applied the best branch it knows: in   *)
(* speculative mode no block of the fork database is on a better one, and  *)
(* with valid blocks only its head is the fork database's; in irreversible *)
(* mode it stands at the log's last block, and only an invalid block keeps *)
(* the pending head from making more of them irreversible.                 *)
THEOREM BestIsApplied == Spec => []BestBranchApplied
<1>1. ASSUME CInv, SInv, RInv, pc = "idle", mode = "SPECULATIVE"
      PROVE  /\ \A b \in fdb.index : lib[b] < lib[head] \/ (lib[b] = lib[head] /\ num[b] <= num[head])
             /\ invalid = {} => head = fdb.head /\ \A b \in fdb.index : ~first_preferred(b, head)
  <2>1. Top(head) /\ head \in Block /\ Tree(fdb)
    BY <1>1, InIdleS
  <2>2. fdb.index \subseteq Block
    BY <2>1 DEF Tree, ForkDb
  <2>3. \A b \in fdb.index : lib[b] < lib[head] \/ (lib[b] = lib[head] /\ num[b] <= num[head])
    BY <2>1, <2>2, NotPreferred DEF Top
  <2>4. invalid = {} => head = fdb.head
    BY <1>1 DEF RInv, Good, Switches, Settled
  <2>5. QED
    BY <2>1, <2>3, <2>4 DEF Top
<1>2. ASSUME CInv, SInv, RInv, pc = "idle", mode = "IRREVERSIBLE"
      PROVE  head = LogHead /\ (lib[pending_head(fdb)] > num[LogHead] => invalid # {})
  <2>1. head = LogHead /\ fdb.root = LogHead /\ LogHead \in Block /\ Tree(fdb)
    BY <1>2, InIdleS
  <2> SUFFICES ASSUME invalid = {} PROVE ~(lib[pending_head(fdb)] > num[LogHead])
    BY <2>1
  <2>2. Low(fdb.index)
    BY <1>2 DEF RInv, Good, Drained, Between
  <2>3. pending_head(fdb) \in fdb.index \/ pending_head(fdb) = LogHead
    BY <2>1, PendingTree
  <2>4. fdb.index \subseteq Block
    BY <2>1 DEF Tree, ForkDb
  <2>5. lib[LogHead] <= num[LogHead] /\ \A c \in Block : lib[c] \in Nat /\ num[c] \in Nat
    BY <2>1, Ancestors, LibBelow
  <2>6. pending_head(fdb) \in Block
    BY <2>1, <2>3, <2>4
  <2>7. lib[pending_head(fdb)] <= num[LogHead]
    BY <2>2, <2>3, <2>5 DEF Low
  <2>8. lib[pending_head(fdb)] \in Nat /\ num[LogHead] \in Nat
    BY <2>1, <2>5, <2>6
  <2>9. QED
    BY <2>7, <2>8
<1>3. CInv /\ SInv /\ RInv => BestBranchApplied
  BY <1>1, <1>2 DEF BestBranchApplied
<1>4. QED
  BY <1>3, InitCInv, NextCInv, InitSInv, NextSInv, InitRInv, NextRInv, PTL DEF Spec

(* A node that was shut down and is started again in the same mode, its    *)
(* files intact, resumes at the head it stopped at, unless it has met an   *)
(* invalid block or was told to quit before its reversible blocks were     *)
(* replayed.                                                               *)
THEOREM HeadKept == Spec => RestartKeepsHead
<1>1. ASSUME RInv, [Next]_vars, pc = "down", pc' = "init", mode' = mode, db' = db, file # NoFile,
             invalid = {}, ~cut
      PROVE  head' = head
  <2>1. \E m \in Modes : Startup(m)
    BY <1>1, Zenon DEF Next, Step, PushBlock, StartBlock, AbortBlock, CommitBlock, Extend, PopOld, ApplyNew, PopNew,
       ReapplyOld, LogIrreversible, LogBlock, TrimReversible, Shutdown, Crash, DeleteState, InitController,
       ReplayLog, ReplayReversible, ApplyBest, QuitInit, Goto, vars
  <2>2. PICK m \in Modes : Startup(m)
    BY <2>1
  <2>3. m = mode
    BY <1>1, <2>2 DEF Startup
  <2> DEFINE d == IF m = "IRREVERSIBLE" /\ file.head # file.root THEN rollback_head_to_root(file) ELSE file
  <2>4. /\ head' = IF db = NoState THEN Genesis ELSE d.head
        /\ db' = IF db = NoState THEN Db(num[Genesis], <<Genesis>>) ELSE db
    <3>1. pc' # "failed"
      BY <1>1
    <3>2. QED
      BY <1>1, <2>2, <3>1, Zenon DEF Startup, Fail, Goto
  <2>5. db # NoState
    <3>1. Db(num[Genesis], <<Genesis>>) \in [low : Nat, stack : Seq(Block)]
      BY TreeAssumption, NumAssumption, Ancestors DEF Db
    <3>2. QED
      BY <1>1, <2>4, <3>1, ControllerAssumption
  <2>6. head = file.head /\ (mode = "IRREVERSIBLE" => file.head = file.root)
    BY <1>1, <2>5 DEF RInv, Good, Whole
  <2>7. d = file
    BY <2>3, <2>6
  <2>8. QED
    BY <2>4, <2>5, <2>6, <2>7
<1>2. RInv /\ [Next]_vars =>
        [pc = "down" /\ pc' = "init" /\ mode' = mode /\ db' = db /\ file # NoFile =>
            head' = head \/ invalid # {} \/ cut]_vars
  BY <1>1
<1>3. QED
  BY <1>2, InitCInv, NextCInv, InitSInv, NextSInv, InitRInv, NextRInv, PTL DEF Spec, RestartKeepsHead
=============================================================================
