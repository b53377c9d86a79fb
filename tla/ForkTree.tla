------------------------------ MODULE ForkTree ------------------------------
(***************************************************************************)
(* The operations of chain::fork_database as functions from a fork         *)
(* database to the fork database they leave behind, over a fixed tree of   *)
(* signed blocks.  A fork database is a record                             *)
(*   index      the blocks in the multi_index (root not among them)        *)
(*   validated  the blocks whose validated flag is set                     *)
(*   root       the last irreversible block                                *)
(*   head       the best validated block                                   *)
(* A block's parent, number and dpos_irreversible_blocknum are fixed by    *)
(* its content, so they are constants; anc[b] is the set of the block and  *)
(* its ancestors; rank is the order of the 256-bit ids.                    *)
(***************************************************************************)
EXTENDS Integers

CONSTANTS Block,     \* every block that may be received or produced
          Genesis,   \* the block the chain starts from
          prev,      \* header.previous
          num,       \* block_num
          lib,       \* dpos_irreversible_blocknum
          rank,      \* position of the id under sha256_less
          anc,       \* ancestors of a block, itself included
          MaxNum     \* bound: the largest block number (2^32 - 1 in the code)

(* Blocks form a tree by hash links, numbered from the genesis block.      *)
ASSUME TreeAssumption ==
  /\ Genesis \in Block
  /\ prev \in [Block \ {Genesis} -> Block]
  /\ anc \in [Block -> SUBSET Block]
  /\ anc[Genesis] = {Genesis}
  /\ \A b \in Block \ {Genesis} : anc[b] = {b} \cup anc[prev[b]]
  /\ \A b \in Block : \A c \in anc[b] : anc[c] \subseteq anc[b]
  /\ \A b \in Block : \A c, e \in anc[b] : c \in anc[e] \/ e \in anc[c]

ASSUME NumAssumption ==
  /\ MaxNum \in Nat
  /\ num \in [Block -> 0 .. MaxNum]
  /\ lib \in [Block -> 0 .. MaxNum]
  /\ rank \in [Block -> Nat]
  /\ \A b \in Block \ {Genesis} : num[b] = num[prev[b]] + 1
  /\ \A b \in Block : \A c \in anc[b] : c # b => num[c] < num[b]
  /\ \A b, c \in Block : rank[b] = rank[c] => b = c

(* dpos_irreversible_blocknum does not decrease along a branch.            *)
ASSUME LibAssumption == \A b \in Block : \A c \in anc[b] : lib[c] <= lib[b]

(* A fork database.                                                        *)
ForkDb == [index : SUBSET Block, validated : SUBSET Block, root : Block, head : Block]

first_preferred(a, b) ==
  \/ lib[a] > lib[b]
  \/ lib[a] = lib[b] /\ num[a] > num[b]

(* b comes first among S under by_lib_block_num, validity aside.           *)
Foremost(b, S) ==
  \A c \in S \ {b} :
     first_preferred(b, c) \/ (~first_preferred(c, b) /\ rank[b] < rank[c])

Best(S) == CHOOSE b \in S : Foremost(b, S)

Valid(d) == d.index \cap d.validated
Unvalidated(d) == d.index \ d.validated

-----------------------------------------------------------------------------
(* Lookups.                                                                *)

(* get_block_header finds a block in the index or at the root.             *)
Known(d, b) == b = d.root \/ b \in d.index

pending_head(d) ==
  IF Unvalidated(d) # {} /\ first_preferred(Best(Unvalidated(d)), d.head)
  THEN Best(Unvalidated(d))
  ELSE d.head

(* The blocks reached from h along header.previous while they are in the   *)
(* index; the caller gets them in descending order of block number.        *)
fetch_branch(d, h) ==
  {b \in d.index : b \in anc[h] /\ h \in d.index /\ anc[h] \ anc[b] \subseteq d.index}

(* Both branches down to, and without, the last common ancestor.           *)
fetch_branch_from(d, first, second) ==
  [first |-> anc[first] \ anc[second], second |-> anc[second] \ anc[first]]

-----------------------------------------------------------------------------
(* Changes.                                                                *)

reset(b) == [index |-> {}, validated |-> {b}, root |-> b, head |-> b]

rollback_head_to_root(d) == [d EXCEPT !.validated = {d.root}, !.head = d.root]

(* add of a block that links and is not in the index yet.  The head is set *)
(* to the first valid block even if the old head is ranked equally.        *)
add(d, b) ==
  LET e == [d EXCEPT !.index = @ \cup {b}]
  IN [e EXCEPT !.head = IF Valid(e) = {} THEN @ ELSE Best(Valid(e))]

(* Faulty variant of mark_valid: the head is not reconsidered.             *)
mark_valid_same_head(d, b) == [d EXCEPT !.validated = @ \cup {b}]

(* Faulty variant of mark_valid: the block just validated becomes head.    *)
mark_valid_takes_head(d, b) ==
  IF b \in d.validated THEN d
  ELSE [d EXCEPT !.validated = @ \cup {b}, !.head = b]

mark_valid(d, b) ==
  LET e == [d EXCEPT !.validated = @ \cup {b}]
  IN IF b \in d.validated THEN d
     ELSE [e EXCEPT !.head = IF first_preferred(Best(Valid(e)), @)
                             THEN Best(Valid(e)) ELSE @]

(* Faulty variant of RemoveQueue: children, but not their descendants.     *)
RemoveQueue_children(d, b) ==
  {b} \cup {c \in d.index : c # Genesis /\ prev[c] = b}

(* The queue of remove: b and what is reached from it over by_prev.        *)
RemoveQueue(d, b) ==
  {b} \cup {c \in d.index : b \in anc[c] /\ anc[c] \ anc[b] \subseteq d.index}

RemoveThrows(d, b) == d.head \in RemoveQueue(d, b)

Without(d, S) == [d EXCEPT !.index = @ \ S, !.validated = @ \ (S \cap d.index)]

remove(d, b) == Without(d, RemoveQueue(d, b))

(* advance_root: the new root leaves the index alone, then each block      *)
(* below it, down to the old root, is removed with its descendants.        *)
BlocksToRemove(d, b) == (anc[b] \ {b}) \cap (d.index \cup {d.root})

AdvanceThrows(d, b) ==
  LET e == [d EXCEPT !.index = @ \ {b}]
  IN \E p \in BlocksToRemove(d, b) : RemoveThrows(e, p)

advance_root(d, b) ==
  LET e == [d EXCEPT !.index = @ \ {b}]
      gone == UNION {RemoveQueue(e, p) : p \in BlocksToRemove(d, b)}
  IN [Without(e, gone) EXCEPT !.root = b, !.validated = @ \ {d.root}]

=============================================================================
