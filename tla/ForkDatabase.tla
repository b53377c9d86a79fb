---------------------------- MODULE ForkDatabase ----------------------------
(***************************************************************************)
(* chain::fork_database as a state machine: blocks arrive in any order     *)
(* that links, are found valid or are removed with everything built on     *)
(* them, the root advances along the head's branch, and a shutdown writes  *)
(* fork_db.dat, from which the next start rebuilds the database.           *)
(*                                                                         *)
(* Callers keep one contract, that of controller_impl::log_irreversible:   *)
(* the root advances only to a valid block on the branch of the head.      *)
(***************************************************************************)
EXTENDS ForkTree

CONSTANT NoFile      \* fork_db.dat does not exist

ASSUME FileAssumption == NoFile \notin ForkDb

VARIABLES fdb,       \* the fork database
          file,      \* fork_db.dat
          status     \* "open", "closed", or "threw" after a failed assertion

vars == <<fdb, file, status>>

Init ==
  /\ fdb = reset(Genesis)
  /\ file = NoFile
  /\ status = "open"

(* A block not seen before, linking to a known one, arrives.               *)
Add(b) ==
  /\ status = "open"
  /\ b # Genesis /\ Known(fdb, prev[b])
  /\ b \notin fdb.index
  /\ fdb' = add(fdb, b)
  /\ UNCHANGED <<file, status>>

MarkValid(b) ==
  /\ status = "open"
  /\ b \in fdb.index
  /\ fdb' = mark_valid(fdb, b)
  /\ UNCHANGED <<file, status>>

(* An invalid block goes; the call throws, changing nothing, if the head   *)
(* would go with it.                                                       *)
Remove(b) ==
  /\ status = "open"
  /\ b \in fdb.index
  /\ ~RemoveThrows(fdb, b)
  /\ fdb' = remove(fdb, b)
  /\ UNCHANGED <<file, status>>

AdvanceRoot(b) ==
  /\ status = "open"
  /\ b \in Valid(fdb) /\ b \in anc[fdb.head]
  /\ IF AdvanceThrows(fdb, b)
     THEN status' = "threw" /\ UNCHANGED fdb
     ELSE fdb' = advance_root(fdb, b) /\ UNCHANGED status
  /\ UNCHANGED file

RollbackHeadToRoot ==
  /\ status = "open"
  /\ fdb' = rollback_head_to_root(fdb)
  /\ UNCHANGED <<file, status>>

(* Faulty variant of WrittenBefore: best blocks first, in index order.     *)
WrittenBefore_index_order(d, a, b) ==
  \/ first_preferred(a, b)
  \/ /\ ~first_preferred(b, a)
     /\ IF a \in d.validated THEN b \notin d.validated \/ rank[b] < rank[a]
        ELSE b \notin d.validated /\ rank[b] < rank[a]

(* The order in which close writes the blocks: the validated and the       *)
(* unvalidated part of the index, each backwards, merged by preference.    *)
WrittenBefore(d, a, b) ==
  \/ first_preferred(b, a)
  \/ /\ ~first_preferred(a, b)
     /\ IF a \in d.validated THEN b \notin d.validated \/ rank[b] < rank[a]
        ELSE b \notin d.validated /\ rank[b] < rank[a]

Close ==
  /\ status = "open"
  /\ file' = fdb
  /\ fdb' = [fdb EXCEPT !.index = {}, !.validated = {fdb.root}]
  /\ status' = "closed"

(* open adds the blocks in the order they were written, so each must find  *)
(* its parent, and then checks the head against the best valid block.      *)
OpenSucceeds(d) ==
  /\ \A b \in d.index : \/ prev[b] = d.root
                        \/ prev[b] \in d.index /\ WrittenBefore(d, prev[b], b)
  /\ Known(d, d.head)
  /\ IF Valid(d) = {} THEN d.head = d.root
     ELSE ~first_preferred(Best(Valid(d)), d.head)

Open ==
  /\ status = "closed" /\ file # NoFile
  /\ IF OpenSucceeds(file)
     THEN fdb' = file /\ file' = NoFile /\ status' = "open"
     ELSE status' = "threw" /\ UNCHANGED <<fdb, file>>

(* A crash leaves no fork_db.dat; the controller resets the database to    *)
(* the last block of the block log, which is the root.                     *)
CrashAndReset ==
  /\ status = "open"
  /\ fdb' = reset(fdb.root)
  /\ UNCHANGED <<file, status>>

Next ==
  \/ \E b \in Block : Add(b)
  \/ \E b \in Block : MarkValid(b)
  \/ \E b \in Block : Remove(b)
  \/ \E b \in Block : AdvanceRoot(b)
  \/ RollbackHeadToRoot
  \/ Close
  \/ Open
  \/ CrashAndReset

Spec == Init /\ [][Next]_vars

-----------------------------------------------------------------------------
(* Properties.                                                             *)

(* The types of the members and of fork_db.dat; the validated flags are    *)
(* those of the blocks in memory, the root's among them.                   *)
TypeOK ==
  /\ fdb \in ForkDb
  /\ fdb.root \in fdb.validated /\ fdb.validated \subseteq fdb.index \cup {fdb.root}
  /\ file \in ForkDb \cup {NoFile}
  /\ status \in {"open", "closed", "threw"}

(* Every block of the index hangs on the root by blocks of the index: no   *)
(* orphaned branch survives remove or advance_root.                        *)
LinkedTo(d) ==
  /\ d.root \notin d.index
  /\ \A b \in d.index : d.root \in anc[b] /\ anc[b] \ anc[d.root] \subseteq d.index
Linked == LinkedTo(fdb)

(* The head is the root or a validated block, and no validated block is    *)
(* preferred to it, however blocks arrive, are validated and removed.      *)
BestHead(d) ==
  /\ d.head = d.root \/ d.head \in Valid(d)
  /\ \A b \in Valid(d) : ~first_preferred(b, d.head)
HeadIsBest == status = "open" => BestHead(fdb)

(* pending_head returns a block that no block of the database, validated   *)
(* or not, is preferred to: what maybe_switch_forks switches to.           *)
PendingHeadIsBest ==
  status = "open" => \A b \in fdb.index : ~first_preferred(b, pending_head(fdb))

(* Advancing the root along the head's branch never meets the assertion    *)
(* that would stop it half way, and a database written by close is always  *)
(* accepted by open: parents precede children in the file.                 *)
NeverThrows == status # "threw"

(* The root only moves to a descendant of the old root that the head       *)
(* descends from: an irreversible block is never given up.                 *)
RootAdvances ==
  [][fdb.root \in anc[fdb'.root] /\ (status' = "open" => fdb'.root \in anc[fdb'.head])]_vars

(* The head never moves to a less preferred block, except when all the     *)
(* validation is thrown away.                                              *)
HeadNotWorse ==
  [][\/ ~first_preferred(fdb.head, fdb'.head)
     \/ Valid(fdb') = {} /\ fdb'.head = fdb'.root]_vars
=============================================================================
