----------------------------- MODULE Controller -----------------------------
(***************************************************************************)
(* controller_impl: how blocks reach the chain.  A block is added to the   *)
(* fork database; if the best branch changed, blocks are popped and        *)
(* applied until the controller's head is that branch's last block; what   *)
(* became irreversible moves to the block log.  Five stores must agree:    *)
(* the fork database, the controller's head, the chain state with its undo *)
(* stack, the reversible-blocks database and the block log.                *)
(*                                                                         *)
(* A call of push_block, commit_block or startup runs to its end on the    *)
(* main thread.  Its steps are separate actions, ordered by pc, because    *)
(* the process may die between any two of them.                            *)
(***************************************************************************)
EXTENDS ForkTree, Sequences

CONSTANTS InvalidSets, \* the blocks that fail in apply_block: one of these sets
          Modes,     \* the read modes the node is started in
          Scratch,   \* the chain state while a block is being built
          NoState,   \* shared_memory.bin does not exist
          NoFile     \* fork_db.dat does not exist

ASSUME ControllerAssumption ==
  /\ InvalidSets \subseteq SUBSET (Block \ {Genesis})
  /\ Modes \subseteq {"SPECULATIVE", "IRREVERSIBLE"}
  /\ Scratch \notin Block
  /\ NoState \notin [low : Nat, stack : Seq(Block)]
  /\ NoFile \notin ForkDb

(* What a block makes irreversible is a block of its own branch, and the   *)
(* block itself at most.                                                   *)
ASSUME LibBelow == \A b \in Block : lib[b] <= num[b]

VARIABLES invalid,   \* the blocks that fail in apply_block, always the same
          mode,      \* read_mode
          fdb,       \* fork_db
          head,      \* head
          db,        \* chainbase: the states that can be returned to, the current one last
          pending,   \* "none" or "building"
          reversible,\* reversible_blocks
          blog,      \* the block log
          file,      \* fork_db.dat
          pc,        \* the next step of the running call, "idle" or "down"
          ret,       \* where the running maybe_switch_forks or log_irreversible was called
          branches,  \* the result of fetch_branch_from in maybe_switch_forks
          todo,      \* the blocks the running loop has still to visit
          failure,   \* the assertion that failed, if any
          cut        \* history: the last start was told to quit once the log was
                     \* replayed, before the reversible blocks were

chain == <<invalid, mode, fdb, head, db, pending, reversible, blog, file, cut>>
call == <<pc, ret, branches, todo, failure>>
vars == <<invalid, mode, fdb, head, db, pending, reversible, blog, file, pc, ret, branches, todo, failure, cut>>

-----------------------------------------------------------------------------
(* The chain state (chainbase::database).  stack holds one state per       *)
(* revision, from the oldest that can be returned to up to the current.    *)

Db(low, stack) == [low |-> low, stack |-> stack]
Revision(d) == d.low + Len(d.stack) - 1
Current(d) == d.stack[Len(d.stack)]

push_session(d, state) == [d EXCEPT !.stack = Append(@, state)]

undo(d) == IF Len(d.stack) = 1 THEN d
           ELSE [d EXCEPT !.stack = SubSeq(@, 1, Len(@) - 1)]

commit(d, n) ==
  LET k == IF n < Revision(d) THEN n - d.low ELSE Len(d.stack) - 1
  IN IF n <= d.low THEN d ELSE Db(d.low + k, SubSeq(d.stack, k + 1, Len(d.stack)))

(* abort_block: the session of the pending block is undone.                *)
aborted(d) == IF pending = "building" THEN undo(d) ELSE d

-----------------------------------------------------------------------------
LogHead == blog[Len(blog)]

Lowest(S) == CHOOSE b \in S : \A c \in S : num[b] <= num[c]
Highest(S) == CHOOSE b \in S : \A c \in S : num[c] <= num[b]

(* search_on_branch: the block numbered n on the branch that ends in h.    *)
OnBranch(d, h, n) == {b \in fetch_branch(d, h) : num[b] = n}

(* An assertion of a running call fails: the process goes no further.      *)
Fail(what) == failure' = what /\ pc' = "failed" /\ UNCHANGED <<ret, branches, todo>>

Goto(label) == pc' = label /\ UNCHANGED failure

NoBranches == [first |-> {}, second |-> {}]

(* The locals of a call are gone when it ends.                             *)
Leave == branches' = NoBranches /\ todo' = {}

(* The running call ends normally.                                         *)
Return == Goto(ret) /\ Leave /\ UNCHANGED ret

(* The running call ends with an exception.  From push_block it goes to    *)
(* the caller, who drops the block; from startup it ends the process,      *)
(* whose destructors write fork_db.dat.                                    *)
Throw(d) ==
  /\ IF ret = "idle" THEN Goto("idle") /\ UNCHANGED file
     ELSE Goto("down") /\ file' = d
  /\ Leave /\ UNCHANGED ret

(* The entry of maybe_switch_forks(new) with fork database d.              *)
Extends(b) == b # Genesis /\ prev[b] = head

maybe_switch_forks(d, new, from) ==
  LET both == fetch_branch_from(d, new, head)
  IN \/ /\ Extends(new)
        /\ Goto("extend") /\ todo' = {new} /\ ret' = from /\ UNCHANGED branches
     \/ /\ new # head /\ ~Extends(new)
        /\ branches' = both /\ ret' = from
        /\ IF both.second = {} THEN Goto("apply") /\ todo' = both.first
           ELSE Goto("pop") /\ todo' = both.second
     \/ new = head /\ Goto(from) /\ ret' = from /\ Leave

-----------------------------------------------------------------------------
(* apply_block and pop_block.                                              *)

(* No reversible block is stored while the stored ones are replayed, and   *)
(* none in irreversible mode.                                              *)
StoresReversible == mode # "IRREVERSIBLE" /\ ret # "replay"

(* What start_block and the unique index of reversible_blocks require.     *)
CanApply(b) ==
  /\ Revision(db) = num[head]
  /\ StoresReversible => \A r \in reversible : num[r] # num[b]

apply_block(b) ==
  /\ db' = push_session(db, b)
  /\ reversible' = IF StoresReversible THEN reversible \cup {b} ELSE reversible
  /\ head' = b

(* pop_block throws when it would go below the root of the fork database.  *)
CanPop == head # Genesis /\ Known(fdb, prev[head])

(* Faulty variant of pop_block: the reversible block is left behind.       *)
pop_block_keeps_reversible ==
  /\ head' = prev[head]
  /\ db' = undo(db)
  /\ UNCHANGED reversible

pop_block ==
  /\ head' = prev[head]
  /\ db' = undo(db)
  /\ reversible' = {r \in reversible : num[r] # num[head]}

-----------------------------------------------------------------------------
(* The node is running.                                                    *)

(* Faulty variant of PushBlock: only validated blocks are considered.      *)
PushBlock_validated(b) ==
  /\ pc = "idle"
  /\ b \notin fdb.index \cup {blog[i] : i \in 1 .. Len(blog)}
  /\ Known(fdb, prev[b])
  /\ db' = aborted(db) /\ pending' = "none"
  /\ fdb' = add(fdb, b)
  /\ maybe_switch_forks(fdb', fdb'.head, "idle")
  /\ UNCHANGED <<invalid, cut, mode, head, reversible, blog, file>>

(* on_incoming_block: the pending block is aborted, then push_block.       *)
PushBlock(b) ==
  /\ pc = "idle"
  /\ b \notin fdb.index \cup {blog[i] : i \in 1 .. Len(blog)}
  /\ Known(fdb, prev[b])
  /\ db' = aborted(db) /\ pending' = "none"
  /\ fdb' = add(fdb, b)
  /\ IF mode = "IRREVERSIBLE"
     THEN Goto("log") /\ ret' = "idle" /\ UNCHANGED <<branches, todo>>
     ELSE maybe_switch_forks(fdb', pending_head(fdb'), "idle")
  /\ UNCHANGED <<invalid, cut, mode, head, reversible, blog, file>>

StartBlock ==
  /\ pc = "idle" /\ pending = "none" /\ mode = "SPECULATIVE"
  /\ IF Revision(db) = num[head]
     THEN db' = push_session(db, Scratch) /\ pending' = "building" /\ UNCHANGED call
     ELSE Fail("db revision is not on par with head block") /\ UNCHANGED <<db, pending>>
  /\ UNCHANGED <<invalid, cut, mode, fdb, head, reversible, blog, file>>

AbortBlock ==
  /\ pc = "idle" /\ pending = "building"
  /\ db' = aborted(db) /\ pending' = "none"
  /\ UNCHANGED <<invalid, cut, mode, fdb, head, reversible, blog, file, call>>

(* finalize_block and commit_block(true) turn the pending block into b.    *)
(* Its session is pushed at the end, after log_irreversible.               *)
CommitBlock(b) ==
  LET d == mark_valid(add(fdb, b), b)
  IN /\ pc = "idle" /\ pending = "building"
     /\ Extends(b) /\ b \notin fdb.index \cup invalid
     /\ IF d.head = b /\ \A r \in reversible : num[r] # num[b]
        THEN /\ fdb' = d /\ head' = d.head
             /\ reversible' = reversible \cup {b}
             /\ db' = push_session(undo(db), b) /\ pending' = "none"
             /\ Goto("log") /\ ret' = "idle" /\ UNCHANGED <<branches, todo>>
        ELSE /\ Fail("committed block did not become the new head in fork database")
             /\ UNCHANGED <<fdb, head, reversible, db, pending>>
     /\ UNCHANGED <<invalid, cut, mode, blog, file>>

-----------------------------------------------------------------------------
(* The steps of maybe_switch_forks.                                        *)

(* The new head is a child of the old one.                                 *)
Extend ==
  /\ pc = "extend"
  /\ \E b \in todo :
       IF b \in invalid
       THEN IF RemoveThrows(fdb, b)
            THEN Fail("cannot remove the block that was not applied") /\ UNCHANGED chain
            ELSE /\ fdb' = remove(fdb, b)
                 /\ Throw(fdb')
                 /\ UNCHANGED <<invalid, cut, mode, head, db, pending, reversible, blog>>
       ELSE IF CanApply(b)
            THEN /\ apply_block(b)
                 /\ fdb' = mark_valid(fdb, b)
                 /\ Goto("log") /\ UNCHANGED <<ret, branches, todo>>
                 /\ UNCHANGED <<invalid, cut, mode, pending, blog, file>>
            ELSE Fail("db revision is not on par with head block") /\ UNCHANGED chain

(* One block of the old branch is popped; after the last one the head      *)
(* must be where the branches part.                                        *)
PopOld ==
  /\ pc = "pop"
  /\ IF ~CanPop
     THEN Fail("attempt to pop beyond last irreversible block") /\ UNCHANGED chain
     ELSE /\ pop_block
          /\ IF todo # {Highest(todo)}
             THEN /\ Goto("pop") /\ todo' = todo \ {Highest(todo)}
                  /\ UNCHANGED <<ret, branches>>
             ELSE IF head' = prev[Lowest(branches.second)]
             THEN Goto("apply") /\ todo' = branches.first /\ UNCHANGED <<ret, branches>>
             ELSE Fail("loss of sync between fork_db and chainbase during fork switch")
          /\ UNCHANGED <<invalid, cut, mode, fdb, pending, blog, file>>

(* Where the reversal of a switch goes once the new branch is gone: with   *)
(* nothing popped, branches.second.back() reads an empty vector.           *)
Reversed(h) ==
  IF branches.second = {}
  THEN Fail("branches.second.back() of an empty branch")
  ELSE IF h = prev[Lowest(branches.second)]
  THEN Goto("reapply") /\ todo' = branches.second /\ UNCHANGED <<ret, branches>>
  ELSE Fail("loss of sync between fork_db and chainbase during fork switch reversal")

(* One block of the new branch is applied, or fails and is removed.        *)
ApplyNew ==
  /\ pc = "apply"
  /\ LET b == Lowest(todo)
         applied == {c \in branches.first : num[c] < num[b]}
     IN IF b \in invalid
        THEN IF RemoveThrows(fdb, b)
             THEN Fail("cannot remove the block that was not applied") /\ UNCHANGED chain
             ELSE /\ fdb' = remove(fdb, b)
                  /\ IF applied = {} THEN Reversed(head)
                     ELSE Goto("unapply") /\ todo' = applied /\ UNCHANGED <<ret, branches>>
                  /\ UNCHANGED <<invalid, cut, mode, head, db, pending, reversible, blog, file>>
        ELSE IF CanApply(b)
             THEN /\ apply_block(b)
                  /\ fdb' = mark_valid(fdb, b)
                  /\ Goto(IF todo = {b} THEN "log" ELSE "apply")
                  /\ todo' = todo \ {b} /\ UNCHANGED <<ret, branches>>
                  /\ UNCHANGED <<invalid, cut, mode, pending, blog, file>>
             ELSE Fail("db revision is not on par with head block") /\ UNCHANGED chain

(* A block of the new branch failed: those before it are popped again.     *)
PopNew ==
  /\ pc = "unapply"
  /\ IF ~CanPop
     THEN Fail("attempt to pop beyond last irreversible block") /\ UNCHANGED chain
     ELSE /\ pop_block
          /\ IF todo # {Highest(todo)}
             THEN /\ Goto("unapply") /\ todo' = todo \ {Highest(todo)}
                  /\ UNCHANGED <<ret, branches>>
             ELSE Reversed(head')
          /\ UNCHANGED <<invalid, cut, mode, fdb, pending, blog, file>>

(* Faulty variant of ReapplyOld: it stops after one block.                 *)
ReapplyOld_first ==
  /\ pc = "reapply"
  /\ apply_block(Lowest(todo))
  /\ Throw(fdb)
  /\ UNCHANGED <<invalid, cut, mode, fdb, pending, blog>>

(* The popped blocks of the old branch are applied again, then the         *)
(* exception goes on.                                                      *)
ReapplyOld ==
  /\ pc = "reapply"
  /\ LET b == Lowest(todo)
     IN IF CanApply(b) /\ b \notin invalid
        THEN /\ apply_block(b)
             /\ IF todo = {b} THEN Throw(fdb)
                ELSE Goto("reapply") /\ todo' = todo \ {b} /\ UNCHANGED <<ret, branches, file>>
             /\ UNCHANGED <<invalid, cut, mode, fdb, pending, blog>>
        ELSE Fail("db revision is not on par with head block") /\ UNCHANGED chain

-----------------------------------------------------------------------------
(* log_irreversible.                                                       *)

ForkHead == IF mode = "IRREVERSIBLE" THEN pending_head(fdb) ELSE fdb.head

LogIrreversible ==
  /\ pc = "log"
  /\ IF fdb.root # LogHead
     THEN Fail("fork database root does not match block log head")
     ELSE IF lib[ForkHead] <= num[LogHead] THEN Return
     ELSE /\ todo' = {b \in fetch_branch(fdb, ForkHead) : num[b] <= lib[ForkHead]}
          /\ Goto("log_block") /\ UNCHANGED <<ret, branches>>
  /\ UNCHANGED chain

(* Faulty variant of advanced: the blocks logged before the failure are    *)
(* not made the root.                                                      *)
not_advanced(d, b) == d

(* advance_root, if the last block logged is not the root already.         *)
advanced(d, b) == IF b = d.root THEN d ELSE advance_root(d, b)

(* Faulty variant of LogBlock: the branch is walked newest first.          *)
LogBlock_newest_first ==
  /\ pc = "log_block"
  /\ blog' = Append(blog, Highest(todo))
  /\ db' = commit(db, num[Highest(todo)])
  /\ Goto("trim") /\ UNCHANGED <<ret, branches, todo>>
  /\ UNCHANGED <<invalid, cut, mode, head, fdb, pending, reversible, file>>

(* The next block of the branch: applied now in irreversible mode, then    *)
(* committed and appended.  If it fails the root advances to the last      *)
(* block that was logged.                                                  *)
LogBlock ==
  /\ pc = "log_block"
  /\ LET b == Lowest(todo)
         applies == mode = "IRREVERSIBLE"
     IN IF applies /\ b \in invalid
        THEN /\ fdb' = advanced(fdb, LogHead)
             /\ Throw(fdb')
             /\ UNCHANGED <<invalid, cut, mode, head, db, pending, reversible, blog>>
        ELSE IF applies /\ ~CanApply(b)
        THEN Fail("db revision is not on par with head block") /\ UNCHANGED chain
        ELSE /\ IF applies
                THEN head' = b /\ fdb' = mark_valid(fdb, b)
                ELSE UNCHANGED <<head, fdb>>
             /\ db' = commit(IF applies THEN push_session(db, b) ELSE db, num[b])
             /\ blog' = Append(blog, b)
             /\ Goto("trim") /\ UNCHANGED <<ret, branches, todo>>
             /\ UNCHANGED <<invalid, cut, mode, pending, reversible, file>>

(* The reversible blocks up to the appended one go; after the last block   *)
(* of the branch the root advances.                                        *)
TrimReversible ==
  /\ pc = "trim"
  /\ reversible' = {r \in reversible : num[r] > num[LogHead]}
  /\ IF todo # {Lowest(todo)}
     THEN /\ Goto("log_block") /\ todo' = todo \ {Lowest(todo)}
          /\ UNCHANGED <<ret, branches, fdb>>
     ELSE IF AdvanceThrows(fdb, LogHead)
     THEN Fail("advance_root would remove the head") /\ UNCHANGED fdb
     ELSE fdb' = advanced(fdb, LogHead) /\ Return
  /\ UNCHANGED <<invalid, cut, mode, head, db, pending, blog, file>>

-----------------------------------------------------------------------------
(* The node stops and starts.                                              *)

Shutdown ==
  /\ pc = "idle"
  /\ db' = aborted(db) /\ pending' = "none"
  /\ file' = fdb
  /\ Goto("down")
  /\ UNCHANGED <<invalid, cut, mode, fdb, head, reversible, blog, ret, branches, todo>>

(* The process dies.  The chain state is left dirty and has to be deleted, *)
(* fork_db.dat was removed when it was read, and of the reversible blocks  *)
(* those up to some number can be recovered.                               *)
Crash ==
  /\ pc # "down"
  /\ db' = NoState /\ pending' = "none" /\ file' = NoFile
  /\ \E n \in 0 .. MaxNum :
       reversible' = {r \in reversible :
                        /\ num[r] <= n
                        /\ \A m \in num[Lowest(reversible)] .. num[r] :
                             \E q \in reversible : num[q] = m}
  /\ Goto("down") /\ Leave
  /\ UNCHANGED <<invalid, cut, mode, fdb, head, blog, ret>>

(* --replay-blockchain deletes the chain state, and not fork_db.dat.       *)
DeleteState ==
  /\ pc = "down" /\ db # NoState
  /\ db' = NoState
  /\ UNCHANGED <<invalid, cut, mode, fdb, head, pending, reversible, blog, file, call>>

(* Faulty variant of Startup: the head is rolled back in every mode.       *)
Startup_rolls_back(m) ==
  LET opened == IF file = NoFile THEN reset(Genesis) ELSE file
  IN /\ pc = "down"
     /\ mode' = m
     /\ fdb' = rollback_head_to_root(opened) /\ file' = NoFile
     /\ head' = IF db = NoState THEN Genesis ELSE opened.root
     /\ db' = IF db = NoState THEN Db(num[Genesis], <<Genesis>>) ELSE db
     /\ pc' = "init" /\ failure' = "none"
     /\ UNCHANGED <<invalid, cut, ret, branches, todo, pending, reversible, blog>>

(* startup: the fork database is read; without chain state the node starts *)
(* from the genesis state.                                                 *)
Startup(m) ==
  LET opened == IF file = NoFile THEN reset(Genesis) ELSE file
      d == IF m = "IRREVERSIBLE" /\ opened.head # opened.root
           THEN rollback_head_to_root(opened) ELSE opened
  IN /\ pc = "down"
     /\ mode' = m
     /\ IF db # NoState /\ file = NoFile
        THEN Fail("No existing fork database despite existing chain state")
             /\ UNCHANGED <<fdb, head, db, file>>
        ELSE IF db # NoState /\ num[opened.root] > num[LogHead]
        THEN Fail("block log does not contain the last irreversible block")
             /\ UNCHANGED <<fdb, head, db, file>>
        ELSE /\ fdb' = d /\ file' = NoFile
             /\ head' = IF db = NoState THEN Genesis ELSE d.head
             /\ db' = IF db = NoState THEN Db(num[Genesis], <<Genesis>>) ELSE db
             /\ pc' = "init" /\ failure' = "none" /\ UNCHANGED <<ret, branches, todo>>
     /\ UNCHANGED <<invalid, cut, pending, reversible, blog>>

(* The checks of init on the reversible blocks kept, in its order.         *)
Kept == IF mode = "IRREVERSIBLE" THEN {}
        ELSE {r \in reversible : num[r] > num[LogHead]}
LastBlockNum == IF Kept = {} THEN num[LogHead] ELSE num[Highest(Kept)]

InitCheck ==
  LET p == pending_head(fdb)
  IN IF Revision(db) < num[head] THEN "fork database head is inconsistent with state"
     ELSE IF db.low > num[head] THEN "undo loop does not end"
     ELSE IF mode = "IRREVERSIBLE" THEN "ok"
     ELSE IF Kept # {} /\ num[Lowest(Kept)] # num[LogHead] + 1
     THEN "gap before the first reversible block"
     ELSE IF num[head] > LastBlockNum
     THEN "head block is greater than the last locally stored block"
     ELSE IF Kept # {} /\ num[LogHead] < num[p] /\ num[p] <= LastBlockNum /\ p \notin Kept
     THEN "mismatch in block id of pending head block"
     ELSE IF Kept # {} /\ LastBlockNum < num[p] /\ Highest(Kept) \notin OnBranch(fdb, p, LastBlockNum)
     THEN "mismatch in block id of last block"
     ELSE "ok"

(* A failed check ends the process: its destructors write fork_db.dat, and *)
(* the next start finds everything as this one did.                        *)
InitController ==
  /\ pc = "init"
  /\ IF InitCheck # "ok"
     THEN /\ failure' = InitCheck /\ pc' = "down" /\ file' = fdb
          /\ UNCHANGED <<cut, db, reversible, ret, branches, todo>>
     ELSE /\ db' = [db EXCEPT !.stack = SubSeq(@, 1, num[head] - db.low + 1)]
          /\ reversible' = Kept
          /\ Goto(IF LastBlockNum > num[head] THEN "replay_log" ELSE "best")
          /\ cut' = FALSE /\ UNCHANGED <<ret, branches, todo, file>>
  /\ UNCHANGED <<invalid, mode, fdb, head, pending, blog>>

(* The fork database once the blocks of the log up to h are replayed.      *)
Resynced(h) ==
  LET p == pending_head(fdb)
  IN IF num[p] < num[h] \/ num[h] < num[fdb.root] THEN reset(h)
     ELSE IF num[h] = num[fdb.root] THEN fdb
     ELSE LET r == CHOOSE b \in OnBranch(fdb, p, num[h]) : TRUE
          IN advance_root(mark_valid(fdb, r), r)

(* The blocks of the log above the head are applied without undo sessions. *)
(* A request to quit stops the replay part of the way, or after the log's  *)
(* last block and before the reversible blocks; the fork database then     *)
(* keeps the head it was read with, unless it was reset.                   *)
ReplayLog(h) ==
  /\ pc = "replay_log"
  /\ IF num[head] < num[LogHead]
     THEN /\ h \in {blog[i] : i \in 1 .. Len(blog)} /\ num[head] < num[h]
          /\ IF Len(db.stack) # 1
             THEN Fail("cannot set revision while there is an existing undo stack")
                  /\ UNCHANGED <<fdb, head, db, file, cut>>
             ELSE /\ head' = h /\ db' = Db(num[h], <<h>>)
                  /\ fdb' = Resynced(h)
                  /\ \/ h = LogHead /\ Goto("replay") /\ UNCHANGED <<file, cut>>
                     \/ Goto("down") /\ file' = fdb' /\ cut' = (h = LogHead)
                  /\ UNCHANGED <<ret, branches, todo>>
     ELSE /\ h = head
          /\ \/ Goto("replay") /\ UNCHANGED <<file, cut>>
             \/ Goto("down") /\ file' = fdb /\ cut' = TRUE
          /\ UNCHANGED <<ret, branches, todo, fdb, head, db>>
  /\ UNCHANGED <<invalid, mode, pending, reversible, blog>>

(* One reversible block above the head is pushed again.                    *)
ReplayReversible ==
  /\ pc = "replay"
  /\ IF \E r \in reversible : num[r] = num[head] + 1
     THEN LET r == CHOOSE q \in reversible : num[q] = num[head] + 1
          IN IF Extends(r) /\ Known(fdb, head)
             THEN /\ fdb' = IF r \in fdb.index THEN fdb ELSE add(fdb, r)
                  /\ maybe_switch_forks(fdb', r, "replay")
             ELSE Fail("unlinkable block") /\ UNCHANGED fdb
     ELSE Goto("best") /\ UNCHANGED <<fdb, ret, branches, todo>>
  /\ UNCHANGED <<invalid, cut, mode, head, db, pending, reversible, blog, file>>

(* Faulty variant of ApplyBest: the loop runs until the root is reached.   *)
ApplyBest_to_root ==
  /\ pc \in {"best", "best_loop"}
  /\ IF mode # "IRREVERSIBLE" /\ pending_head(fdb) # fdb.root
     THEN maybe_switch_forks(fdb, pending_head(fdb), "best_loop")
     ELSE Goto("idle") /\ ret' = "idle" /\ UNCHANGED <<branches, todo>>
  /\ UNCHANGED chain

(* The end of init: if the read mode has changed from irreversible the     *)
(* best branch of the fork database is applied.                            *)
ApplyBest ==
  /\ pc \in {"best", "best_loop"}
  /\ IF /\ mode # "IRREVERSIBLE" /\ pending_head(fdb) # fdb.head
        /\ pc = "best" => fdb.head = fdb.root
     THEN maybe_switch_forks(fdb, pending_head(fdb), "best_loop")
     ELSE Goto("idle") /\ ret' = "idle" /\ UNCHANGED <<branches, todo>>
  /\ UNCHANGED chain

(* A request to quit before the best branch is applied ends init.          *)
QuitInit ==
  /\ pc = "best"
  /\ file' = fdb /\ Goto("down")
  /\ UNCHANGED <<invalid, cut, mode, fdb, head, db, pending, reversible, blog, ret, branches, todo>>

-----------------------------------------------------------------------------
Init ==
  /\ invalid \in InvalidSets /\ mode \in Modes
  /\ fdb = reset(Genesis) /\ head = Genesis
  /\ db = Db(num[Genesis], <<Genesis>>) /\ pending = "none"
  /\ reversible = {} /\ blog = <<Genesis>> /\ file = NoFile
  /\ pc = "idle" /\ ret = "idle" /\ failure = "none"
  /\ branches = NoBranches /\ todo = {} /\ cut = FALSE

(* The steps of a call once it has begun.                                  *)
Step ==
  \/ Extend \/ PopOld \/ ApplyNew \/ PopNew \/ ReapplyOld
  \/ LogIrreversible \/ LogBlock \/ TrimReversible
  \/ InitController \/ (\E h \in Block : ReplayLog(h)) \/ ReplayReversible
  \/ ApplyBest \/ QuitInit

Next ==
  \/ \E b \in Block \ {Genesis} : PushBlock(b)
  \/ StartBlock
  \/ AbortBlock
  \/ \E b \in Block \ {Genesis} : CommitBlock(b)
  \/ Step
  \/ Shutdown
  \/ Crash
  \/ DeleteState
  \/ \E m \in Modes : Startup(m)

(* A call that has begun runs on: the main thread is not stopped.          *)
Spec == Init /\ [][Next]_vars /\ WF_vars(Step)

-----------------------------------------------------------------------------
(* Properties.                                                             *)

(* The types of the members.                                               *)
TypeOK ==
  /\ invalid \in InvalidSets /\ mode \in Modes /\ fdb \in ForkDb /\ head \in Block
  /\ \/ db = NoState
     \/ /\ db.low \in 0 .. MaxNum
        /\ \E n \in 1 .. MaxNum + 1 : db.stack \in [1 .. n -> Block \cup {Scratch}]
  /\ pending \in {"none", "building"} /\ reversible \subseteq Block
  /\ file \in ForkDb \cup {NoFile} /\ todo \subseteq Block /\ cut \in BOOLEAN

(* The assertions that can fail once an invalid block was received: init's *)
(* on the pending head, init's on the head when the start after that one   *)
(* finds the state it began to rebuild, and the reversal of a switch that  *)
(* popped nothing.                                                         *)
KnownFailures ==
  {"mismatch in block id of pending head block",
   "fork database head is inconsistent with state",
   "branches.second.back() of an empty branch"}

(* No assertion fails, in any order of blocks, crashes, restarts and       *)
(* changes of the read mode: pop_block never passes the root, chainbase    *)
(* and the fork database never lose sync, the root is the log's last       *)
(* block, fork switches and their reversal go through, and init accepts    *)
(* what the last run left behind; the known failures apart, which take an  *)
(* invalid block, and one that takes a replay that was quit at the end of  *)
(* the log, which leaves fork_db.dat with a head the state has not reached.*)
NeverFails ==
  failure # "none" =>
    \/ invalid # {} /\ failure \in KnownFailures
    \/ cut /\ failure = "fork database head is inconsistent with state"

(* The stack of undo states is the branch of the head, one state for every *)
(* block above the root; only then does undoing reach the root, no further.*)
StackIsBranch(d, h) ==
  /\ d.low = num[fdb.root] /\ d.stack[1] = fdb.root
  /\ \A i \in 2 .. Len(d.stack) : prev[d.stack[i]] = d.stack[i - 1]
  /\ Current(d) = h

(* Between calls the five stores agree: the log ends in the root of the    *)
(* fork database, the chain state is the head's with an undo state for     *)
(* every reversible block, and exactly those blocks are stored as          *)
(* reversible.                                                             *)
StoresAgree ==
  pc = "idle" =>
    /\ LogHead = fdb.root /\ fdb.root \in anc[head]
    /\ StackIsBranch(aborted(db), head)
    /\ reversible = IF mode = "IRREVERSIBLE" THEN {} ELSE anc[head] \ anc[fdb.root]

(* Between calls the controller has applied what it received and should.   *)
(* In speculative mode no block received, validated or not, lies on a      *)
(* longer or more final branch than the head; and if no block was invalid  *)
(* the head is the fork database's, ties included.  In irreversible mode   *)
(* nothing that a received block declares irreversible is left unapplied,  *)
(* unless a block was invalid: a failed block stays the best of the fork   *)
(* database, and init, which may find it gone, applies nothing.            *)
BestBranchApplied ==
  /\ pc = "idle" /\ mode = "SPECULATIVE" =>
       /\ \A b \in fdb.index : lib[b] < lib[head] \/ (lib[b] = lib[head] /\ num[b] <= num[head])
       /\ invalid = {} => head = fdb.head /\ \A b \in fdb.index : ~first_preferred(b, head)
  /\ pc = "idle" /\ mode = "IRREVERSIBLE" =>
       /\ head = LogHead
       /\ lib[pending_head(fdb)] > num[LogHead] => invalid # {}

(* The block log is one branch, and a block in it is never popped, however *)
(* a fork switch or a restart goes.                                        *)
IrreversibleForever ==
  /\ \A i \in 2 .. Len(blog) : prev[blog[i]] = blog[i - 1]
  /\ pc \in {"idle", "extend", "pop", "apply", "unapply", "reapply", "log"} => LogHead \in anc[head]

(* A clean restart in the same mode resumes at the head it stopped at,     *)
(* unless an invalid block has made the fork database's head another one,  *)
(* or the replay was quit at the end of the log and the fork database      *)
(* still has the head of the run before.                                   *)
RestartKeepsHead ==
  [][pc = "down" /\ pc' = "init" /\ mode' = mode /\ db' = db /\ file # NoFile =>
       head' = head \/ invalid # {} \/ cut]_vars

(* A fork switch that meets an invalid block ends where it began.          *)
FailedSwitchUndone ==
  [][pc = "reapply" /\ pc' = "idle" => head' = Highest(branches.second) /\ StackIsBranch(db', head')]_vars

(* Every call ends: the loops of maybe_switch_forks, log_irreversible,     *)
(* replay and init come to an end.                                         *)
CallsEnd == pc \notin {"idle", "down", "failed"} ~> pc \in {"idle", "down", "failed"}

(* What the check of init on the pending head asserts: the reversible      *)
(* block of its number is the pending head.                                *)
PendingHeadStored == failure # "mismatch in block id of pending head block"

(* What the reversal of a fork switch relies on: a branch was popped, whose*)
(* first block tells where the branches part.                              *)
ReversalKnowsFork == failure # "branches.second.back() of an empty branch"
=============================================================================
