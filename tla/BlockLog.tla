------------------------------ MODULE BlockLog ------------------------------
(***************************************************************************)
(* chain::block_log: the append-only file of irreversible blocks and its   *)
(* index of positions, the offline tool that trims them and the repair of  *)
(* a damaged log.  Two files are written one after the other, so the       *)
(* process may die between any two writes; open compares only the last     *)
(* position of each file.                                                  *)
(*                                                                         *)
(* The blocks of the log are consecutive, so a file is described by its    *)
(* first and last number.  Pos(f, b) is the byte position of block b in a  *)
(* log that begins with block f.  Files that are absent and files of       *)
(* length zero are the same: reopen creates what is missing.               *)
(***************************************************************************)
EXTENDS Integers, Sequences

CONSTANTS MaxBlock,     \* bound on block numbers
          FirstBlocks,  \* numbers a fresh log may start with
          BufLen,       \* positions index_writer collects before it writes
          Pos(_, _)     \* position of a block in a log

ASSUME LogAssumption ==
  /\ MaxBlock \in Nat /\ BufLen \in Nat \ {0}
  /\ FirstBlocks \subseteq 1 .. MaxBlock

(* The header moves a block forward, a block moves its successors back,    *)
(* and dropping a block from the front outweighs the shorter header.       *)
ASSUME PosAssumption ==
  \A f, b \in 1 .. MaxBlock : f <= b =>
    /\ Pos(f, b) \in Nat \ {0}
    /\ \A c \in b + 1 .. MaxBlock : Pos(f, b) < Pos(f, c)
    /\ \A g \in f + 1 .. b : Pos(g, b) < Pos(f, b)

VARIABLES log,     \* blocks.log
          index,   \* blocks.index
          head,    \* number of the in-memory head, 0 when there is none
          pc,      \* "closed", "ready", or what the running call does next
          job,     \* what is left of that call
          old,     \* blocks in old/old.log, overwritten by every trim
          backup,  \* blocks in the directories repair_log has moved away
          kept,    \* history: blocks written completely and not given up
          damage   \* history: what an interrupted call has done to the index

vars == <<log, index, head, pc, job, old, backup, kept, damage>>

Hole == 0          \* an index entry that was never written

(* "old": a front trim died between its renames and the index is that of   *)
(* the log before; "cut": such an index was shortened afterwards; "holed": *)
(* a rebuild died when some of its buffers, not all, were written.         *)
Damage == {"none", "old", "cut", "holed"}

LogFile ==
  [version : {"empty", "unset", "set"}, first : 0 .. MaxBlock,
   last : 0 .. MaxBlock, torn : BOOLEAN]

EmptyLog == [version |-> "empty", first |-> 0, last |-> 0, torn |-> FALSE]

NoJob == [todo |-> 0, back |-> "closed", file |-> EmptyLog]

Blocks(l) == IF l.version = "empty" THEN {} ELSE l.first .. l.last

NumBlocks(l) == IF l.version = "empty" THEN 0 ELSE l.last - l.first + 1

(* The index that belongs to a log.                                        *)
IndexOf(l) == [i \in 1 .. NumBlocks(l) |-> Pos(l.first, l.first + i - 1)]

Init ==
  /\ log = EmptyLog /\ index = <<>> /\ head = 0
  /\ pc = "closed" /\ job = NoJob
  /\ old = {} /\ backup = {} /\ kept = {} /\ damage = "none"
-----------------------------------------------------------------------------
(* Faulty variant of UpToDate: a nonempty index is believed.               *)
UpToDate_nonempty(l, ix) == ix # <<>>

(* The last position in the log, compared with the last one in the index.  *)
(* The separator after the header stands for no block and equals none.     *)
UpToDate(l, ix) ==
  /\ ix # <<>>
  /\ NumBlocks(l) > 0
  /\ ix[Len(ix)] = Pos(l.first, l.last)

(* open throws on a log whose header was not completed and on one whose    *)
(* last bytes are not a position; otherwise the index is checked.          *)
Open ==
  /\ pc = "closed"
  /\ log.version # "unset" /\ ~log.torn
  /\ head' = IF NumBlocks(log) > 0 THEN log.last ELSE 0
  /\ IF log.version = "empty"
     THEN index' = <<>> /\ damage' = "none" /\ pc' = "ready" /\ UNCHANGED job
     ELSE IF UpToDate(log, index)
     THEN pc' = "ready" /\ UNCHANGED <<index, damage, job>>
     ELSE /\ index' = <<>> /\ damage' = "none" /\ pc' = "building"
          /\ job' = [NoJob EXCEPT !.todo = NumBlocks(log), !.back = "ready"]
  /\ UNCHANGED <<log, old, backup, kept>>

(* inery-blocklog --make-index truncates blocks.index and fills it again.  *)
MakeIndex ==
  /\ pc = "closed"
  /\ log.version = "set" /\ ~log.torn
  /\ NumBlocks(log) > 0
  /\ index' = <<>> /\ damage' = "none"
  /\ pc' = "building"
  /\ job' = [NoJob EXCEPT !.todo = NumBlocks(log)]
  /\ UNCHANGED <<log, head, old, backup, kept>>

(* Where the buffer that ends before entry end + 1 begins.                 *)
BufferStart(end) == IF end < BufLen THEN 0 ELSE end - BufLen

(* The index of which all entries after start are written.                 *)
Written(start) ==
  [i \in 1 .. NumBlocks(log) |-> IF i <= start THEN Hole ELSE Pos(log.first, log.first + i - 1)]

(* index_writer fills the file from its end, one buffer at a time; the     *)
(* file gets its full length with the first buffer.                        *)
BuildIndex ==
  /\ pc = "building"
  /\ IF job.todo = 0
     THEN pc' = job.back /\ job' = NoJob /\ UNCHANGED index
     ELSE LET start == BufferStart(job.todo) IN
          /\ index' = Written(start)
          /\ job' = [job EXCEPT !.todo = start]
          /\ UNCHANGED pc
  /\ UNCHANGED <<log, head, old, backup, kept, damage>>
-----------------------------------------------------------------------------
(* append refuses to write when the index does not end at the new block.   *)
AppendAllowed(l, ix) == l.version = "set" /\ Len(ix) = NumBlocks(l)

(* append, first half: the block and its position reach blocks.log.        *)
AppendLog ==
  /\ pc = "ready" /\ AppendAllowed(log, index) /\ log.last < MaxBlock
  /\ log' = [log EXCEPT !.last = @ + 1]
  /\ kept' = kept \union {log.last + 1}
  /\ pc' = "append_index"
  /\ UNCHANGED <<index, head, job, old, backup, damage>>

(* append, second half: the position reaches blocks.index.                 *)
AppendIndex ==
  /\ pc = "append_index"
  /\ index' = Append(index, Pos(log.first, log.last))
  /\ head' = log.last
  /\ pc' = IF log.version = "unset" THEN "reset_version" ELSE "ready"
  /\ UNCHANGED <<log, job, old, backup, kept, damage>>

(* reset, called while there is no head: both files go, a header with      *)
(* version 0 is written, then the genesis block if the log starts there,   *)
(* and the version last.                                                   *)
ResetRemove ==
  /\ pc = "ready" /\ head = 0
  /\ log' = EmptyLog
  /\ pc' = "reset_index"
  /\ UNCHANGED <<index, head, job, old, backup, kept, damage>>

ResetHeader(f) ==
  /\ pc = "reset_index"
  /\ index' = <<>> /\ damage' = "none"
  /\ log' = [version |-> "unset", first |-> f, last |-> f - 1, torn |-> FALSE]
  /\ pc' = IF f = 1 THEN "reset_genesis" ELSE "reset_version"
  /\ UNCHANGED <<head, job, old, backup, kept>>

ResetGenesis ==
  /\ pc = "reset_genesis"
  /\ log' = [log EXCEPT !.last = @ + 1]
  /\ kept' = kept \union {1}
  /\ pc' = "append_index"
  /\ UNCHANGED <<index, head, job, old, backup, damage>>

ResetVersion ==
  /\ pc = "reset_version"
  /\ log' = [log EXCEPT !.version = "set"]
  /\ pc' = "ready"
  /\ UNCHANGED <<index, head, job, old, backup, kept, damage>>

Close ==
  /\ pc = "ready"
  /\ pc' = "closed" /\ head' = 0
  /\ UNCHANGED <<log, index, job, old, backup, kept, damage>>
-----------------------------------------------------------------------------
(* trim_data: the tool counts blocks by the length of the index and finds  *)
(* a block through it; it throws when the log has another block there.     *)
LastIndexed == log.first + Len(index) - 1

Located(n) ==
  /\ n \in Blocks(log)
  /\ n <= LastIndexed
  /\ index[n - log.first + 1] = Pos(log.first, n)

TrimData ==
  /\ pc = "closed"
  /\ log.version = "set"
  /\ index # <<>> /\ Located(log.first)

(* trim_blocklog_end: the log is cut after block n, then the index.        *)
TrimEnd(n) ==
  /\ TrimData
  /\ log.first <= n /\ n < LastIndexed
  /\ Located(n + 1)
  /\ log' = [log EXCEPT !.last = n, !.torn = FALSE]
  /\ kept' = {b \in kept : b <= n}
  /\ pc' = "trim_end"
  /\ job' = [NoJob EXCEPT !.todo = n - log.first + 1]
  /\ UNCHANGED <<index, head, old, backup, damage>>

TrimEndIndex ==
  /\ pc = "trim_end"
  /\ index' = SubSeq(index, 1, job.todo)
  /\ damage' = IF damage = "old" THEN "cut" ELSE damage
  /\ pc' = "closed" /\ job' = NoJob
  /\ UNCHANGED <<log, head, old, backup, kept>>

(* trim_blocklog_front: both files are written anew in another directory   *)
(* and change places with the old ones by four renames.  The copy walks    *)
(* the log from its end, hence not a torn one, and throws unless it finds  *)
(* as many blocks as the index has.  The operator gives up what the log    *)
(* does not hold.                                                          *)
TrimFront(n) ==
  /\ TrimData
  /\ ~log.torn
  /\ log.first < n /\ n <= LastIndexed
  /\ Located(n) /\ Len(index) = NumBlocks(log)
  /\ job' = [NoJob EXCEPT !.file = [log EXCEPT !.first = n]]
  /\ old' = Blocks(log)
  /\ log' = EmptyLog
  /\ kept' = {b \in kept \intersect Blocks(log) : b >= n}
  /\ pc' = "trim_log"
  /\ UNCHANGED <<index, head, backup, damage>>

TrimLog ==
  /\ pc = "trim_log"
  /\ log' = job.file
  /\ pc' = "trim_old_index"
  /\ UNCHANGED <<index, head, job, old, backup, kept, damage>>

TrimOldIndex ==
  /\ pc = "trim_old_index"
  /\ index' = <<>> /\ damage' = "none"
  /\ pc' = "trim_index"
  /\ UNCHANGED <<log, head, job, old, backup, kept>>

TrimIndex ==
  /\ pc = "trim_index"
  /\ index' = IndexOf(log)
  /\ pc' = "closed" /\ job' = NoJob
  /\ UNCHANGED <<log, head, old, backup, kept, damage>>
-----------------------------------------------------------------------------
(* Faulty variant of RepairStart: the old directory is deleted.            *)
RepairStart_delete ==
  /\ pc = "closed"
  /\ log' = EmptyLog /\ index' = <<>> /\ damage' = "none"
  /\ IF log.version = "set" /\ log.first = 1
     THEN pc' = "repair" /\ job' = [NoJob EXCEPT !.file = log]
     ELSE UNCHANGED <<pc, job>>
  /\ UNCHANGED <<head, old, backup, kept>>

(* repair_log moves the blocks directory away, and only then looks at the  *)
(* header: an incomplete one, or a log that does not begin with block 1,   *)
(* makes it throw with an empty blocks directory in place.                 *)
RepairStart ==
  /\ pc = "closed"
  /\ backup' = backup \union Blocks(log)
  /\ log' = EmptyLog /\ index' = <<>> /\ damage' = "none"
  /\ IF log.version = "set" /\ log.first = 1
     THEN pc' = "repair" /\ job' = [NoJob EXCEPT !.file = log]
     ELSE UNCHANGED <<pc, job>>
  /\ UNCHANGED <<head, old, kept>>

(* The header and then every complete block are copied; an incomplete one  *)
(* ends the loop, and so does the block number the operator gave.          *)
RepairCopy ==
  /\ pc = "repair"
  /\ IF log.version = "empty"
     THEN log' = [job.file EXCEPT !.last = job.file.first - 1, !.torn = FALSE]
     ELSE log.last < job.file.last /\ log' = [log EXCEPT !.last = @ + 1]
  /\ UNCHANGED <<index, head, pc, job, old, backup, kept, damage>>

RepairStop ==
  /\ pc = "repair" /\ log.version # "empty"
  /\ pc' = "closed" /\ job' = NoJob
  /\ UNCHANGED <<log, index, head, old, backup, kept, damage>>
-----------------------------------------------------------------------------
(* The process dies.  stdio writes a block in pieces: a death while one is *)
(* appended or copied leaves a piece of it.  The index entry follows when  *)
(* the block is complete.                                                  *)
Crash ==
  /\ pc # "closed"
  /\ \E torn \in BOOLEAN :
       /\ torn => pc \in {"ready", "repair", "reset_genesis"} /\ log.version # "empty"
       /\ log' = [log EXCEPT !.torn = torn]
  /\ damage' = IF pc = "trim_old_index" /\ damage = "none" THEN "old"
               ELSE IF pc = "building" /\ job.todo \in 1 .. NumBlocks(log) - 1 THEN "holed"
               ELSE damage
  /\ pc' = "closed" /\ head' = 0 /\ job' = NoJob
  /\ UNCHANGED <<index, old, backup, kept>>

(* The machine dies while the log is open or after it was closed: flush    *)
(* does not sync, so either file may lose what was appended last.  The     *)
(* blocks lost are given up.                                               *)
LosePower ==
  /\ pc \in {"closed", "ready", "append_index"} /\ log.version = "set"
  /\ \E last \in log.first - 1 .. log.last, n \in 0 .. Len(index), torn \in BOOLEAN :
       /\ log' = [log EXCEPT !.last = last, !.torn = torn]
       /\ index' = SubSeq(index, 1, n)
       /\ kept' = kept \ (last + 1 .. log.last)
       /\ damage' = IF damage = "old" /\ n < Len(index) THEN "cut" ELSE damage
  /\ pc' = "closed" /\ head' = 0 /\ job' = NoJob
  /\ UNCHANGED <<old, backup>>

(* The same while the index is rebuilt: part of what was written of it may *)
(* be missing as well, the last buffers first.                             *)
LosePowerBuilding ==
  /\ pc = "building"
  /\ \E last \in log.first - 1 .. log.last, start \in job.todo .. NumBlocks(log), torn \in BOOLEAN :
       /\ log' = [log EXCEPT !.last = last, !.torn = torn]
       /\ index' = IF start = NumBlocks(log) THEN <<>> ELSE Written(start)
       /\ kept' = kept \ (last + 1 .. log.last)
       /\ damage' = IF start \in 1 .. NumBlocks(log) - 1 THEN "holed" ELSE "none"
  /\ pc' = "closed" /\ head' = 0 /\ job' = NoJob
  /\ UNCHANGED <<old, backup>>

Next ==
  \/ Open \/ MakeIndex \/ BuildIndex \/ AppendLog \/ AppendIndex \/ Close
  \/ ResetRemove \/ ResetGenesis \/ ResetVersion
  \/ \E f \in FirstBlocks : ResetHeader(f)
  \/ \E n \in 1 .. MaxBlock : TrimEnd(n) \/ TrimFront(n)
  \/ TrimEndIndex \/ TrimLog \/ TrimOldIndex \/ TrimIndex
  \/ RepairStart \/ RepairCopy \/ RepairStop
  \/ Crash \/ LosePower \/ LosePowerBuilding

Spec == Init /\ [][Next]_vars
-----------------------------------------------------------------------------
TypeOK ==
  /\ log \in LogFile /\ index \in Seq(Nat) /\ head \in 0 .. MaxBlock
  /\ pc \in {"closed", "ready", "building", "append_index", "reset_index",
             "reset_genesis", "reset_version", "trim_end", "trim_log",
             "trim_old_index", "trim_index", "repair"}
  /\ job \in [todo : 0 .. MaxBlock, back : {"closed", "ready"}, file : LogFile]
  /\ old \subseteq 1 .. MaxBlock /\ backup \subseteq 1 .. MaxBlock
  /\ kept \subseteq 1 .. MaxBlock /\ damage \in Damage

(* Once the log is open, the index leads to every block of it, whatever    *)
(* crash, loss of power, trim or repair came before: read_block_by_num     *)
(* never reads a wrong block and append never finds the index at the wrong *)
(* position.  open compares only the last entry, so two accidents escape   *)
(* it and are excepted: a rebuild that died between two of its buffers,    *)
(* and an index left by a front trim that died between the renames of the  *)
(* log and of the index, once it has been shortened (an end trim accepts   *)
(* it when blocks have equal sizes).                                       *)
IndexExact ==
  pc = "ready" /\ damage \notin {"cut", "holed"} =>
    /\ index = IndexOf(log)
    /\ head = IF NumBlocks(log) > 0 THEN log.last ELSE 0

(* The same with only the first exception, and with only the second.       *)
IndexExactUnlessHoled == pc = "ready" /\ damage # "holed" => index = IndexOf(log)

IndexExactUnlessCut == pc = "ready" /\ damage # "cut" => index = IndexOf(log)

(* A block that was written completely and that nobody asked to remove is  *)
(* in the log or in a file moved away, at every moment of a trim, a repair *)
(* or a reset.                                                             *)
NothingLost == kept \subseteq Blocks(log) \union old \union backup
=============================================================================
