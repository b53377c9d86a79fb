--------------------------- MODULE BlockLog_proofs ---------------------------
(***************************************************************************)
(* The block log keeps every block that nobody gave up, for every length   *)
(* of the log and of the index buffer; and an open log has the index that  *)
(* belongs to it, but for the two accidents IndexExact names.              *)
(*                                                                         *)
(* Neither is inductive.  LogInv says what each step of a call finds:      *)
(* which header, which head, which copy in job.file.  IndexInv says how    *)
(* far an index that a crash, a trim or a loss of power left behind can be *)
(* from the log: its entries are those of the log, or it is the whole      *)
(* index of the log before a front trim, and then its last entry lies      *)
(* behind the last block; while it is rebuilt, it has what was written.    *)
(***************************************************************************)
EXTENDS BlockLog, SequenceTheorems, TLAPS

(* A log with a header holds a range of blocks that begins at its first.   *)
WellFormed(l) ==
  l.version # "empty" => l.first \in 1 .. MaxBlock /\ l.first - 1 <= l.last

(* The head an open log has.                                               *)
HeadOf(l) == IF NumBlocks(l) > 0 THEN l.last ELSE 0

(* What each step of a call finds in the log, in head and in job.          *)
Stage ==
  /\ pc = "ready" => log.version # "unset" /\ head = HeadOf(log)
  /\ pc = "building" =>
       /\ log.version = "set" /\ job.todo <= NumBlocks(log)
       /\ job.back = "ready" => head = HeadOf(log)
  /\ pc = "append_index" => log.version # "empty" /\ log.first <= log.last
  /\ pc = "reset_index" => log = EmptyLog /\ head = 0
  /\ pc = "reset_genesis" => log.version = "unset" /\ log.first = 1 /\ log.last = 0
  /\ pc = "reset_version" => log.version = "unset" /\ head = HeadOf(log)
  /\ pc = "trim_end" => log.version = "set" /\ job.todo = NumBlocks(log) /\ job.todo <= Len(index)
  /\ pc = "trim_log" => job.file.version = "set" /\ log = EmptyLog
  /\ pc \in {"trim_old_index", "trim_index"} => log.version = "set"
  /\ pc = "repair" =>
       /\ job.file.version = "set"
       /\ log.version \in {"empty", "set"} /\ log.last <= job.file.last

(* TypeOK with its sets under names of their own.                          *)
Steps == {"closed", "ready", "building", "append_index", "reset_index",
          "reset_genesis", "reset_version", "trim_end", "trim_log",
          "trim_old_index", "trim_index", "repair"}
Jobs == [todo : 0 .. MaxBlock, back : {"closed", "ready"}, file : LogFile]
Numbers == 1 .. MaxBlock
Types ==
  /\ log \in LogFile /\ index \in Seq(Nat) /\ head \in 0 .. MaxBlock
  /\ pc \in Steps /\ job \in Jobs
  /\ old \subseteq Numbers /\ backup \subseteq Numbers /\ kept \subseteq Numbers
  /\ damage \in Damage

(* LogInv, the inductive invariant behind NothingLost.                     *)
LogInv ==
  /\ Types
  /\ WellFormed(log) /\ WellFormed(job.file)
  /\ Stage
  /\ NothingLost
-----------------------------------------------------------------------------
(* The entries of an index that was written for blocks from f on.          *)
Entries(f, ix) ==
  \A i \in 1 .. Len(ix) : f + i - 1 <= MaxBlock /\ ix[i] = Pos(f, f + i - 1)

(* An index of the log from which the blocks before l.first were dropped.  *)
Stale(l, ix) ==
  \E f \in 1 .. l.first - 1 : Entries(f, ix) /\ l.last <= f + Len(ix) - 1

(* The index of exactly the blocks of l.                                   *)
Exact(l, ix) == Entries(l.first, ix) /\ Len(ix) = NumBlocks(l)

Follows(l, ix) == Entries(l.first, ix) \/ Stale(l, ix)

Harmed == damage \in {"cut", "holed"}

(* What the index may be at each step of a call, unless it is harmed.      *)
IndexStage ==
  /\ pc \in {"closed", "trim_end"} /\ log.version = "set" =>
       IF damage = "old" THEN Stale(log, index) ELSE Entries(log.first, index)
  /\ pc \notin {"closed", "trim_end"} => damage # "old"
  /\ pc \in {"ready", "reset_version"} => Exact(log, index)
  /\ pc = "building" => IF job.todo = NumBlocks(log) THEN index = <<>>
                        ELSE index = Written(job.todo)
  /\ pc = "append_index" => Entries(log.first, index) /\ Len(index) = NumBlocks(log) - 1
  /\ pc = "trim_log" => Stale(job.file, index)
  /\ pc = "trim_old_index" => Stale(log, index)
  /\ pc \in {"reset_genesis", "trim_index", "repair"} => index = <<>>

IndexInv == Harmed \/ IndexStage
-----------------------------------------------------------------------------
LEMMA TypesOK == Types <=> TypeOK
BY Zenon DEF Types, TypeOK, Steps, Jobs, Numbers

LEMMA StepNames ==
  /\ "closed" \in Steps /\ "ready" \in Steps /\ "building" \in Steps
  /\ "append_index" \in Steps /\ "reset_index" \in Steps /\ "reset_genesis" \in Steps
  /\ "reset_version" \in Steps /\ "trim_end" \in Steps /\ "trim_log" \in Steps
  /\ "trim_old_index" \in Steps /\ "trim_index" \in Steps /\ "repair" \in Steps
BY DEF Steps

LEMMA Damages == "none" \in Damage /\ "old" \in Damage /\ "cut" \in Damage /\ "holed" \in Damage
BY DEF Damage

LEMMA EmptyIndex == <<>> \in Seq(Nat) /\ Len(<<>>) = 0
OBVIOUS

LEMMA LogFacts ==
  ASSUME NEW l \in LogFile
  PROVE  /\ l.version \in {"empty", "unset", "set"}
         /\ l.first \in Nat /\ l.last \in Nat
         /\ l.first <= MaxBlock /\ l.last <= MaxBlock
BY LogAssumption DEF LogFile

LEMMA JobFacts ==
  ASSUME NEW j \in Jobs
  PROVE  /\ j.todo \in 0 .. MaxBlock /\ j.back \in {"closed", "ready"} /\ j.file \in LogFile
BY DEF Jobs

LEMMA EmptyLogFacts ==
  /\ EmptyLog \in LogFile /\ WellFormed(EmptyLog) /\ NumBlocks(EmptyLog) = 0
  /\ Blocks(EmptyLog) = {} /\ EmptyLog.version = "empty" /\ HeadOf(EmptyLog) = 0
  /\ NoJob \in Jobs /\ NoJob.file = EmptyLog /\ NoJob.todo = 0
<1>1. EmptyLog \in LogFile
  BY LogAssumption DEF EmptyLog, LogFile
<1> QED
  BY <1>1, LogAssumption DEF EmptyLog, WellFormed, NumBlocks, Blocks, NoJob, HeadOf, Jobs

LEMMA JobWith ==
  ASSUME NEW n \in 0 .. MaxBlock, NEW l \in LogFile,
         NEW j, \/ j = [NoJob EXCEPT !.todo = n]
                \/ j = [NoJob EXCEPT !.todo = n, !.back = "ready"]
                \/ j = [NoJob EXCEPT !.file = l]
  PROVE  /\ j \in Jobs
         /\ j = [NoJob EXCEPT !.file = l] => j.file = l
         /\ j # [NoJob EXCEPT !.file = l] => j.file = EmptyLog /\ j.todo = n
BY EmptyLogFacts, LogAssumption DEF NoJob, Jobs

LEMMA JobFile ==
  ASSUME NEW l \in LogFile
  PROVE  [NoJob EXCEPT !.file = l] \in Jobs /\ [NoJob EXCEPT !.file = l].file = l
BY EmptyLogFacts, LogAssumption DEF NoJob, Jobs

LEMMA JobTodo ==
  ASSUME NEW n \in 0 .. MaxBlock
  PROVE  /\ [NoJob EXCEPT !.todo = n] \in Jobs /\ [NoJob EXCEPT !.todo = n].todo = n
         /\ [NoJob EXCEPT !.todo = n].file = EmptyLog
BY EmptyLogFacts, LogAssumption DEF NoJob, Jobs

(* A log that is cut after block n, and one whose end is torn or not.      *)
LEMMA CutLog ==
  ASSUME NEW l \in LogFile, NEW n \in 0 .. MaxBlock, NEW t \in BOOLEAN
  PROVE  /\ [l EXCEPT !.last = n, !.torn = t] \in LogFile
         /\ [l EXCEPT !.last = n, !.torn = t].version = l.version
         /\ [l EXCEPT !.last = n, !.torn = t].first = l.first
         /\ [l EXCEPT !.last = n, !.torn = t].last = n
BY DEF LogFile

LEMMA TornLog ==
  ASSUME NEW l \in LogFile, NEW t \in BOOLEAN, NEW k, k = [l EXCEPT !.torn = t]
  PROVE  k \in LogFile /\ k.version = l.version /\ k.first = l.first /\ k.last = l.last
BY DEF LogFile

(* The number of blocks of a well-formed log.                              *)
LEMMA NumFacts ==
  ASSUME NEW l \in LogFile, WellFormed(l)
  PROVE  /\ NumBlocks(l) \in 0 .. MaxBlock
         /\ Blocks(l) \subseteq Numbers
         /\ HeadOf(l) \in 0 .. MaxBlock
         /\ HeadOf(l) = 0 => Blocks(l) = {}
BY LogAssumption DEF NumBlocks, Blocks, WellFormed, LogFile, HeadOf, EmptyLog, Numbers

LEMMA InitLogInv == Init => LogInv
<1> SUFFICES ASSUME Init PROVE LogInv
  OBVIOUS
<1>1. /\ log = EmptyLog /\ index = <<>> /\ head = 0 /\ pc = "closed" /\ job = NoJob
      /\ old = {} /\ backup = {} /\ kept = {} /\ damage = "none"
  BY DEF Init
<1>2. damage \in Damage
  BY <1>1, Damages, Zenon
<1>2a. Types
  BY <1>1, <1>2, EmptyLogFacts, LogAssumption, StepNames DEF Types
<1>3. WellFormed(log) /\ WellFormed(job.file)
  BY <1>1, EmptyLogFacts
<1>4. Stage
  BY <1>1 DEF Stage
<1>5. NothingLost
  BY <1>1 DEF NothingLost
<1> QED
  BY <1>2a, <1>3, <1>4, <1>5 DEF LogInv

(* open: the head is read from the log, the blocks stay.                   *)
LEMMA OpenKeeps == LogInv /\ Open => LogInv'
<1> SUFFICES ASSUME LogInv, Open PROVE LogInv'
  OBVIOUS
<1>1. Types /\ WellFormed(log) /\ WellFormed(job.file) /\ log \in LogFile
  BY DEF LogInv, Types
<1>2. /\ log' = log /\ old' = old /\ backup' = backup /\ kept' = kept
      /\ head' = HeadOf(log) /\ log.version # "unset"
      /\ \/ pc' = "ready" /\ job' = job /\ (index' = <<>> \/ index' = index)
         \/ /\ pc' = "building" /\ index' = <<>> /\ log.version # "empty"
            /\ job' = [NoJob EXCEPT !.todo = NumBlocks(log), !.back = "ready"]
  BY DEF Open, HeadOf
<1>3. NumBlocks(log) \in 0 .. MaxBlock /\ HeadOf(log) \in 0 .. MaxBlock
  BY <1>1, NumFacts
<1>4. \/ job' = job
      \/ job' \in Jobs /\ job'.file = EmptyLog /\ job'.todo = NumBlocks(log)
  BY <1>2, <1>3, JobWith, EmptyLogFacts DEF NoJob
<1>m. damage' \in Damage
  BY <1>1, Damages, Zenon DEF Types, Open
<1>5. Types'
  <2>1. log' \in LogFile /\ head' \in 0 .. MaxBlock /\ pc' \in Steps
    BY <1>1, <1>2, <1>3, StepNames
  <2>2. index' \in Seq(Nat)
    <3>1. index \in Seq(Nat) /\ (index' = <<>> \/ index' = index)
      BY <1>1, <1>2 DEF Types
    <3> QED
      BY <3>1, EmptyIndex
  <2>3. job' \in Jobs
    BY <1>1, <1>4 DEF Types
  <2>4. old' \subseteq Numbers /\ backup' \subseteq Numbers /\ kept' \subseteq Numbers
    BY <1>1, <1>2 DEF Types
  <2> QED
    BY <1>m, <2>1, <2>2, <2>3, <2>4 DEF Types
<1>6. WellFormed(log)' /\ WellFormed(job.file)'
  BY <1>1, <1>2, <1>4, EmptyLogFacts
<1>7. Stage'
  <2>1. log.version \in {"empty", "unset", "set"}
    BY <1>1, LogFacts
  <2>2. (HeadOf(log) = HeadOf(log)' /\ NumBlocks(log) = NumBlocks(log)')
    BY <1>2
  <2>3. CASE pc' = "ready"
    BY <1>2, <2>2, <2>3 DEF Stage
  <2>4. CASE pc' = "building"
    <3>1. job'.todo = NumBlocks(log)
      BY <1>2, <1>3, <2>4 DEF NoJob
    <3> QED
      BY <1>2, <1>3, <2>1, <2>2, <2>4, <3>1 DEF Stage
  <2> QED
    BY <1>2, <2>3, <2>4
<1>8. NothingLost'
  BY <1>2 DEF LogInv, NothingLost
<1> QED
  BY <1>5, <1>6, <1>7, <1>8 DEF LogInv

(* make-index, and every buffer of an index that is written.               *)
LEMMA MakeIndexKeeps == LogInv /\ MakeIndex => LogInv'
<1> SUFFICES ASSUME LogInv, MakeIndex PROVE LogInv'
  OBVIOUS
<1>1. Types /\ WellFormed(log) /\ log \in LogFile
  BY DEF LogInv, Types
<1>2. /\ log' = log /\ old' = old /\ backup' = backup /\ kept' = kept /\ head' = head
      /\ pc' = "building" /\ index' = <<>> /\ log.version = "set"
      /\ job' = [NoJob EXCEPT !.todo = NumBlocks(log)]
  BY DEF MakeIndex
<1>3. NumBlocks(log) \in 0 .. MaxBlock
  BY <1>1, NumFacts
<1>4. job' \in Jobs /\ job'.file = EmptyLog /\ job'.todo = NumBlocks(log) /\ job'.back = "closed"
  BY <1>2, <1>3, JobWith, EmptyLogFacts DEF NoJob
<1>m. damage' \in Damage
  BY Damages, Zenon DEF MakeIndex
<1>5. Types'
  BY <1>1, <1>2, <1>4, <1>m, StepNames, EmptyIndex DEF Types
<1>6. WellFormed(log)' /\ WellFormed(job.file)'
  BY <1>1, <1>2, <1>4, EmptyLogFacts
<1>7. Stage'
  BY <1>2, <1>3, <1>4 DEF Stage
<1>8. NothingLost'
  BY <1>2 DEF LogInv, NothingLost
<1> QED
  BY <1>5, <1>6, <1>7, <1>8 DEF LogInv

(* The entries of an index that is being written.                          *)
LEMMA WrittenSeq ==
  ASSUME log \in LogFile, WellFormed(log), NEW start \in Int
  PROVE  /\ Written(start) \in Seq(Nat) /\ Len(Written(start)) = NumBlocks(log)
         /\ start <= 0 => Entries(log.first, Written(start))
<1>1. NumBlocks(log) \in Nat
  BY NumFacts, LogAssumption
<1>2. ASSUME NEW i \in 1 .. NumBlocks(log)
      PROVE  log.first + i - 1 <= MaxBlock /\ Pos(log.first, log.first + i - 1) \in Nat
  <2>1. log.version # "empty"
    BY DEF NumBlocks
  <2>2. /\ log.first \in 1 .. MaxBlock /\ log.last \in Nat /\ log.last <= MaxBlock
        /\ NumBlocks(log) = log.last - log.first + 1
    BY <2>1, LogFacts DEF WellFormed, NumBlocks
  <2>3. log.first + i - 1 \in 1 .. MaxBlock /\ log.first <= log.first + i - 1
    BY <2>2, LogAssumption
  <2> QED
    BY <2>2, <2>3, PosAssumption
<1>3. Written(start) \in [1 .. NumBlocks(log) -> Nat]
  BY <1>2 DEF Written, Hole
<1>4. Written(start) \in Seq(Nat) /\ Len(Written(start)) = NumBlocks(log)
  BY <1>1, <1>3
<1>5. start <= 0 => Entries(log.first, Written(start))
  BY <1>1, <1>2, <1>4 DEF Entries, Written
<1> QED
  BY <1>4, <1>5

LEMMA BuildIndexKeeps == LogInv /\ BuildIndex => LogInv'
<1> SUFFICES ASSUME LogInv, BuildIndex PROVE LogInv'
  OBVIOUS
<1>1. /\ Types /\ WellFormed(log) /\ WellFormed(job.file)
      /\ log \in LogFile /\ job \in Jobs /\ index \in Seq(Nat)
      /\ log.version = "set" /\ job.todo <= NumBlocks(log)
      /\ job.back = "ready" => head = HeadOf(log)
  BY DEF LogInv, Types, Stage, BuildIndex
<1>2. /\ log' = log /\ old' = old /\ backup' = backup /\ kept' = kept /\ head' = head
  BY DEF BuildIndex
<1>3. NumBlocks(log) \in 0 .. MaxBlock /\ job.todo \in 0 .. MaxBlock /\ job.file \in LogFile
  BY <1>1, NumFacts, JobFacts
<1>m. damage' \in Damage
  BY <1>1, Zenon DEF BuildIndex, Types
<1>4. CASE job.todo = 0
  <2>1. job' = NoJob /\ pc' = job.back /\ index' = index
    BY <1>4 DEF BuildIndex
  <2>2. pc' \in {"closed", "ready"}
    BY <1>1, <2>1, JobFacts
  <2>3. Types'
    BY <1>1, <1>2, <1>m, <2>1, <2>2, StepNames, EmptyLogFacts DEF Types
  <2>4. Stage'
    BY <1>1, <1>2, <2>1, <2>2 DEF Stage
  <2>5. WellFormed(log)' /\ WellFormed(job.file)'
    BY <1>1, <1>2, <2>1, EmptyLogFacts
  <2>6. NothingLost'
    BY <1>2 DEF LogInv, NothingLost
  <2> QED
    BY <2>3, <2>4, <2>5, <2>6 DEF LogInv
<1>5. CASE job.todo # 0
  <2> DEFINE start == BufferStart(job.todo)
  <2>1. /\ job' = [job EXCEPT !.todo = start] /\ pc' = pc /\ pc = "building"
        /\ index' = Written(start)
    BY <1>5 DEF BuildIndex
  <2>2. start \in 0 .. MaxBlock /\ start <= NumBlocks(log)
    BY <1>1, <1>3, LogAssumption DEF BufferStart
  <2> HIDE DEF start
  <2>3. job' \in Jobs /\ job'.todo = start /\ job'.back = job.back /\ job'.file = job.file
    BY <1>1, <2>1, <2>2 DEF Jobs
  <2>4. index' \in Seq(Nat)
    <3>1. start \in Int
      BY <2>2, LogAssumption
    <3> QED
      BY <1>1, <2>1, <3>1, WrittenSeq
  <2>5. Types'
    BY <1>1, <1>2, <1>m, <2>1, <2>3, <2>4 DEF Types
  <2>6. Stage'
    BY <1>1, <1>2, <2>1, <2>2, <2>3 DEF Stage
  <2>7. WellFormed(log)' /\ WellFormed(job.file)'
    BY <1>1, <1>2, <2>3
  <2>8. NothingLost'
    BY <1>2 DEF LogInv, NothingLost
  <2> QED
    BY <2>5, <2>6, <2>7, <2>8 DEF LogInv
<1> QED
  BY <1>4, <1>5

(* append, both halves.                                                    *)
LEMMA AppendLogKeeps == LogInv /\ AppendLog => LogInv'
<1> SUFFICES ASSUME LogInv, AppendLog PROVE LogInv'
  OBVIOUS
<1>1. /\ Types /\ WellFormed(log) /\ WellFormed(job.file) /\ log \in LogFile
      /\ log.version = "set" /\ log.last < MaxBlock
  BY DEF LogInv, Types, AppendLog, AppendAllowed
<1>2. /\ log' = [log EXCEPT !.last = @ + 1] /\ kept' = kept \union {log.last + 1}
      /\ pc' = "append_index" /\ index' = index /\ head' = head /\ job' = job
      /\ old' = old /\ backup' = backup
  BY DEF AppendLog
<1>3. /\ log' \in LogFile /\ log'.version = "set" /\ log'.first = log.first
      /\ log'.last = log.last + 1
  BY <1>1, <1>2, LogAssumption DEF LogFile
<1>4. log.first \in 1 .. MaxBlock /\ log.last \in Nat /\ log.first - 1 <= log.last
  BY <1>1, LogFacts DEF WellFormed
<1>m. damage' \in Damage
  BY <1>1, Zenon DEF AppendLog, Types
<1>5. Types'
  BY <1>1, <1>2, <1>3, <1>4, <1>m, StepNames, LogAssumption DEF Types, Numbers
<1>6. WellFormed(log)' /\ WellFormed(job.file)'
  BY <1>1, <1>2, <1>3, <1>4 DEF WellFormed
<1>7. Stage'
  BY <1>2, <1>3, <1>4 DEF Stage
<1>8. NothingLost'
  <2>1. Blocks(log)' = Blocks(log) \union {log.last + 1}
    BY <1>1, <1>3, <1>4 DEF Blocks
  <2> QED
    BY <1>2, <2>1 DEF LogInv, NothingLost
<1> QED
  BY <1>5, <1>6, <1>7, <1>8 DEF LogInv

LEMMA AppendIndexKeeps == LogInv /\ AppendIndex => LogInv'
<1> SUFFICES ASSUME LogInv, AppendIndex PROVE LogInv'
  OBVIOUS
<1>1. /\ Types /\ WellFormed(log) /\ WellFormed(job.file) /\ log \in LogFile
      /\ index \in Seq(Nat) /\ log.version # "empty" /\ log.first <= log.last
  BY DEF LogInv, Types, AppendIndex, Stage
<1>2. /\ log' = log /\ index' = Append(index, Pos(log.first, log.last)) /\ head' = log.last
      /\ pc' = IF log.version = "unset" THEN "reset_version" ELSE "ready"
      /\ job' = job /\ old' = old /\ backup' = backup /\ kept' = kept
  BY DEF AppendIndex
<1>3. log.first \in 1 .. MaxBlock /\ log.last \in 1 .. MaxBlock
  BY <1>1, LogFacts DEF WellFormed
<1>4. Pos(log.first, log.last) \in Nat
  BY <1>1, <1>3, PosAssumption
<1>5. HeadOf(log) = log.last /\ HeadOf(log)' = log.last
  BY <1>1, <1>2, <1>3 DEF HeadOf, NumBlocks
<1>m. damage' \in Damage
  BY <1>1, Zenon DEF AppendIndex, Types
<1>6. Types'
  <2>1. index' \in Seq(Nat)
    BY <1>1, <1>2, <1>4
  <2> QED
    BY <1>1, <1>2, <1>3, <1>m, <2>1, StepNames, LogAssumption DEF Types
<1>7. WellFormed(log)' /\ WellFormed(job.file)'
  BY <1>1, <1>2
<1>8. Stage'
  BY <1>1, <1>2, <1>5 DEF Stage
<1>9. NothingLost'
  BY <1>2 DEF LogInv, NothingLost
<1> QED
  BY <1>6, <1>7, <1>8, <1>9 DEF LogInv

(* reset: there is no head, so the log it removes has no blocks.           *)
LEMMA ResetRemoveKeeps == LogInv /\ ResetRemove => LogInv'
<1> SUFFICES ASSUME LogInv, ResetRemove PROVE LogInv'
  OBVIOUS
<1>1. /\ Types /\ WellFormed(log) /\ WellFormed(job.file) /\ log \in LogFile
      /\ head = 0 /\ head = HeadOf(log)
  BY DEF LogInv, Types, ResetRemove, Stage
<1>2. /\ log' = EmptyLog /\ pc' = "reset_index" /\ index' = index /\ head' = head
      /\ job' = job /\ old' = old /\ backup' = backup /\ kept' = kept
  BY DEF ResetRemove
<1>3. Blocks(log) = {}
  BY <1>1, NumFacts
<1>m. damage' \in Damage
  BY <1>1, Zenon DEF ResetRemove, Types
<1>4. Types'
  BY <1>1, <1>2, <1>m, EmptyLogFacts, StepNames DEF Types
<1>5. WellFormed(log)' /\ WellFormed(job.file)'
  BY <1>1, <1>2, EmptyLogFacts
<1>6. Stage'
  BY <1>1, <1>2 DEF Stage
<1>7. NothingLost'
  BY <1>2, <1>3 DEF LogInv, NothingLost
<1> QED
  BY <1>4, <1>5, <1>6, <1>7 DEF LogInv

LEMMA ResetHeaderKeeps ==
  ASSUME NEW f \in FirstBlocks, LogInv, ResetHeader(f)
  PROVE  LogInv'
<1>1. /\ Types /\ WellFormed(job.file) /\ log = EmptyLog /\ head = 0
  BY DEF LogInv, ResetHeader, Stage
<1>2. /\ log' = [version |-> "unset", first |-> f, last |-> f - 1, torn |-> FALSE]
      /\ index' = <<>> /\ pc' = (IF f = 1 THEN "reset_genesis" ELSE "reset_version")
      /\ head' = head /\ job' = job /\ old' = old /\ backup' = backup /\ kept' = kept
  BY DEF ResetHeader
<1>3. f \in 1 .. MaxBlock
  BY LogAssumption
<1>4. log' \in LogFile
  BY <1>2, <1>3, LogAssumption DEF LogFile
<1>5. log'.version = "unset" /\ log'.first = f /\ log'.last = f - 1
  BY <1>2
<1>6. NumBlocks(log)' = 0
  BY <1>3, <1>5 DEF NumBlocks
<1>m. damage' \in Damage
  BY Damages, Zenon DEF ResetHeader
<1>7. Types'
  <2>1. pc' \in Steps
    BY <1>2, StepNames
  <2>2. index' \in Seq(Nat)
    BY <1>2, EmptyIndex
  <2> QED
    BY <1>1, <1>2, <1>4, <1>m, <2>1, <2>2 DEF Types
<1>8. WellFormed(log)' /\ WellFormed(job.file)'
  BY <1>1, <1>2, <1>3, <1>5 DEF WellFormed
<1>9. Stage'
  <2>1. HeadOf(log)' = 0
    BY <1>6 DEF HeadOf
  <2>2. CASE f = 1
    BY <1>2, <1>5, <2>2 DEF Stage
  <2>3. CASE f # 1
    BY <1>1, <1>2, <1>5, <2>1, <2>3 DEF Stage
  <2> QED
    BY <2>2, <2>3
<1>10. NothingLost'
  BY <1>1, <1>2, EmptyLogFacts DEF LogInv, NothingLost
<1> QED
  BY <1>7, <1>8, <1>9, <1>10 DEF LogInv

LEMMA ResetGenesisKeeps == LogInv /\ ResetGenesis => LogInv'
<1> SUFFICES ASSUME LogInv, ResetGenesis PROVE LogInv'
  OBVIOUS
<1>1. /\ Types /\ WellFormed(log) /\ WellFormed(job.file) /\ log \in LogFile
      /\ log.version = "unset" /\ log.first = 1 /\ log.last = 0
  BY DEF LogInv, Types, ResetGenesis, Stage
<1>2. /\ log' = [log EXCEPT !.last = @ + 1] /\ kept' = kept \union {1}
      /\ pc' = "append_index" /\ index' = index /\ head' = head /\ job' = job
      /\ old' = old /\ backup' = backup
  BY DEF ResetGenesis
<1>3. 1 \in 1 .. MaxBlock
  BY <1>1, LogAssumption DEF WellFormed
<1>4. /\ log' \in LogFile /\ log'.version = "unset" /\ log'.first = 1 /\ log'.last = 1
  BY <1>1, <1>2, <1>3, LogAssumption DEF LogFile
<1>m. damage' \in Damage
  BY <1>1, Zenon DEF ResetGenesis, Types
<1>5. Types'
  BY <1>1, <1>2, <1>3, <1>4, <1>m, StepNames DEF Types, Numbers
<1>6. WellFormed(log)' /\ WellFormed(job.file)'
  BY <1>1, <1>2, <1>3, <1>4 DEF WellFormed
<1>7. Stage'
  BY <1>2, <1>4 DEF Stage
<1>8. NothingLost'
  <2>1. Blocks(log) = {} /\ Blocks(log)' = {1}
    BY <1>1, <1>4 DEF Blocks
  <2> QED
    BY <1>2, <2>1 DEF LogInv, NothingLost
<1> QED
  BY <1>5, <1>6, <1>7, <1>8 DEF LogInv

LEMMA ResetVersionKeeps == LogInv /\ ResetVersion => LogInv'
<1> SUFFICES ASSUME LogInv, ResetVersion PROVE LogInv'
  OBVIOUS
<1>1. /\ Types /\ WellFormed(log) /\ WellFormed(job.file) /\ log \in LogFile
      /\ log.version = "unset" /\ head = HeadOf(log)
  BY DEF LogInv, Types, ResetVersion, Stage
<1>2. /\ log' = [log EXCEPT !.version = "set"] /\ pc' = "ready"
      /\ index' = index /\ head' = head /\ job' = job
      /\ old' = old /\ backup' = backup /\ kept' = kept
  BY DEF ResetVersion
<1>3. /\ log' \in LogFile /\ log'.version = "set" /\ log'.first = log.first /\ log'.last = log.last
  BY <1>1, <1>2 DEF LogFile
<1>4. NumBlocks(log)' = NumBlocks(log) /\ Blocks(log)' = Blocks(log)
  BY <1>1, <1>3 DEF NumBlocks, Blocks
<1>m. damage' \in Damage
  BY <1>1, Zenon DEF ResetVersion, Types
<1>5. Types'
  BY <1>1, <1>2, <1>3, <1>m, StepNames DEF Types
<1>6. WellFormed(log)' /\ WellFormed(job.file)'
  BY <1>1, <1>2, <1>3 DEF WellFormed
<1>7. Stage'
  BY <1>1, <1>2, <1>3, <1>4 DEF Stage, HeadOf
<1>8. NothingLost'
  BY <1>2, <1>4 DEF LogInv, NothingLost
<1> QED
  BY <1>5, <1>6, <1>7, <1>8 DEF LogInv

LEMMA CloseKeeps == LogInv /\ Close => LogInv'
<1> SUFFICES ASSUME LogInv, Close PROVE LogInv'
  OBVIOUS
<1>1. Types /\ WellFormed(log) /\ WellFormed(job.file)
  BY DEF LogInv
<1>2. /\ log' = log /\ pc' = "closed" /\ index' = index /\ head' = 0 /\ job' = job
      /\ old' = old /\ backup' = backup /\ kept' = kept
  BY DEF Close
<1>m. damage' \in Damage
  BY <1>1, Zenon DEF Close, Types
<1>3. Types'
  BY <1>1, <1>2, <1>m, StepNames, LogAssumption DEF Types
<1>4. WellFormed(log)' /\ WellFormed(job.file)' /\ Stage' /\ NothingLost'
  BY <1>1, <1>2 DEF Stage, LogInv, NothingLost
<1> QED
  BY <1>3, <1>4 DEF LogInv

(* trim_blocklog_end gives up what it cuts off.                            *)
LEMMA TrimEndKeeps ==
  ASSUME NEW n \in 1 .. MaxBlock, LogInv, TrimEnd(n)
  PROVE  LogInv'
<1>1. /\ Types /\ WellFormed(log) /\ log \in LogFile /\ index \in Seq(Nat)
      /\ log.version = "set" /\ log.first <= n /\ n < LastIndexed /\ n + 1 \in Blocks(log)
  BY DEF LogInv, Types, TrimEnd, TrimData, Located
<1>2. /\ log' = [log EXCEPT !.last = n, !.torn = FALSE]
      /\ kept' = {b \in kept : b <= n} /\ pc' = "trim_end"
      /\ job' = [NoJob EXCEPT !.todo = n - log.first + 1]
      /\ index' = index /\ head' = head /\ old' = old /\ backup' = backup
  BY DEF TrimEnd
<1>3. /\ log.first \in 1 .. MaxBlock /\ log.last \in Nat /\ n < log.last
      /\ n \in 1 .. MaxBlock /\ Len(index) \in Nat
  BY <1>1, LogFacts DEF WellFormed, Blocks
<1>4. n \in 0 .. MaxBlock /\ FALSE \in BOOLEAN
  BY <1>3
<1>5. log' \in LogFile /\ log'.version = "set" /\ log'.first = log.first /\ log'.last = n
  BY <1>1, <1>2, <1>4, CutLog
<1>6. n - log.first + 1 \in 0 .. MaxBlock /\ NumBlocks(log)' = n - log.first + 1
  BY <1>1, <1>3, <1>5, LogAssumption DEF NumBlocks
<1>7. job' \in Jobs /\ job'.file = EmptyLog /\ job'.todo = n - log.first + 1
  BY <1>2, <1>6, JobTodo
<1>m. damage' \in Damage
  BY <1>1, Zenon DEF TrimEnd, Types
<1>8. Types'
  BY <1>1, <1>2, <1>5, <1>7, <1>m, StepNames DEF Types
<1>9. WellFormed(log)' /\ WellFormed(job.file)'
  BY <1>1, <1>3, <1>5, <1>7, EmptyLogFacts DEF WellFormed
<1>10. Stage'
  <2>1. job'.todo <= Len(index')
    BY <1>1, <1>2, <1>3, <1>7 DEF LastIndexed
  <2> QED
    BY <1>2, <1>5, <1>6, <1>7, <2>1 DEF Stage
<1>11. NothingLost'
  <2>1. Blocks(log) = log.first .. log.last /\ Blocks(log)' = log.first .. n
    BY <1>1, <1>5 DEF Blocks
  <2>2. kept \subseteq Blocks(log) \union old \union backup
    BY DEF LogInv, NothingLost
  <2>3. kept' \subseteq Blocks(log)' \union old \union backup
    BY <1>2, <1>3, <2>1, <2>2
  <2> QED
    BY <1>2, <2>3 DEF NothingLost
<1> QED
  BY <1>8, <1>9, <1>10, <1>11 DEF LogInv

LEMMA TrimEndIndexKeeps == LogInv /\ TrimEndIndex => LogInv'
<1> SUFFICES ASSUME LogInv, TrimEndIndex PROVE LogInv'
  OBVIOUS
<1>1. /\ Types /\ WellFormed(log) /\ log \in LogFile /\ index \in Seq(Nat) /\ job \in Jobs
      /\ job.todo <= Len(index)
  BY DEF LogInv, Types, TrimEndIndex, Stage
<1>2. /\ log' = log /\ index' = SubSeq(index, 1, job.todo) /\ head' = head
      /\ pc' = "closed" /\ job' = NoJob /\ old' = old /\ backup' = backup /\ kept' = kept
  BY DEF TrimEndIndex
<1>3. index' \in Seq(Nat)
  BY <1>1, <1>2, JobFacts, LogAssumption
<1>m. damage' \in Damage
  BY <1>1, Damages DEF TrimEndIndex, Types
<1>4. Types'
  BY <1>1, <1>2, <1>3, <1>m, StepNames, EmptyLogFacts DEF Types
<1>5. WellFormed(log)' /\ WellFormed(job.file)' /\ Stage' /\ NothingLost'
  BY <1>1, <1>2, EmptyLogFacts DEF Stage, LogInv, NothingLost
<1> QED
  BY <1>4, <1>5 DEF LogInv

(* trim_blocklog_front keeps the whole log as old.log.                     *)
LEMMA TrimFrontKeeps ==
  ASSUME NEW n \in 1 .. MaxBlock, LogInv, TrimFront(n)
  PROVE  LogInv'
<1>1. /\ Types /\ WellFormed(log) /\ log \in LogFile
      /\ log.version = "set" /\ n \in Blocks(log)
  BY DEF LogInv, Types, TrimFront, TrimData, Located
<1>2. /\ log' = EmptyLog /\ old' = Blocks(log) /\ pc' = "trim_log"
      /\ kept' = {b \in kept \intersect Blocks(log) : b >= n}
      /\ job' = [NoJob EXCEPT !.file = [log EXCEPT !.first = n]]
      /\ index' = index /\ head' = head /\ backup' = backup
  BY DEF TrimFront
<1>3. n <= log.last /\ log.last \in Nat
  BY <1>1, LogFacts DEF Blocks, WellFormed
<1>4. [log EXCEPT !.first = n] \in LogFile
  BY <1>1, LogAssumption DEF LogFile
<1>5. job' \in Jobs /\ job'.file = [log EXCEPT !.first = n]
  BY <1>2, <1>4, JobFile
<1>6. job'.file.version = "set" /\ job'.file.first = n /\ job'.file.last = log.last
  BY <1>1, <1>5 DEF LogFile
<1>m. damage' \in Damage
  BY <1>1, Zenon DEF TrimFront, Types
<1>7. Types'
  BY <1>1, <1>2, <1>5, <1>m, NumFacts, EmptyLogFacts, StepNames DEF Types
<1>8. WellFormed(log)' /\ WellFormed(job.file)'
  BY <1>2, <1>3, <1>6, EmptyLogFacts DEF WellFormed
<1>9. Stage' /\ NothingLost'
  BY <1>2, <1>6 DEF Stage, NothingLost
<1> QED
  BY <1>7, <1>8, <1>9 DEF LogInv

LEMMA TrimRenamesKeep == LogInv /\ (TrimLog \/ TrimOldIndex \/ TrimIndex) => LogInv'
<1> SUFFICES ASSUME LogInv, TrimLog \/ TrimOldIndex \/ TrimIndex PROVE LogInv'
  OBVIOUS
<1>1. /\ Types /\ WellFormed(log) /\ WellFormed(job.file) /\ log \in LogFile /\ job \in Jobs
      /\ index \in Seq(Nat)
  BY DEF LogInv, Types
<1>2. head' = head /\ old' = old /\ backup' = backup /\ kept' = kept
  BY DEF TrimLog, TrimOldIndex, TrimIndex
<1>m. damage' \in Damage
  BY <1>1, Damages, Zenon DEF TrimLog, TrimOldIndex, TrimIndex, Types
<1>3. CASE TrimLog
  <2>1. /\ log' = job.file /\ pc' = "trim_old_index" /\ index' = index /\ job' = job
        /\ log = EmptyLog /\ job.file.version = "set"
    BY <1>3 DEF TrimLog, LogInv, Stage
  <2>2. Types'
    BY <1>1, <1>2, <1>m, <2>1, JobFacts, StepNames DEF Types
  <2>3. WellFormed(log)' /\ WellFormed(job.file)' /\ Stage'
    BY <1>1, <2>1 DEF Stage
  <2>4. NothingLost'
    BY <1>2, <2>1, EmptyLogFacts DEF LogInv, NothingLost
  <2> QED
    BY <2>2, <2>3, <2>4 DEF LogInv
<1>4. CASE TrimOldIndex
  <2>1. /\ log' = log /\ pc' = "trim_index" /\ index' = <<>> /\ job' = job
        /\ log.version = "set"
    BY <1>4 DEF TrimOldIndex, LogInv, Stage
  <2>2. Types'
    BY <1>1, <1>2, <1>m, <2>1, EmptyIndex, StepNames DEF Types
  <2>3. WellFormed(log)' /\ WellFormed(job.file)' /\ Stage' /\ NothingLost'
    BY <1>1, <1>2, <2>1 DEF Stage, LogInv, NothingLost
  <2> QED
    BY <2>2, <2>3 DEF LogInv
<1>5. CASE TrimIndex
  <2>1. /\ log' = log /\ pc' = "closed" /\ index' = IndexOf(log) /\ job' = NoJob
    BY <1>5 DEF TrimIndex
  <2>2. index' \in Seq(Nat)
    <3>1. ASSUME NEW i \in 1 .. NumBlocks(log)
          PROVE  Pos(log.first, log.first + i - 1) \in Nat
      <4>1. /\ log.first \in 1 .. MaxBlock /\ log.last \in Nat /\ log.last <= MaxBlock
            /\ NumBlocks(log) = log.last - log.first + 1
        BY <1>1, LogFacts DEF WellFormed, NumBlocks
      <4>2. log.first + i - 1 \in 1 .. MaxBlock /\ log.first <= log.first + i - 1
        BY <4>1, LogAssumption
      <4> QED
        BY <4>1, <4>2, PosAssumption
    <3>2. NumBlocks(log) \in Nat
      BY <1>1, NumFacts, LogAssumption
    <3> QED
      BY <2>1, <3>1, <3>2 DEF IndexOf
  <2>3. Types'
    BY <1>1, <1>2, <1>m, <2>1, <2>2, EmptyLogFacts, StepNames DEF Types
  <2>4. WellFormed(log)' /\ WellFormed(job.file)' /\ Stage' /\ NothingLost'
    BY <1>1, <1>2, <2>1, EmptyLogFacts DEF Stage, LogInv, NothingLost
  <2> QED
    BY <2>3, <2>4 DEF LogInv
<1> QED
  BY <1>3, <1>4, <1>5

(* repair_log moves the directory away before it copies anything.          *)
LEMMA RepairStartKeeps == LogInv /\ RepairStart => LogInv'
<1> SUFFICES ASSUME LogInv, RepairStart PROVE LogInv'
  OBVIOUS
<1>1. /\ Types /\ WellFormed(log) /\ WellFormed(job.file) /\ log \in LogFile
  BY DEF LogInv, Types
<1>2. /\ log' = EmptyLog /\ index' = <<>> /\ head' = head /\ old' = old /\ kept' = kept
      /\ backup' = backup \union Blocks(log)
      /\ \/ log.version = "set" /\ pc' = "repair" /\ job' = [NoJob EXCEPT !.file = log]
         \/ pc' = "closed" /\ job' = job
  BY DEF RepairStart
<1>3. \/ pc' = "repair" /\ job' \in Jobs /\ job'.file = log /\ log.version = "set"
      \/ pc' = "closed" /\ job' = job
  BY <1>1, <1>2, JobFile
<1>m. damage' \in Damage
  BY Damages, Zenon DEF RepairStart
<1>4. Types'
  <2>1. Blocks(log) \subseteq Numbers
    BY <1>1, NumFacts
  <2>2. job' \in Jobs /\ pc' \in Steps
    BY <1>1, <1>3, StepNames DEF Types
  <2>3. index' \in Seq(Nat)
    BY <1>2, EmptyIndex
  <2> QED
    BY <1>1, <1>2, <1>m, <2>1, <2>2, <2>3, EmptyLogFacts DEF Types
<1>5. WellFormed(log)' /\ WellFormed(job.file)'
  BY <1>1, <1>2, <1>3, EmptyLogFacts
<1>6. Stage'
  <2>1. EmptyLog.last <= log.last /\ EmptyLog.version = "empty"
    BY <1>1, LogFacts DEF EmptyLog
  <2> QED
    BY <1>2, <1>3, <2>1 DEF Stage
<1>7. NothingLost'
  BY <1>2 DEF LogInv, NothingLost
<1> QED
  BY <1>4, <1>5, <1>6, <1>7 DEF LogInv

LEMMA RepairCopyKeeps == LogInv /\ RepairCopy => LogInv'
<1> SUFFICES ASSUME LogInv, RepairCopy PROVE LogInv'
  OBVIOUS
<1>1. /\ Types /\ WellFormed(log) /\ WellFormed(job.file) /\ log \in LogFile /\ job \in Jobs
      /\ job.file.version = "set" /\ log.last <= job.file.last
      /\ log.version \in {"empty", "set"}
  BY DEF LogInv, Types, RepairCopy, Stage
<1>2. /\ index' = index /\ head' = head /\ pc' = pc /\ pc = "repair" /\ job' = job
      /\ old' = old /\ backup' = backup /\ kept' = kept
      /\ IF log.version = "empty"
         THEN log' = [job.file EXCEPT !.last = job.file.first - 1, !.torn = FALSE]
         ELSE log.last < job.file.last /\ log' = [log EXCEPT !.last = @ + 1]
  BY DEF RepairCopy
<1>3. /\ job.file \in LogFile /\ job.file.first \in 1 .. MaxBlock /\ job.file.last \in Nat
      /\ job.file.last <= MaxBlock /\ job.file.first - 1 <= job.file.last
  BY <1>1, JobFacts, LogFacts DEF WellFormed
<1>4. /\ log' \in LogFile /\ log'.version = "set" /\ log'.last <= job.file.last
      /\ WellFormed(log)' /\ Blocks(log) \subseteq Blocks(log)'
  <2>1. CASE log.version = "empty"
    <3>1. job.file.first - 1 \in 0 .. MaxBlock /\ FALSE \in BOOLEAN
      BY <1>3, LogAssumption
    <3>2. /\ log' \in LogFile /\ log'.version = "set" /\ log'.last = job.file.first - 1
          /\ log'.first = job.file.first
      <4>1. log' = [job.file EXCEPT !.last = job.file.first - 1, !.torn = FALSE]
        BY <1>2, <2>1
      <4> QED
        BY <1>1, <1>3, <3>1, <4>1, CutLog, Zenon
    <3> QED
      BY <1>3, <2>1, <3>2 DEF WellFormed, Blocks
  <2>2. CASE log.version # "empty"
    <3>1. log.first \in 1 .. MaxBlock /\ log.last \in Nat /\ log.first - 1 <= log.last
      BY <1>1, <2>2, LogFacts DEF WellFormed
    <3>2. /\ log' \in LogFile /\ log'.version = "set" /\ log'.last = log.last + 1
          /\ log'.first = log.first
      BY <1>1, <1>2, <1>3, <2>2, <3>1, LogAssumption DEF LogFile
    <3> QED
      BY <1>2, <1>3, <2>2, <3>1, <3>2 DEF WellFormed, Blocks
  <2> QED
    BY <2>1, <2>2
<1>m. damage' \in Damage
  BY <1>1, Zenon DEF RepairCopy, Types
<1>5. Types'
  BY <1>1, <1>2, <1>4, <1>m DEF Types
<1>6. WellFormed(job.file)' /\ Stage' /\ NothingLost'
  BY <1>1, <1>2, <1>4 DEF Stage, LogInv, NothingLost
<1> QED
  BY <1>4, <1>5, <1>6 DEF LogInv

LEMMA RepairStopKeeps == LogInv /\ RepairStop => LogInv'
<1> SUFFICES ASSUME LogInv, RepairStop PROVE LogInv'
  OBVIOUS
<1>1. Types /\ WellFormed(log)
  BY DEF LogInv
<1>2. /\ log' = log /\ pc' = "closed" /\ index' = index /\ head' = head /\ job' = NoJob
      /\ old' = old /\ backup' = backup /\ kept' = kept
  BY DEF RepairStop
<1>m. damage' \in Damage
  BY <1>1, Zenon DEF RepairStop, Types
<1>3. Types'
  BY <1>1, <1>2, <1>m, StepNames, EmptyLogFacts DEF Types
<1>4. WellFormed(log)' /\ WellFormed(job.file)' /\ Stage' /\ NothingLost'
  BY <1>1, <1>2, EmptyLogFacts DEF Stage, LogInv, NothingLost
<1> QED
  BY <1>3, <1>4 DEF LogInv

(* The process dies: the calls leave what they wrote.                      *)
LEMMA CrashKeeps == LogInv /\ Crash => LogInv'
<1> SUFFICES ASSUME LogInv, Crash PROVE LogInv'
  OBVIOUS
<1>1. Types /\ WellFormed(log) /\ log \in LogFile
  BY DEF LogInv, Types
<1>2. PICK torn \in BOOLEAN : log' = [log EXCEPT !.torn = torn]
  BY DEF Crash
<1>3. /\ pc' = "closed" /\ index' = index /\ head' = 0 /\ job' = NoJob
      /\ old' = old /\ backup' = backup /\ kept' = kept
  BY DEF Crash
<1>4. /\ log' \in LogFile /\ log'.version = log.version /\ log'.first = log.first
      /\ log'.last = log.last
  BY <1>1, <1>2, TornLog, Zenon
<1>m. damage' \in Damage
  BY <1>1, Damages DEF Crash, Types
<1>6. Types'
  BY <1>1, <1>3, <1>4, <1>m, StepNames, EmptyLogFacts, LogAssumption DEF Types
<1>7. WellFormed(log)' /\ WellFormed(job.file)'
  BY <1>1, <1>3, <1>4, EmptyLogFacts DEF WellFormed
<1>8. Stage'
  BY <1>3 DEF Stage
<1>9. NothingLost'
  <2>1. Blocks(log)' = Blocks(log)
    BY <1>4 DEF Blocks
  <2> QED
    BY <1>3, <2>1 DEF LogInv, NothingLost
<1> QED
  BY <1>6, <1>7, <1>8, <1>9 DEF LogInv

(* The machine dies: the blocks that are lost are given up.                *)
LEMMA LosePowerKeeps == LogInv /\ LosePower => LogInv'
<1> SUFFICES ASSUME LogInv, LosePower PROVE LogInv'
  OBVIOUS
<1>1. /\ Types /\ WellFormed(log) /\ log \in LogFile /\ index \in Seq(Nat)
      /\ log.version = "set"
  BY DEF LogInv, Types, LosePower
<1>2. PICK last \in log.first - 1 .. log.last, n \in 0 .. Len(index), torn \in BOOLEAN :
        /\ log' = [log EXCEPT !.last = last, !.torn = torn]
        /\ index' = SubSeq(index, 1, n)
        /\ kept' = kept \ (last + 1 .. log.last)
  BY DEF LosePower
<1>3. /\ pc' = "closed" /\ head' = 0 /\ job' = NoJob /\ old' = old /\ backup' = backup
  BY DEF LosePower
<1>4. /\ log.first \in 1 .. MaxBlock /\ log.last \in Nat /\ log.last <= MaxBlock
      /\ last \in 0 .. MaxBlock /\ log.first - 1 <= last /\ last <= log.last
  BY <1>1, LogFacts, LogAssumption DEF WellFormed
<1>5. /\ log' \in LogFile /\ log'.version = "set" /\ log'.first = log.first /\ log'.last = last
  <2>1. log \in LogFile /\ last \in 0 .. MaxBlock /\ torn \in BOOLEAN
    BY <1>1, <1>4
  <2>2. log' = [log EXCEPT !.last = last, !.torn = torn]
    BY <1>2
  <2>3. /\ [log EXCEPT !.last = last, !.torn = torn] \in LogFile
        /\ [log EXCEPT !.last = last, !.torn = torn].version = log.version
        /\ [log EXCEPT !.last = last, !.torn = torn].first = log.first
        /\ [log EXCEPT !.last = last, !.torn = torn].last = last
    BY <2>1, CutLog, Zenon
  <2> QED
    BY <1>1, <2>2, <2>3, Zenon
<1>6. index' \in Seq(Nat)
  BY <1>1, <1>2
<1>m. damage' \in Damage
  BY <1>1, Damages DEF LosePower, Types
<1>7. Types'
  BY <1>1, <1>2, <1>3, <1>5, <1>6, <1>m, StepNames, EmptyLogFacts, LogAssumption DEF Types
<1>8. WellFormed(log)' /\ WellFormed(job.file)'
  BY <1>3, <1>4, <1>5, EmptyLogFacts DEF WellFormed
<1>9. Stage'
  BY <1>3 DEF Stage
<1>10. NothingLost'
  <2>1. Blocks(log) = log.first .. log.last /\ Blocks(log)' = log.first .. last
    BY <1>1, <1>5 DEF Blocks
  <2>2. Blocks(log) \subseteq Blocks(log)' \union (last + 1 .. log.last)
    BY <1>4, <2>1
  <2> QED
    BY <1>2, <1>3, <2>2 DEF LogInv, NothingLost
<1> QED
  BY <1>7, <1>8, <1>9, <1>10 DEF LogInv

(* The same while the index is rebuilt.                                    *)
LEMMA LosePowerBuildingKeeps == LogInv /\ LosePowerBuilding => LogInv'
<1> SUFFICES ASSUME LogInv, LosePowerBuilding PROVE LogInv'
  OBVIOUS
<1>1. /\ Types /\ WellFormed(log) /\ log \in LogFile /\ job \in Jobs
      /\ log.version = "set"
  BY DEF LogInv, Types, Stage, LosePowerBuilding
<1>2. PICK last \in log.first - 1 .. log.last, start \in job.todo .. NumBlocks(log), torn \in BOOLEAN :
        /\ log' = [log EXCEPT !.last = last, !.torn = torn]
        /\ index' = IF start = NumBlocks(log) THEN <<>> ELSE Written(start)
        /\ kept' = kept \ (last + 1 .. log.last)
  BY DEF LosePowerBuilding
<1>3. /\ pc' = "closed" /\ head' = 0 /\ job' = NoJob /\ old' = old /\ backup' = backup
  BY DEF LosePowerBuilding
<1>4. /\ log.first \in 1 .. MaxBlock /\ log.last \in Nat /\ log.last <= MaxBlock
      /\ last \in 0 .. MaxBlock /\ log.first - 1 <= last /\ last <= log.last
  BY <1>1, LogFacts, LogAssumption DEF WellFormed
<1>5. /\ log' \in LogFile /\ log'.version = "set" /\ log'.first = log.first /\ log'.last = last
  <2>1. log \in LogFile /\ last \in 0 .. MaxBlock /\ torn \in BOOLEAN
    BY <1>1, <1>4
  <2>2. log' = [log EXCEPT !.last = last, !.torn = torn]
    BY <1>2
  <2>3. /\ [log EXCEPT !.last = last, !.torn = torn] \in LogFile
        /\ [log EXCEPT !.last = last, !.torn = torn].version = log.version
        /\ [log EXCEPT !.last = last, !.torn = torn].first = log.first
        /\ [log EXCEPT !.last = last, !.torn = torn].last = last
    BY <2>1, CutLog, Zenon
  <2> QED
    BY <1>1, <2>2, <2>3, Zenon
<1>6. index' \in Seq(Nat)
  <2>1. start \in Int
    BY <1>1, JobFacts, LogAssumption
  <2> QED
    BY <1>1, <1>2, <2>1, WrittenSeq, EmptyIndex
<1>m. damage' \in Damage
  BY Damages DEF LosePowerBuilding
<1>7. Types'
  BY <1>1, <1>2, <1>3, <1>5, <1>6, <1>m, StepNames, EmptyLogFacts, LogAssumption DEF Types
<1>8. WellFormed(log)' /\ WellFormed(job.file)'
  BY <1>3, <1>4, <1>5, EmptyLogFacts DEF WellFormed
<1>9. Stage'
  BY <1>3 DEF Stage
<1>10. NothingLost'
  <2>1. Blocks(log) = log.first .. log.last /\ Blocks(log)' = log.first .. last
    BY <1>1, <1>5 DEF Blocks
  <2>2. Blocks(log) \subseteq Blocks(log)' \union (last + 1 .. log.last)
    BY <1>4, <2>1
  <2> QED
    BY <1>2, <1>3, <2>2 DEF LogInv, NothingLost
<1> QED
  BY <1>7, <1>8, <1>9, <1>10 DEF LogInv

LEMMA StutterKeeps == LogInv /\ UNCHANGED vars => LogInv'
BY DEF vars, LogInv, Types, Stage, NothingLost, WellFormed, HeadOf, NumBlocks, Blocks

LEMMA NextLogInv == LogInv /\ [Next]_vars => LogInv'
BY OpenKeeps, MakeIndexKeeps, BuildIndexKeeps, AppendLogKeeps, AppendIndexKeeps, CloseKeeps,
   ResetRemoveKeeps, ResetHeaderKeeps, ResetGenesisKeeps, ResetVersionKeeps, TrimEndKeeps,
   TrimEndIndexKeeps, TrimFrontKeeps, TrimRenamesKeep, RepairStartKeeps, RepairCopyKeeps,
   RepairStopKeeps, CrashKeeps, LosePowerKeeps, LosePowerBuildingKeeps,
   StutterKeeps
   DEF Next

(* What the steps of open, append, reset, trim and repair find in the      *)
(* files, in every reachable state.                                        *)
THEOREM LogInvariant == Spec => []LogInv
BY InitLogInv, NextLogInv, PTL DEF Spec

(* The files and the head have their types.                                *)
THEOREM TypeCorrect == Spec => []TypeOK
<1>1. LogInv => TypeOK
  BY TypesOK DEF LogInv
<1> QED
  BY <1>1, LogInvariant, PTL

(* No crash, trim, repair or reset loses a completely written block that   *)
(* nobody gave up, whatever the number of blocks and buffers.              *)
THEOREM BlocksKept == Spec => []NothingLost
<1>1. LogInv => NothingLost
  BY DEF LogInv
<1> QED
  BY <1>1, LogInvariant, PTL
-----------------------------------------------------------------------------
(* Indexes and logs.                                                       *)
LEMMA EmptyEntries == \A f : Entries(f, <<>>)
BY DEF Entries

LEMMA SubEntries ==
  ASSUME NEW f \in Nat, NEW ix \in Seq(Nat), Entries(f, ix), NEW n \in 0 .. Len(ix)
  PROVE  Entries(f, SubSeq(ix, 1, n)) /\ Len(SubSeq(ix, 1, n)) = n
<1>1. Len(SubSeq(ix, 1, n)) = n /\ \A i \in 1 .. n : SubSeq(ix, 1, n)[i] = ix[i]
  OBVIOUS
<1> QED
  BY <1>1 DEF Entries

(* The index that belongs to a log is the one with its entries and length. *)
LEMMA ExactIsIndexOf ==
  ASSUME NEW l \in LogFile, WellFormed(l), NEW ix \in Seq(Nat), Exact(l, ix)
  PROVE  ix = IndexOf(l)
<1>1. ix = [i \in 1 .. Len(ix) |-> ix[i]]
  OBVIOUS
<1>2. \A i \in 1 .. Len(ix) : ix[i] = Pos(l.first, l.first + i - 1)
  BY DEF Exact, Entries
<1>3. Len(ix) = NumBlocks(l)
  BY DEF Exact
<1> QED
  BY <1>1, <1>2, <1>3 DEF IndexOf

LEMMA IndexOfExact ==
  ASSUME NEW l \in LogFile, WellFormed(l)
  PROVE  Exact(l, IndexOf(l)) /\ IndexOf(l) \in Seq(Nat)
<1>1. NumBlocks(l) \in Nat
  BY NumFacts, LogAssumption
<1>2. ASSUME NEW i \in 1 .. NumBlocks(l)
      PROVE  l.first + i - 1 <= MaxBlock /\ Pos(l.first, l.first + i - 1) \in Nat
  <2>1. l.version # "empty"
    BY DEF NumBlocks
  <2>2. /\ l.first \in 1 .. MaxBlock /\ l.last \in Nat /\ l.last <= MaxBlock
        /\ NumBlocks(l) = l.last - l.first + 1
    BY <2>1, LogFacts DEF WellFormed, NumBlocks
  <2>3. l.first + i - 1 \in 1 .. MaxBlock /\ l.first <= l.first + i - 1
    BY <2>2, LogAssumption
  <2> QED
    BY <2>2, <2>3, PosAssumption
<1>3. Len(IndexOf(l)) = NumBlocks(l) /\ IndexOf(l) \in Seq(Nat)
  BY <1>1, <1>2 DEF IndexOf
<1>4. Entries(l.first, IndexOf(l))
  BY <1>1, <1>2, <1>3 DEF Entries, IndexOf
<1> QED
  BY <1>3, <1>4 DEF Exact

(* The index of the log before a front trim has too many entries, also     *)
(* when the log is cut afterwards.                                         *)
LEMMA StaleLonger ==
  ASSUME NEW l \in LogFile, WellFormed(l), l.version = "set", NEW ix \in Seq(Nat),
         Len(ix) = NumBlocks(l)
  PROVE  ~Stale(l, ix)
<1>1. l.first \in Nat /\ l.last \in Nat /\ NumBlocks(l) = l.last - l.first + 1
  BY LogFacts DEF NumBlocks
<1> QED
  BY <1>1 DEF Stale

LEMMA StaleCut ==
  ASSUME NEW l \in LogFile, NEW ix \in Seq(Nat), Stale(l, ix),
         NEW m, m.first = l.first, m.last \in Int, m.last <= l.last
  PROVE  Stale(m, ix)
<1>1. PICK f \in 1 .. l.first - 1 : Entries(f, ix) /\ l.last <= f + Len(ix) - 1
  BY DEF Stale
<1>2. l.first \in Nat /\ l.last \in Nat
  BY LogFacts
<1>3. m.last <= f + Len(ix) - 1
  BY <1>1, <1>2
<1> QED
  BY <1>1, <1>3 DEF Stale

(* The check of open: comparing the last positions is enough.  An index    *)
(* with too few or too many entries ends at another position, and so does  *)
(* the index of the log before a front trim.                               *)
LEMMA UpToDateExact ==
  ASSUME NEW l \in LogFile, WellFormed(l), l.version = "set", NEW ix \in Seq(Nat),
         Follows(l, ix), UpToDate(l, ix)
  PROVE  Exact(l, ix)
<1> DEFINE k == Len(ix)
<1>1. /\ l.first \in 1 .. MaxBlock /\ l.last \in 1 .. MaxBlock /\ l.first <= l.last
      /\ NumBlocks(l) = l.last - l.first + 1
  BY LogFacts DEF WellFormed, UpToDate, NumBlocks
<1>2. k \in Nat \ {0} /\ ix[k] = Pos(l.first, l.last)
  BY DEF UpToDate
<1>3. CASE Entries(l.first, ix)
  <2>1. l.first + k - 1 \in 1 .. MaxBlock /\ ix[k] = Pos(l.first, l.first + k - 1)
    BY <1>1, <1>2, <1>3, LogAssumption DEF Entries
  <2>2. l.first <= l.first + k - 1
    BY <1>1, <1>2, LogAssumption
  <2>3. ~ (l.first + k - 1 < l.last)
    <3>1. ASSUME l.first + k - 1 < l.last PROVE FALSE
      <4>1. l.last \in (l.first + k - 1) + 1 .. MaxBlock
        BY <1>1, <2>1, <3>1, LogAssumption
      <4>2. /\ Pos(l.first, l.first + k - 1) < Pos(l.first, l.last)
            /\ Pos(l.first, l.last) \in Nat
        BY <1>1, <2>1, <2>2, <4>1, PosAssumption
      <4> QED
        BY <1>2, <2>1, <4>2
    <3> QED
      BY <3>1
  <2>4. ~ (l.last < l.first + k - 1)
    <3>1. ASSUME l.last < l.first + k - 1 PROVE FALSE
      <4>1. l.first + k - 1 \in l.last + 1 .. MaxBlock
        BY <1>1, <2>1, <3>1, LogAssumption
      <4>2. /\ Pos(l.first, l.last) < Pos(l.first, l.first + k - 1)
            /\ Pos(l.first, l.last) \in Nat
        BY <1>1, <4>1, PosAssumption
      <4> QED
        BY <1>2, <2>1, <4>2
    <3> QED
      BY <3>1
  <2>5. k = NumBlocks(l)
    BY <1>1, <1>2, <2>1, <2>3, <2>4, LogAssumption
  <2> QED
    BY <1>3, <2>5 DEF Exact
<1>4. CASE Stale(l, ix)
  <2>1. PICK f \in 1 .. l.first - 1 : Entries(f, ix) /\ l.last <= f + k - 1
    BY <1>4 DEF Stale
  <2>2. f \in 1 .. MaxBlock /\ f + k - 1 \in 1 .. MaxBlock /\ ix[k] = Pos(f, f + k - 1)
    BY <1>1, <1>2, <2>1, LogAssumption DEF Entries
  <2>3. l.first \in f + 1 .. l.last /\ f <= l.last
    BY <1>1, <2>1, LogAssumption
  <2>4. Pos(l.first, l.last) < Pos(f, l.last)
    BY <1>1, <2>2, <2>3, PosAssumption
  <2>5. f + k - 1 = l.last \/ f + k - 1 \in l.last + 1 .. MaxBlock
    BY <1>1, <1>2, <2>1, <2>2, LogAssumption
  <2>6. f + k - 1 = l.last \/ Pos(f, l.last) < Pos(f, f + k - 1)
    BY <1>1, <2>2, <2>3, <2>5, PosAssumption
  <2>7. /\ Pos(f, l.last) \in Nat /\ Pos(l.first, l.last) \in Nat
        /\ Pos(f, f + k - 1) \in Nat
    BY <1>1, <1>2, <2>2, <2>3, PosAssumption
  <2> QED
    BY <1>2, <2>2, <2>4, <2>6, <2>7
<1> QED
  BY <1>3, <1>4 DEF Follows
-----------------------------------------------------------------------------
(* One lemma per action: an index that is not harmed is the one the next   *)
(* step expects.                                                           *)
LEMMA OpenIndex ==
  ASSUME LogInv, IndexInv, Open, ~Harmed'
  PROVE  IndexStage'
<1>1. log \in LogFile /\ WellFormed(log) /\ index \in Seq(Nat)
  BY DEF LogInv, Types
<1>2. log' = log /\ pc = "closed" /\ log.version # "unset"
  BY DEF Open
<1>3. CASE log.version = "empty"
  <2>1. index' = <<>> /\ pc' = "ready"
    BY <1>3 DEF Open
  <2>2. Exact(log, index)'
    BY <1>2, <1>3, <2>1, EmptyEntries, EmptyIndex DEF Exact, NumBlocks
  <2>3. damage' = "none"
    BY <1>3 DEF Open
  <2> QED
    BY <2>1, <2>2, <2>3 DEF IndexStage
<1>4. CASE log.version # "empty" /\ UpToDate(log, index)
  <2>1. index' = index /\ pc' = "ready" /\ damage' = damage
    BY <1>4 DEF Open
  <2>2. log.version = "set"
    BY <1>1, <1>2, <1>4, LogFacts
  <2>3. /\ IF damage = "old" THEN Stale(log, index) ELSE Entries(log.first, index)
        /\ Follows(log, index)
    BY <1>2, <2>1, <2>2 DEF IndexInv, IndexStage, Follows, Harmed
  <2>4. Exact(log, index)
    BY <1>1, <1>4, <2>2, <2>3, UpToDateExact
  <2>5. Exact(log, index)'
    BY <1>2, <2>1, <2>4 DEF Exact, Entries, NumBlocks
  <2>6. damage # "old"
    BY <1>1, <2>2, <2>3, <2>4, StaleLonger DEF Exact
  <2> QED
    BY <2>1, <2>5, <2>6 DEF IndexStage
<1>5. CASE log.version # "empty" /\ ~UpToDate(log, index)
  <2>1. /\ index' = <<>> /\ pc' = "building"
        /\ job' = [NoJob EXCEPT !.todo = NumBlocks(log), !.back = "ready"]
    BY <1>5 DEF Open
  <2>2. job'.todo = NumBlocks(log)
    BY <2>1 DEF NoJob
  <2>3. NumBlocks(log)' = NumBlocks(log) /\ damage' = "none"
    BY <1>2, <1>5 DEF Open
  <2> QED
    BY <2>1, <2>2, <2>3 DEF IndexStage
<1> QED
  BY <1>3, <1>4, <1>5

LEMMA MakeIndexIndex ==
  ASSUME LogInv, MakeIndex
  PROVE  IndexStage'
<1>1. /\ index' = <<>> /\ pc' = "building" /\ log' = log /\ damage' = "none"
      /\ job' = [NoJob EXCEPT !.todo = NumBlocks(log)]
  BY DEF MakeIndex
<1>2. job'.todo = NumBlocks(log) /\ NumBlocks(log)' = NumBlocks(log)
  BY <1>1 DEF NoJob
<1> QED
  BY <1>1, <1>2 DEF IndexStage

(* Each buffer is written before the next; the last one ends the index.    *)
LEMMA BuildIndexIndex ==
  ASSUME LogInv, IndexInv, BuildIndex, ~Harmed'
  PROVE  IndexStage'
<1>1. /\ log \in LogFile /\ WellFormed(log) /\ index \in Seq(Nat) /\ job \in Jobs
      /\ log.version = "set" /\ job.todo <= NumBlocks(log)
  BY DEF LogInv, Types, Stage, BuildIndex
<1>2. /\ log' = log /\ pc = "building" /\ damage' = damage /\ damage # "old"
      /\ IF job.todo = NumBlocks(log) THEN index = <<>> ELSE index = Written(job.todo)
  BY DEF BuildIndex, IndexInv, IndexStage, Harmed
<1>3. NumBlocks(log) \in 0 .. MaxBlock /\ job.todo \in 0 .. MaxBlock
  BY <1>1, NumFacts, JobFacts
<1>4. CASE job.todo = 0
  <2>1. pc' = job.back /\ index' = index
    BY <1>4 DEF BuildIndex
  <2>2. Exact(log, index)
    BY <1>1, <1>2, <1>4, EmptyEntries, EmptyIndex, WrittenSeq DEF Exact
  <2>3. Exact(log, index)' /\ Entries(log.first, index)'
    BY <1>2, <2>1, <2>2 DEF Exact, Entries, NumBlocks
  <2>4. pc' \in {"closed", "ready"}
    BY <1>1, <2>1, JobFacts
  <2> QED
    BY <1>2, <2>3, <2>4 DEF IndexStage
<1>5. CASE job.todo # 0
  <2>1. BufferStart(job.todo) \in 0 .. MaxBlock /\ BufferStart(job.todo) < job.todo
    BY <1>3, <1>5, LogAssumption DEF BufferStart
  <2>2. /\ index' = Written(BufferStart(job.todo)) /\ pc' = "building"
        /\ job' = [job EXCEPT !.todo = BufferStart(job.todo)]
    BY <1>2, <1>5 DEF BuildIndex
  <2>3. job'.todo = BufferStart(job.todo)
    BY <1>1, <2>2 DEF Jobs
  <2>4. BufferStart(job.todo) # NumBlocks(log)
    BY <1>1, <1>3, <2>1, LogAssumption
  <2>5. NumBlocks(log)' = NumBlocks(log)
    BY <1>2
  <2>6. Written(job.todo)' = Written(job'.todo)
    BY <1>2 DEF Written, NumBlocks
  <2>7. job'.todo # NumBlocks(log)' /\ index' = Written(job.todo)'
    BY <2>2, <2>3, <2>4, <2>5, <2>6
  <2> QED
    BY <1>2, <2>2, <2>7 DEF IndexStage
<1> QED
  BY <1>4, <1>5

LEMMA AppendLogIndex ==
  ASSUME LogInv, IndexInv, AppendLog, ~Harmed'
  PROVE  IndexStage'
<1>1. /\ log \in LogFile /\ WellFormed(log) /\ log.version = "set" /\ pc = "ready"
  BY DEF LogInv, Types, AppendLog, AppendAllowed
<1>2. Exact(log, index) /\ damage' = damage /\ damage # "old"
  BY <1>1 DEF AppendLog, IndexInv, IndexStage, Harmed
<1>3. /\ log' = [log EXCEPT !.last = @ + 1] /\ index' = index /\ pc' = "append_index"
  BY DEF AppendLog
<1>4. log'.version = "set" /\ log'.first = log.first /\ log'.last = log.last + 1
  BY <1>1, <1>3 DEF LogFile
<1>5. Entries(log.first, index)'
  BY <1>2, <1>3, <1>4 DEF Exact, Entries
<1>6. Len(index)' = NumBlocks(log)' - 1
  <2>1. log.first \in Nat /\ log.last \in Nat
    BY <1>1, LogFacts
  <2> QED
    BY <1>1, <1>2, <1>3, <1>4, <2>1 DEF Exact, NumBlocks
<1> QED
  BY <1>2, <1>3, <1>5, <1>6 DEF IndexStage

LEMMA AppendIndexIndex ==
  ASSUME LogInv, IndexInv, AppendIndex, ~Harmed'
  PROVE  IndexStage'
<1>1. /\ log \in LogFile /\ WellFormed(log) /\ index \in Seq(Nat)
      /\ log.version # "empty" /\ log.first <= log.last
  BY DEF LogInv, Types, AppendIndex, Stage
<1>2. /\ Entries(log.first, index) /\ Len(index) = NumBlocks(log) - 1
      /\ damage' = damage /\ damage # "old"
  BY DEF AppendIndex, IndexInv, IndexStage, Harmed
<1>3. /\ log' = log /\ index' = Append(index, Pos(log.first, log.last))
      /\ pc' \in {"reset_version", "ready"}
  BY DEF AppendIndex
<1>4. /\ log.first \in 1 .. MaxBlock /\ log.last \in 1 .. MaxBlock
      /\ NumBlocks(log) = log.last - log.first + 1
  BY <1>1, LogFacts DEF WellFormed, NumBlocks
<1>5. Pos(log.first, log.last) \in Nat
  BY <1>1, <1>4, PosAssumption
<1>6. /\ Len(index') = Len(index) + 1 /\ index'[Len(index) + 1] = Pos(log.first, log.last)
      /\ \A i \in 1 .. Len(index) : index'[i] = index[i]
  BY <1>1, <1>3, <1>5
<1>7. log.first + (Len(index) + 1) - 1 = log.last
  BY <1>2, <1>4
<1>8. Entries(log.first, index')
  <2> SUFFICES ASSUME NEW i \in 1 .. Len(index')
               PROVE  /\ log.first + i - 1 <= MaxBlock
                      /\ index'[i] = Pos(log.first, log.first + i - 1)
    BY DEF Entries
  <2>1. CASE i = Len(index) + 1
    BY <1>4, <1>6, <1>7, <2>1
  <2>2. CASE i \in 1 .. Len(index)
    BY <1>2, <1>6, <2>2 DEF Entries
  <2> QED
    BY <1>1, <1>6, <2>1, <2>2
<1>9. Exact(log, index)'
  BY <1>2, <1>3, <1>4, <1>6, <1>8 DEF Exact, NumBlocks
<1> QED
  BY <1>2, <1>3, <1>9 DEF IndexStage

LEMMA ResetIndex ==
  ASSUME LogInv, IndexInv, ~Harmed',
         ResetRemove \/ (\E f \in FirstBlocks : ResetHeader(f)) \/ ResetGenesis \/ ResetVersion
  PROVE  IndexStage'
<1>0. log \in LogFile
  BY DEF LogInv, Types
<1>1. CASE ResetRemove
  BY <1>1 DEF ResetRemove, IndexStage, IndexInv, Harmed
<1>2. CASE \E f \in FirstBlocks : ResetHeader(f)
  <2>1. PICK f \in FirstBlocks : ResetHeader(f)
    BY <1>2
  <2>2. /\ index' = <<>> /\ pc' \in {"reset_genesis", "reset_version"} /\ damage' = "none"
        /\ log' = [version |-> "unset", first |-> f, last |-> f - 1, torn |-> FALSE]
    BY <2>1 DEF ResetHeader
  <2>3. log'.version = "unset" /\ log'.first = f /\ log'.last = f - 1 /\ f \in Nat
    BY <2>2, LogAssumption
  <2>4. NumBlocks(log)' = 0
    BY <2>3 DEF NumBlocks
  <2>5. Exact(log, index)'
    BY <2>2, <2>4, EmptyEntries, EmptyIndex DEF Exact
  <2> QED
    BY <2>2, <2>5 DEF IndexStage
<1>3. CASE ResetGenesis
  <2>1. /\ index = <<>> /\ index' = index /\ pc' = "append_index" /\ damage' # "old"
        /\ log.version = "unset" /\ log.first = 1 /\ log.last = 0
        /\ log' = [log EXCEPT !.last = @ + 1]
    BY <1>3 DEF ResetGenesis, LogInv, Stage, IndexInv, IndexStage, Harmed
  <2>2. log'.version = "unset" /\ log'.first = 1 /\ log'.last = 1
    BY <1>0, <2>1 DEF LogFile
  <2>3. NumBlocks(log)' = 1
    BY <2>2 DEF NumBlocks
  <2>4. Entries(log.first, index)' /\ Len(index)' = NumBlocks(log)' - 1
    BY <2>1, <2>3, EmptyEntries, EmptyIndex
  <2> QED
    BY <2>1, <2>4 DEF IndexStage
<1>4. CASE ResetVersion
  <2>1. /\ Exact(log, index) /\ index' = index /\ pc' = "ready" /\ damage' # "old"
        /\ log.version = "unset" /\ log' = [log EXCEPT !.version = "set"]
    BY <1>4 DEF ResetVersion, LogInv, Stage, IndexInv, IndexStage, Harmed
  <2>2. log'.version = "set" /\ log'.first = log.first /\ log'.last = log.last
    BY <1>0, <2>1 DEF LogFile
  <2>3. Exact(log, index)'
    BY <2>1, <2>2 DEF Exact, Entries, NumBlocks
  <2> QED
    BY <2>1, <2>3 DEF IndexStage
<1> QED
  BY <1>1, <1>2, <1>3, <1>4

LEMMA CloseIndex ==
  ASSUME LogInv, IndexInv, Close, ~Harmed'
  PROVE  IndexStage'
<1>1. /\ Exact(log, index) /\ log' = log /\ index' = index /\ pc' = "closed"
      /\ damage' # "old"
  BY DEF Close, IndexInv, IndexStage, Harmed
<1>2. Entries(log.first, index)'
  BY <1>1 DEF Exact, Entries
<1> QED
  BY <1>1, <1>2 DEF IndexStage

LEMMA TrimEndIndexes ==
  ASSUME NEW n \in 1 .. MaxBlock, LogInv, IndexInv, TrimEnd(n), ~Harmed'
  PROVE  IndexStage'
<1>1. /\ log \in LogFile /\ WellFormed(log) /\ index \in Seq(Nat) /\ log.version = "set"
      /\ n + 1 \in Blocks(log)
  BY DEF LogInv, Types, TrimEnd, TrimData, Located
<1>2. /\ IF damage = "old" THEN Stale(log, index) ELSE Entries(log.first, index)
      /\ damage' = damage
  BY <1>1 DEF TrimEnd, TrimData, IndexInv, IndexStage, Harmed
<1>3. /\ log' = [log EXCEPT !.last = n, !.torn = FALSE] /\ index' = index /\ pc' = "trim_end"
  BY DEF TrimEnd
<1>4. log'.first = log.first /\ log'.last = n
  BY <1>1, <1>3 DEF LogFile
<1>5. log.first \in Nat /\ log.last \in Nat /\ n < log.last
  BY <1>1, LogFacts DEF Blocks
<1>6. IF damage' = "old" THEN Stale(log, index)' ELSE Entries(log.first, index)'
  <2>1. CASE damage # "old"
    BY <1>2, <1>3, <1>4, <2>1 DEF Entries
  <2>2. CASE damage = "old"
    <3>1. log'.last \in Int /\ log'.last <= log.last
      BY <1>4, <1>5
    <3>2. Stale(log', index)
      BY <1>1, <1>2, <1>4, <2>2, <3>1, StaleCut
    <3> QED
      BY <1>2, <1>3, <2>2, <3>2
  <2> QED
    BY <2>1, <2>2
<1> QED
  BY <1>3, <1>6 DEF IndexStage

LEMMA TrimEndIndexIndex ==
  ASSUME LogInv, IndexInv, TrimEndIndex, ~Harmed'
  PROVE  IndexStage'
<1>1. /\ log \in LogFile /\ WellFormed(log) /\ index \in Seq(Nat) /\ log.version = "set"
      /\ job \in Jobs /\ job.todo <= Len(index)
  BY DEF LogInv, Types, Stage, TrimEndIndex
<1>2. log' = log /\ pc' = "closed" /\ index' = SubSeq(index, 1, job.todo)
  BY DEF TrimEndIndex
<1>3. damage' # "old" /\ Entries(log.first, index)
  BY <1>1 DEF TrimEndIndex, IndexInv, IndexStage, Harmed
<1>4. Entries(log.first, index')
  BY <1>1, <1>2, <1>3, JobFacts, LogFacts, SubEntries, LogAssumption
<1>5. Entries(log.first, index)'
  BY <1>2, <1>4 DEF Entries
<1> QED
  BY <1>2, <1>3, <1>5 DEF IndexStage

(* A front trim starts from the index of the log: one that an earlier trim *)
(* left behind has more entries than the log has blocks.                   *)
LEMMA TrimFrontIndex ==
  ASSUME NEW n \in 1 .. MaxBlock, LogInv, IndexInv, TrimFront(n), ~Harmed'
  PROVE  IndexStage'
<1>1. /\ log \in LogFile /\ WellFormed(log) /\ index \in Seq(Nat) /\ log.version = "set"
      /\ log.first < n /\ n \in Blocks(log) /\ Len(index) = NumBlocks(log)
  BY DEF LogInv, Types, TrimFront, TrimData, Located
<1>2. /\ IF damage = "old" THEN Stale(log, index) ELSE Entries(log.first, index)
      /\ damage' = damage
  BY <1>1 DEF TrimFront, TrimData, IndexInv, IndexStage, Harmed
<1>3. /\ job' = [NoJob EXCEPT !.file = [log EXCEPT !.first = n]]
      /\ index' = index /\ pc' = "trim_log"
  BY DEF TrimFront
<1>4. job'.file.first = n /\ job'.file.last = log.last
  BY <1>1, <1>3 DEF LogFile, NoJob
<1>5. /\ log.first \in 1 .. MaxBlock /\ log.last \in Nat
      /\ NumBlocks(log) = log.last - log.first + 1
  BY <1>1, LogFacts DEF WellFormed, NumBlocks
<1>6. ~Stale(log, index)
  BY <1>1, StaleLonger
<1>7. Entries(log.first, index) /\ damage' # "old"
  BY <1>2, <1>6
<1>8. /\ log.first \in 1 .. job'.file.first - 1 /\ Entries(log.first, index')
      /\ job'.file.last <= log.first + Len(index') - 1
  BY <1>1, <1>3, <1>4, <1>5, <1>7, LogAssumption
<1>9. Stale(job.file, index)'
  BY <1>8 DEF Stale, Entries
<1> QED
  BY <1>3, <1>7, <1>9 DEF IndexStage

LEMMA TrimRenamesIndex ==
  ASSUME LogInv, IndexInv, TrimLog \/ TrimOldIndex \/ TrimIndex, ~Harmed'
  PROVE  IndexStage'
<1>1. CASE TrimLog
  <2>1. /\ Stale(job.file, index) /\ log' = job.file /\ index' = index /\ pc' = "trim_old_index"
        /\ damage' # "old"
    BY <1>1 DEF TrimLog, IndexInv, IndexStage, Harmed
  <2>2. Stale(log, index)'
    BY <2>1 DEF Stale, Entries
  <2> QED
    BY <2>1, <2>2 DEF IndexStage
<1>2. CASE TrimOldIndex
  BY <1>2 DEF TrimOldIndex, IndexStage
<1>3. CASE TrimIndex
  <2>1. log \in LogFile /\ WellFormed(log)
    BY DEF LogInv, Types
  <2>2. log' = log /\ pc' = "closed" /\ index' = IndexOf(log) /\ damage' # "old"
    BY <1>3 DEF TrimIndex, IndexInv, IndexStage, Harmed
  <2>3. Entries(log.first, index)'
    BY <2>1, <2>2, IndexOfExact DEF Exact, Entries
  <2> QED
    BY <2>2, <2>3 DEF IndexStage
<1> QED
  BY <1>1, <1>2, <1>3

LEMMA RepairIndex ==
  ASSUME LogInv, IndexInv, RepairStart \/ RepairCopy \/ RepairStop, ~Harmed'
  PROVE  IndexStage'
<1>1. index' = <<>> /\ pc' \in {"closed", "repair"} /\ damage' # "old"
  BY DEF RepairStart, RepairCopy, RepairStop, IndexInv, IndexStage, Harmed
<1>2. Entries(log.first, index)'
  BY <1>1, EmptyEntries
<1> QED
  BY <1>1, <1>2 DEF IndexStage

(* A death leaves an index that follows the log, or the old one beside the *)
(* new log.                                                                *)
LEMMA CrashIndex ==
  ASSUME LogInv, IndexInv, Crash, ~Harmed'
  PROVE  IndexStage'
<1>1. /\ log \in LogFile /\ WellFormed(log) /\ pc \in Steps /\ pc # "closed" /\ Stage
      /\ job \in Jobs
  BY DEF LogInv, Types, Crash
<1>2. PICK torn \in BOOLEAN : log' = [log EXCEPT !.torn = torn]
  BY DEF Crash
<1>3. log'.version = log.version /\ log'.first = log.first /\ log'.last = log.last
  BY <1>1, <1>2, TornLog, Zenon
<1>4. /\ index' = index /\ pc' = "closed" /\ IndexStage
      /\ damage' = IF pc = "trim_old_index" /\ damage = "none" THEN "old" ELSE damage
      /\ ~(pc = "building" /\ job.todo \in 1 .. NumBlocks(log) - 1)
  BY DEF Crash, IndexInv, Harmed
<1>5. CASE pc = "trim_old_index"
  <2>1. Stale(log, index) /\ damage' = "old"
    BY <1>1, <1>4, <1>5 DEF IndexStage, Harmed, LogInv, Types, Damage
  <2>2. Stale(log, index)'
    BY <1>3, <1>4, <2>1 DEF Stale, Entries
  <2> QED
    BY <1>4, <2>1, <2>2 DEF IndexStage
<1>6. CASE pc = "trim_end"
  <2>1. Stale(log, index)' <=> Stale(log, index)
    BY <1>3, <1>4 DEF Stale, Entries
  <2>2. Entries(log.first, index)' <=> Entries(log.first, index)
    BY <1>3, <1>4 DEF Entries
  <2> QED
    BY <1>3, <1>4, <1>6, <2>1, <2>2 DEF IndexStage
<1>7. CASE pc \notin {"trim_old_index", "trim_end"}
  <2>1. damage' # "old"
    BY <1>1, <1>4, <1>7 DEF IndexStage
  <2>2. log.version = "set" => Entries(log.first, index)
    <3>1. CASE pc \in {"ready", "reset_version"}
      BY <1>4, <3>1 DEF IndexStage, Exact
    <3>2. CASE pc = "building"
      <4>1. job.todo = 0 \/ job.todo = NumBlocks(log)
        <5>1. job.todo \in Nat /\ NumBlocks(log) \in Nat /\ job.todo <= NumBlocks(log)
          BY <1>1, <3>2, JobFacts, NumFacts, LogAssumption DEF Stage
        <5> QED
          BY <1>4, <3>2, <5>1
      <4> QED
        BY <1>1, <1>4, <3>2, <4>1, EmptyEntries, WrittenSeq DEF IndexStage
    <3>3. CASE pc = "append_index"
      BY <1>4, <3>3 DEF IndexStage
    <3>4. CASE pc \in {"trim_index", "repair"}
      BY <1>4, <3>4, EmptyEntries DEF IndexStage
    <3>5. CASE pc \in {"reset_index", "reset_genesis", "trim_log"}
      BY <1>1, <3>5, EmptyLogFacts DEF Stage
    <3> QED
      BY <1>1, <1>7, <3>1, <3>2, <3>3, <3>4, <3>5 DEF Steps
  <2>3. (log.version = "set")' => Entries(log.first, index)'
    BY <1>3, <1>4, <2>2 DEF Entries
  <2> QED
    BY <1>4, <2>1, <2>3 DEF IndexStage
<1> QED
  BY <1>5, <1>6, <1>7

LEMMA LosePowerIndex ==
  ASSUME LogInv, IndexInv, LosePower, ~Harmed'
  PROVE  IndexStage'
<1>1. /\ log \in LogFile /\ WellFormed(log) /\ index \in Seq(Nat) /\ log.version = "set"
      /\ pc \in {"closed", "ready", "append_index"}
  BY DEF LogInv, Types, LosePower
<1>2. PICK last \in log.first - 1 .. log.last, n \in 0 .. Len(index), torn \in BOOLEAN :
        /\ log' = [log EXCEPT !.last = last, !.torn = torn]
        /\ index' = SubSeq(index, 1, n)
        /\ damage' = IF damage = "old" /\ n < Len(index) THEN "cut" ELSE damage
  BY DEF LosePower
<1>3. /\ log'.first = log.first /\ log'.last = last
      /\ log.first \in Nat /\ log.last \in Nat /\ last <= log.last /\ last \in Int
  BY <1>1, <1>2, LogFacts DEF LogFile
<1>4. /\ damage' = damage /\ IndexStage /\ pc' = "closed"
      /\ damage = "old" => n = Len(index)
  BY <1>1, <1>2 DEF LosePower, IndexInv, Harmed
<1>5. CASE damage = "old"
  <2>1. Stale(log, index) /\ index' = index
    BY <1>1, <1>2, <1>4, <1>5 DEF IndexStage
  <2>2. Stale(log', index')
    BY <1>1, <1>3, <2>1, StaleCut
  <2> QED
    BY <1>4, <1>5, <2>2 DEF IndexStage
<1>6. CASE damage # "old"
  <2>1. Entries(log.first, index)
    BY <1>1, <1>4, <1>6 DEF IndexStage, Exact
  <2>2. Entries(log.first, index')
    BY <1>1, <1>2, <1>3, <2>1, SubEntries
  <2>3. Entries(log.first, index)'
    BY <1>3, <2>2 DEF Entries
  <2> QED
    BY <1>4, <1>6, <2>3 DEF IndexStage
<1> QED
  BY <1>5, <1>6

LEMMA LosePowerBuildingIndex ==
  ASSUME LogInv, LosePowerBuilding, ~Harmed'
  PROVE  IndexStage'
<1>1. /\ log \in LogFile /\ WellFormed(log) /\ job \in Jobs
  BY DEF LogInv, Types
<1>2. PICK last \in log.first - 1 .. log.last, start \in job.todo .. NumBlocks(log), torn \in BOOLEAN :
        /\ log' = [log EXCEPT !.last = last, !.torn = torn]
        /\ index' = IF start = NumBlocks(log) THEN <<>> ELSE Written(start)
        /\ damage' = IF start \in 1 .. NumBlocks(log) - 1 THEN "holed" ELSE "none"
  BY DEF LosePowerBuilding
<1>3. log'.first = log.first /\ pc' = "closed" /\ damage' # "old"
  BY <1>1, <1>2 DEF LogFile, LosePowerBuilding
<1>4. start = 0 \/ start = NumBlocks(log)
  <2>1. start \in Nat /\ NumBlocks(log) \in Nat /\ start <= NumBlocks(log)
    BY <1>1, JobFacts, NumFacts, LogAssumption
  <2> QED
    BY <1>2, <2>1 DEF Harmed
<1>5. Entries(log.first, index')
  BY <1>1, <1>2, <1>4, WrittenSeq, EmptyEntries
<1>6. Entries(log.first, index)'
  BY <1>3, <1>5 DEF Entries
<1> QED
  BY <1>3, <1>6 DEF IndexStage

LEMMA StutterIndex ==
  ASSUME IndexInv, UNCHANGED vars, ~Harmed'
  PROVE  IndexStage'
<1>1. /\ log' = log /\ index' = index /\ pc' = pc /\ job' = job /\ damage' = damage
      /\ IndexStage
  BY DEF vars, IndexInv, Harmed
<1>2. /\ Exact(log, index)' <=> Exact(log, index)
      /\ Stale(log, index)' <=> Stale(log, index)
      /\ Stale(job.file, index)' <=> Stale(job.file, index)
      /\ Entries(log.first, index)' <=> Entries(log.first, index)
      /\ NumBlocks(log)' = NumBlocks(log) /\ Written(job.todo)' = Written(job.todo)
  BY <1>1 DEF Exact, Stale, Entries, NumBlocks, Written
<1> QED
  BY <1>1, <1>2 DEF IndexStage

LEMMA InitIndexInv == Init => IndexInv
BY EmptyLogFacts DEF Init, IndexInv, IndexStage

LEMMA NextIndexInv == LogInv /\ IndexInv /\ [Next]_vars => IndexInv'
<1> SUFFICES ASSUME LogInv, IndexInv, [Next]_vars, ~Harmed' PROVE IndexStage'
  BY DEF IndexInv
<1> QED
  BY OpenIndex, MakeIndexIndex, BuildIndexIndex, AppendLogIndex, AppendIndexIndex, CloseIndex,
     ResetIndex, TrimEndIndexes, TrimEndIndexIndex, TrimFrontIndex, TrimRenamesIndex,
     RepairIndex, CrashIndex, LosePowerIndex, LosePowerBuildingIndex, StutterIndex
     DEF Next

(* An open log has its own index, however many blocks it has and however   *)
(* many buffers index_writer needs, unless a rebuild died between two      *)
(* buffers or the index of the log before a front trim was shortened.      *)
THEOREM IndexLeads == Spec => []IndexExact
<1>1. LogInv /\ IndexInv => IndexExact
  <2> SUFFICES ASSUME LogInv, IndexInv, pc = "ready", ~Harmed
               PROVE  /\ index = IndexOf(log)
                      /\ head = IF NumBlocks(log) > 0 THEN log.last ELSE 0
    BY DEF IndexExact, Harmed
  <2>1. log \in LogFile /\ WellFormed(log) /\ index \in Seq(Nat) /\ head = HeadOf(log)
    BY DEF LogInv, Types, Stage
  <2>2. Exact(log, index)
    BY DEF IndexInv, IndexStage
  <2> QED
    BY <2>1, <2>2, ExactIsIndexOf DEF HeadOf
<1>2. LogInv /\ IndexInv /\ [Next]_vars => IndexInv'
  BY NextIndexInv
<1> QED
  BY <1>1, <1>2, InitIndexInv, LogInvariant, PTL DEF Spec
=============================================================================
