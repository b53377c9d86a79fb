-------------------------- MODULE ProtocolFeatures --------------------------
(***************************************************************************)
(* Protocol features are switched on by blocks.  A transaction             *)
(* pre-activates a feature; the next block has to activate every           *)
(* pre-activated one; a producer may add features its operator scheduled   *)
(* when they need no pre-activation.  What is active is written down three *)
(* times: in the headers of the chain, in the protocol state object of the *)
(* database (undone with its sessions) and in the memory of the protocol   *)
(* feature manager, which has no sessions and is told by hand what was     *)
(* popped.                                                                 *)
(*                                                                         *)
(* The module has the manager, start_block, abort_block, pop_block and     *)
(* maybe_switch_forks of the controller as far as they touch features, and *)
(* the producer plugin's scheduled features.  Read mode is speculative.    *)
(* The manager's table of built-in features is a linked list pushed and    *)
(* popped together with its list, under the same conditions: one sequence  *)
(* stands for both.  All features are built-in and recognized; one whose   *)
(* Earliest is beyond the bound stands for a disabled one.                 *)
(***************************************************************************)
EXTENDS Naturals, Sequences, SequencesExt, FiniteSetsExt

CONSTANTS Feature,        \* digests of the recognized features
          Needs,          \* Needs[f]: the features f depends on
          PreactRequired, \* the features that have to be pre-activated
          Earliest,       \* earliest_allowed_activation_time, as a slot
          MaxBlocks,      \* bound: length of the chain
          MaxList,        \* bound: features in one block or schedule
          MaxFork,        \* bound: blocks popped by one fork switch
          Gaps            \* slots from one block to the next

ASSUME FeatureAssumption ==
  /\ Needs \in [Feature -> SUBSET Feature] /\ PreactRequired \subseteq Feature
  /\ Earliest \in [Feature -> Nat] /\ Gaps \subseteq Nat \ {0}
  /\ MaxBlocks \in Nat /\ MaxList \in Nat /\ MaxFork \in Nat

VARIABLES node,     \* [chain, db, mgr]: applied blocks, undo stack, manager
          pend,     \* the pending block, or NoPending
          mode,     \* _pending_block_mode
          armed,    \* the timer that produces the pending block is set
          sched,    \* _protocol_features_to_activate
          signaled, \* _protocol_features_signaled
          looping   \* the handler still has to call start_block
vars == <<node, pend, mode, armed, sched, signaled, looping>>

Lists == SeqOf(Feature, MaxList)

(* An empty protocol_state_object *)
NoFeatures == [pre |-> <<>>, active |-> <<>>]

(* A block: what its header activates, what its transactions pre-activate, *)
(* its time, and whether anything else in it is invalid.                   *)
BlockType == [act: Seq(Feature), pre: Seq(Feature), time: Nat, bad: BOOLEAN]
NoPending == [act |-> <<>>, pre |-> <<>>, time |-> 0, bad |-> FALSE]

Num(n) == Len(n.chain)
HeadTime(n) == IF n.chain = <<>> THEN 0 ELSE Last(n.chain).time

(* activated_protocol_features of a block state: by its header's ancestry  *)
HeaderActivated(chain) == UNION {ToSet(chain[i].act) : i \in 1..Len(chain)}

-----------------------------------------------------------------------------
(* The set of recognized features and the checks of a list *)

Ready(f, time) == Earliest[f] <= time

check_protocol_features(time, current, list) ==
  \A i \in 1..Len(list) :
    /\ Ready(list[i], time)
    /\ list[i] \notin current
    /\ Needs[list[i]] \subseteq current \cup {list[j] : j \in 1..(i - 1)}

validate_protocol_features(n, list) ==
  check_protocol_features(HeadTime(n), HeaderActivated(n.chain), list)

-----------------------------------------------------------------------------
(* The manager *)

ActiveIn(mgr, f) == \E i \in 1..Len(mgr) : mgr[i].f = f

Entries(list, num) == [i \in 1..Len(list) |-> [f |-> list[i], num |-> num]]

(* activate_feature refuses an active feature and a number that goes back. *)
CanActivate(mgr, f, num) ==
  ~ActiveIn(mgr, f) /\ (mgr # <<>> => Last(mgr).num <= num)

(* Both loops: entries leave at the back while their block is above num.   *)
popped_blocks_to(mgr, num) ==
  SubSeq(mgr, 1, Max({0} \cup {i \in 1..Len(mgr) : mgr[i].num <= num}))

(* init: the features of the database are activated again, one by one. *)
CanInit(active) ==
  \A i \in 1..Len(active) : CanActivate(SubSeq(active, 1, i - 1), active[i].f, active[i].num)

-----------------------------------------------------------------------------
(* The controller.  Operators take and return [chain, db, mgr]; the top of *)
(* the undo stack db is the database as it is now.                         *)

Pso(n) == Last(n.db)

(* The index of the first new activation that start_block refuses.         *)
FirstRefused(n, list) ==
  LET refused(i) ==
        \/ list[i] \in PreactRequired /\ list[i] \notin ToSet(Pso(n).pre)
        \/ \E j \in 1..(i - 1) : list[j] = list[i]
        \/ ~CanActivate(n.mgr, list[i], Num(n) + 1)
  IN Min({Len(list) + 1} \cup {i \in 1..Len(list) : refused(i)})

HandledAll(n, list) == ToSet(Pso(n).pre) \subseteq ToSet(list)

StartOK(n, list) == FirstRefused(n, list) > Len(list) /\ HandledAll(n, list)

Started(n, list) ==
  LET pso == IF list = <<>> THEN Pso(n)
             ELSE [pre |-> <<>>, active |-> Pso(n).active \o Entries(list, Num(n) + 1)]
  IN [n EXCEPT !.mgr = @ \o Entries(list, Num(n) + 1), !.db = Append(@, pso)]

(* The exception leaves through guard_pending: the session is undone and   *)
(* what had been activated so far is popped.                               *)
StartFailed(n, list) ==
  [n EXCEPT !.mgr =
    popped_blocks_to(@ \o Entries(SubSeq(list, 1, FirstRefused(n, list) - 1), Num(n) + 1), Num(n))]

(* Faulty variant: the manager is not told. *)
abort_block_silent(n) == [n EXCEPT !.db = Front(@)]

(* The pending block's session is undone. *)
abort_block(n) ==
  [n EXCEPT !.db = Front(@), !.mgr = popped_blocks_to(@, Num(n))]

pop_block(n) ==
  [chain |-> Front(n.chain), db |-> Front(n.db), mgr |-> popped_blocks_to(n.mgr, Num(n) - 1)]

(* preactivate_feature in the pending block of node n, at that block's time *)
CanPreactivate(n, active, time, f) ==
  /\ Ready(f, time)
  /\ f \notin active
  /\ f \notin ToSet(Pso(n).pre)
  /\ Needs[f] \subseteq active \cup ToSet(Pso(n).pre)

preactivate_feature(n, f) ==
  [n EXCEPT !.db = Append(Front(@), [Last(@) EXCEPT !.pre = Append(@, f)])]

(* The transactions of a block, one feature each. *)
Preactivated(n, block, k) ==
  FoldLeft(preactivate_feature, n, SubSeq(block.pre, 1, k))

TransactionsOK(n, block) ==
  \A k \in 1..Len(block.pre) :
    CanPreactivate(Preactivated(n, block, k - 1), HeaderActivated(Append(n.chain, block)),
                   block.time, block.pre[k])

Commit(n, block) == [n EXCEPT !.chain = Append(@, block)]

BlockOK(n, block) ==
  StartOK(n, block.act) /\ TransactionsOK(Started(n, block.act), block) /\ ~block.bad

(* apply_block; a block that fails is aborted, at whatever point it failed *)
apply_block(n, block) ==
  IF ~StartOK(n, block.act) THEN StartFailed(n, block.act)
  ELSE IF BlockOK(n, block)
       THEN Commit(Preactivated(Started(n, block.act), block, Len(block.pre)), block)
       ELSE abort_block(Started(n, block.act))

pop_blocks(n, k) == FoldLeft(LAMBDA m, i : pop_block(m), n, [i \in 1..k |-> i])
apply_blocks(n, branch) == FoldLeft(apply_block, n, branch)

(* How many blocks of the branch can be applied *)
Applicable(n, branch) ==
  Max({k \in 0..Len(branch) :
        \A i \in 1..k : BlockOK(apply_blocks(n, SubSeq(branch, 1, i - 1)), branch[i])})

(* maybe_switch_forks: k blocks are popped and the branch is applied.  At  *)
(* the first failure its blocks are popped and the old ones applied again. *)
maybe_switch_forks(n, k, branch) ==
  LET base == pop_blocks(n, k)
      good == Applicable(base, branch)
      tried == apply_blocks(base, SubSeq(branch, 1, good + 1))
  IN IF good = Len(branch) THEN apply_blocks(base, branch)
     ELSE apply_blocks(pop_blocks(tried, good), SubSeq(n.chain, Num(n) - k + 1, Num(n)))

(* The blocks others may build on a chain: their headers pass the check of *)
(* block_header_state before they are tried.  In a bad one it does not     *)
(* matter what else it holds, once it has started.                         *)
NextBlocks(chain) ==
  LET time == IF chain = <<>> THEN 0 ELSE Last(chain).time
  IN {b \in [act: Lists, pre: {l \in Lists : IsInjective(l)}, time: {time + g : g \in Gaps}, bad: BOOLEAN] :
        /\ check_protocol_features(b.time, HeaderActivated(chain), b.act)
        /\ b.bad => b.pre = <<>>}

Branches(chain, k) ==
  FoldLeft(LAMBDA S, i : UNION {{Append(s, b) : b \in NextBlocks(chain \o s)} : s \in S},
           {<<>>}, [i \in 1..k |-> i])

-----------------------------------------------------------------------------
(* The producer plugin *)

Quiet == pend = NoPending

(* abort_block does nothing without a pending block *)
Aborted == IF Quiet THEN node ELSE abort_block(node)

(* schedule_protocol_feature_activations *)
Schedule(list) ==
  /\ ~looping
  /\ IsInjective(list)
  /\ validate_protocol_features(node, list)
  /\ ToSet(list) \cap PreactRequired = {}
  /\ sched' = list /\ signaled' = FALSE
  /\ UNCHANGED <<node, pend, mode, armed, looping>>

(* Faulty variant of Merged: a feature may be in both lists. *)
Merged_twice(scheduled, preactivated) == scheduled \o preactivated

(* Scheduled features first, then the pre-activated ones not among them.   *)
Merged(scheduled, preactivated) ==
  scheduled \o SelectSeq(preactivated, LAMBDA f : f \notin ToSet(scheduled))

(* start_block that returns early: waiting for a block or for the time to  *)
(* produce.  The mode has changed; the pending block is still there.       *)
StartWaits(m) ==
  /\ mode' = m /\ armed' = FALSE /\ looping' = FALSE
  /\ UNCHANGED <<node, pend, sched, signaled>>

(* Faulty variant: the scheduled list is moved into the block, not copied. *)
Signal_moved(n) ==
  sched' = <<>> /\ signaled' = TRUE

(* The scheduled features still valid at the head go into the block. *)
Signal(n) ==
  IF validate_protocol_features(n, sched)
    THEN sched' = sched /\ signaled' = TRUE
    ELSE sched' = <<>> /\ UNCHANGED signaled

Activations(m, n) ==
  IF m = "producing" /\ validate_protocol_features(n, sched)
    THEN Merged(sched, Pso(n).pre) ELSE Pso(n).pre

(* start_block from abort_block on.  An exception leaves no pending block. *)
StartBlock(m, gap) ==
  LET n == Aborted
      list == Activations(m, n)
      valid == validate_protocol_features(n, list)
  IN /\ Num(n) < MaxBlocks
     /\ mode' = m /\ looping' = FALSE
     /\ IF m = "producing" /\ sched # <<>> THEN Signal(n) ELSE UNCHANGED <<sched, signaled>>
     /\ IF valid /\ StartOK(n, list)
          THEN /\ node' = Started(n, list)
               /\ pend' = [act |-> list, pre |-> <<>>, time |-> HeadTime(n) + gap, bad |-> FALSE]
               /\ armed' = (m = "producing")
          ELSE /\ node' = IF valid THEN StartFailed(n, list) ELSE n
               /\ pend' = NoPending /\ armed' = FALSE

(* A transaction in the pending block pre-activates a feature. *)
Preactivate(f) ==
  /\ ~looping /\ ~Quiet
  /\ Len(pend.pre) < MaxList
  /\ CanPreactivate(node, HeaderActivated(Append(node.chain, pend)), pend.time, f)
  /\ node' = preactivate_feature(node, f)
  /\ pend' = [pend EXCEPT !.pre = Append(@, f)]
  /\ UNCHANGED <<mode, armed, sched, signaled, looping>>

(* produce_block, between its assertions and the signature *)
ClearSignaled ==
  IF signaled THEN sched' = <<>> /\ signaled' = FALSE ELSE UNCHANGED <<sched, signaled>>

ProduceBlock ==
  /\ ~looping /\ armed
  /\ ClearSignaled
  /\ node' = Commit(node, pend)
  /\ pend' = NoPending /\ armed' = FALSE /\ looping' = TRUE
  /\ UNCHANGED mode

(* An assertion of produce_block before the schedule is cleared: no key    *)
(* of the pending block's authority.  maybe_produce_block aborts the block *)
(* and the schedule stays.                                                 *)
ProduceRefused ==
  /\ ~looping /\ armed
  /\ node' = abort_block(node)
  /\ pend' = NoPending /\ armed' = FALSE /\ looping' = TRUE
  /\ UNCHANGED <<mode, sched, signaled>>

(* A signature provider throws, after the schedule was cleared:            *)
(* maybe_produce_block aborts the block.                                   *)
ProduceFails ==
  /\ ~looping /\ armed
  /\ ClearSignaled
  /\ node' = abort_block(node)
  /\ pend' = NoPending /\ armed' = FALSE /\ looping' = TRUE
  /\ UNCHANGED mode

(* on_incoming_block with a block that does not become the best: only the  *)
(* pending block is aborted.                                               *)
IncomingOther ==
  /\ ~looping /\ mode = "speculating"
  /\ node' = Aborted
  /\ pend' = NoPending /\ armed' = FALSE /\ looping' = TRUE
  /\ UNCHANGED <<mode, sched, signaled>>

(* on_incoming_block with the last block of the best branch *)
IncomingBlock(k, branch) ==
  /\ ~looping /\ mode = "speculating"
  /\ node' = maybe_switch_forks(Aborted, k, branch)
  /\ pend' = NoPending /\ armed' = FALSE /\ looping' = TRUE
  /\ UNCHANGED <<mode, sched, signaled>>

(* A clean shutdown, which undoes the pending block, and a new start.      *)
Restart ==
  /\ ~looping
  /\ LET db == IF Quiet THEN node.db ELSE Front(node.db)
     IN /\ CanInit(Last(db).active)
        /\ node' = [node EXCEPT !.db = db, !.mgr = Last(db).active]
  /\ pend' = NoPending /\ mode' = "speculating" /\ armed' = FALSE
  /\ sched' = <<>> /\ signaled' = FALSE /\ looping' = TRUE

Init ==
  /\ node = [chain |-> <<>>, db |-> <<NoFeatures>>, mgr |-> <<>>]
  /\ pend = NoPending /\ mode = "speculating" /\ armed = FALSE
  /\ sched = <<>> /\ signaled = FALSE /\ looping = TRUE

Start(m) == StartWaits(m) \/ \E gap \in Gaps : StartBlock(m, gap)

(* A branch of k + 1 blocks takes the place of k. *)
Next ==
  \/ \E list \in Lists : Schedule(list)
  \/ \E m \in {"producing", "speculating"} : Start(m)
  \/ \E f \in Feature : Preactivate(f)
  \/ ProduceBlock \/ ProduceRefused \/ ProduceFails
  \/ IncomingOther
  \/ \E k \in 0..MaxFork :
       /\ k <= Num(node) /\ Num(node) < MaxBlocks
       /\ \E branch \in Branches(SubSeq(node.chain, 1, Num(node) - k), k + 1) :
            IncomingBlock(k, branch)
  \/ Restart

Spec == Init /\ [][Next]_vars

-----------------------------------------------------------------------------
(* Type invariant: one undo session per applied block and one for the      *)
(* pending block (db.revision() on par with the head in start_block).      *)
TypeOK ==
  /\ node.chain \in Seq(BlockType) /\ pend \in BlockType
  /\ Len(node.db) = Num(node) + (IF Quiet THEN 1 ELSE 2)
  /\ \A i \in 1..Len(node.db) : node.db[i].pre \in Seq(Feature)
  /\ node.mgr \in Seq([f: Feature, num: 1..MaxBlocks])
  /\ mode \in {"producing", "speculating"} /\ armed \in BOOLEAN
  /\ sched \in Seq(Feature) /\ signaled \in BOOLEAN /\ looping \in BOOLEAN

(* The manager's memory, the database and the headers say the same is      *)
(* active, in the same order and since the same blocks, whatever was       *)
(* started, refused, aborted, popped or applied again before               *)
(* (popped_blocks_to, guard_pending, abort_block, pop_block).              *)
RecordsAgree ==
  LET headers == IF Quiet THEN node.chain ELSE Append(node.chain, pend)
      of(i) == Entries(headers[i].act, i)
  IN /\ node.mgr = Pso(node).active
     /\ node.mgr = FoldLeft(LAMBDA r, i : r \o of(i), <<>>, [i \in 1..Len(headers) |-> i])

(* The node can always start its own block: no order of schedules,         *)
(* pre-activations, aborts and forks makes the list it puts together one   *)
(* that the controller refuses, which would stop production for good       *)
(* (start_block of the plugin, LOG_AND_DROP).                              *)
OwnBlockStarts ==
  [][\A m \in {"producing", "speculating"}, gap \in Gaps :
       StartBlock(m, gap) => pend' # NoPending]_vars

(* Scheduled features leave the schedule when the chain has activated      *)
(* them, when they are no longer valid, or when the operator says so; an   *)
(* aborted block gives them back ("do a copy as pending_block might be     *)
(* aborted"), unless it was aborted because its signature failed: by then  *)
(* produce_block has cleared the schedule.                                 *)
ScheduleKept ==
  [][sched' # sched =>
       \/ \E list \in Lists : Schedule(list)
       \/ Restart
       \/ ProduceFails
       \/ ~validate_protocol_features(Aborted, sched)
       \/ ToSet(sched) \subseteq HeaderActivated(node'.chain)]_vars
=============================================================================
