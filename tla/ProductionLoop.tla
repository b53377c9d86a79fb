--------------------------- MODULE ProductionLoop ---------------------------
(***************************************************************************)
(* The production loop of the producer plugin: when a pending block is     *)
(* begun, for whom, which timer ends it, and what happens when blocks      *)
(* arrive, the operator pauses or an API call aborts the pending block in  *)
(* between.  Transactions are the subject of UnappliedQueue.               *)
(*                                                                         *)
(* Every action is one handler of the main thread.  A timer that expires   *)
(* puts its handler into the priority queue of the application, where it   *)
(* can no longer be cancelled; the handler then compares its correlation   *)
(* id with the current one.  It has high priority, as the blocks from the  *)
(* network have: blocks may run before it, calls of the API may not.  Time *)
(* is counted in slots: the block of slot s is produced while now = s - 1. *)
(***************************************************************************)
EXTENDS ProducerSlots, FiniteSets, Sequences

CONSTANTS
    Mine,      \* the indices of this node's producers
    OldAge,    \* slots after which the head is too old to speculate on
    Ahead,     \* slots by which a block may come early, 14 in the code
    MaxSlot,   \* bound: time
    MaxCalls   \* bound: calls of the API, failures and restarts

ASSUME LoopAssumption ==
    /\ Mine \subseteq 0..(N - 1) /\ OldAge \in Nat /\ Ahead \in Nat \ {0}
    /\ MaxSlot \in Nat /\ MaxCalls \in Nat

VARIABLES
    now, head,                 \* the clock; number and slot of the head block
    enabled, paused, stale,    \* _production_enabled, _pause_production, the block age policy
    marks,                     \* _producer_watermarks
    signed,                    \* the blocks signed since the process started, in their order
    loop,                      \* mode, pending block, timer and queued handlers
    clean,                     \* nothing has disturbed the current slot
    missed,                    \* a slot passed undisturbed without its block
    calls

env == <<now, head>>
policy == <<enabled, paused, stale>>
vars == <<now, head, enabled, paused, stale, marks, signed, loop, clean, missed, calls>>

NoBlock == [slot |-> 0]
NoTimer == [kind |-> "none", at |-> 0]

Larger(a, b) == IF a > b THEN a ELSE b

Disabled == ~enabled \/ paused \/ stale   \* production_disabled_by_policy

-----------------------------------------------------------------------------
(* Timers.  A handler in the queue is current while its id is the last one. *)

Cancel(l) == [l EXCEPT !.timer = NoTimer]

Arm(l, kind, at) ==
    [l EXCEPT !.timer = [kind |-> kind, at |-> at],
              !.queued = {[h EXCEPT !.current = FALSE] : h \in @}]

\* Faulty variant: the loop wakes up at the time of the block.
WakeUps_at_slot(cur, num, wms) == {NextSlot(p, MinimumSlot(cur, num, wms[p])) : p \in Mine}

\* calculate_producer_wake_up_time: a slot before the first turn of a local producer.
WakeUps(cur, num, wms) == {NextSlot(p, MinimumSlot(cur, num, wms[p])) - 1 : p \in Mine}

\* schedule_delayed_production_loop at the wake-up time, if there is one
Delay(l, cur, h, wms) ==
    LET ups == WakeUps(cur, IF l.pending = NoBlock THEN h.num ELSE h.num + 1, wms)
    IN  IF Mine = {} THEN l
        ELSE Arm(l, "loop", CHOOSE t \in ups : \A u \in ups : t <= u)

-----------------------------------------------------------------------------
(* schedule_production_loop and start_block *)

BlockSlot(t, h) == Larger(t, h.slot) + 1     \* calculate_pending_block_time

\* At time t on the head h: it is the turn of a local producer and its watermark agrees.
MayProduce(t, h, disabled, wms) ==
    LET p == ScheduledIndex(BlockSlot(t, h))
    IN  /\ ~disabled /\ p \in Mine
        /\ wms[p] # NoMark => wms[p].num <= h.num /\ wms[p].slot < BlockSlot(t, h)

(***************************************************************************)
(* The outcomes of schedule_production_loop for the loop l, the head h,    *)
(* the policies and the watermarks the handler leaves.  To begin a block   *)
(* may fail.                                                               *)
(***************************************************************************)
Schedule(l, h, disabled, wms) ==
    LET slot    == BlockSlot(now, h)
        produce == MayProduce(now, h, disabled, wms)
        l1      == [Cancel(l) EXCEPT !.mode = IF produce THEN "producing" ELSE "speculating"]
        begun   == [l1 EXCEPT !.pending = [slot |-> slot]]
        failed  == Arm([l1 EXCEPT !.pending = NoBlock], "loop", now)
    IN  IF ~produce /\ now > h.slot + OldAge                        \* waiting_for_block
        THEN {IF disabled THEN l1 ELSE Delay(l1, slot, h, wms)}
        ELSE IF produce /\ now < slot - 1                           \* waiting_for_production
        THEN {Delay(l1, slot - 1, h, wms)}
        ELSE IF ~produce /\ l.mode = "producing"
        THEN {Arm(l1, "loop", slot - 1)}
        ELSE {failed,
              IF produce THEN Arm(begun, "produce", now)            \* succeeded, exhausted
              ELSE IF disabled THEN begun
              ELSE Delay(begun, slot, h, wms)}

Failed(l) == l.pending = NoBlock /\ l.timer = [kind |-> "loop", at |-> now]

NoMarks == [p \in Mine |-> NoMark]
NoLoop == [mode |-> "speculating", pending |-> NoBlock, timer |-> NoTimer, queued |-> {}]

Init ==
    /\ now = 1 /\ head = [num |-> 1, slot |-> 1]
    /\ enabled \in BOOLEAN /\ paused \in BOOLEAN /\ stale \in BOOLEAN
    /\ marks = NoMarks /\ signed = <<>>
    /\ loop \in Schedule(NoLoop, head, Disabled, marks)
    /\ clean = FALSE /\ missed = FALSE /\ calls = 0

-----------------------------------------------------------------------------
(* Handlers. *)

Aborted(l) == [l EXCEPT !.pending = NoBlock]

\* The timer expires.
Expire ==
    /\ loop.timer # NoTimer /\ loop.timer.at <= now
    /\ loop' = [Cancel(loop) EXCEPT !.queued = @ \cup {[kind |-> loop.timer.kind, current |-> TRUE]}]
    /\ UNCHANGED <<env, policy, marks, signed, clean, missed, calls>>

\* Faulty variant: handlers run in the order of their arrival.
Idle_fifo == TRUE

\* execute_highest reaches what is below high priority: calls of the API, transactions.
Idle == loop.queued = {}

Took(h) == [loop EXCEPT !.queued = @ \ {h}]

\* A handler with an old id does nothing.
IgnoreHandler ==
    /\ \E h \in loop.queued : ~h.current /\ loop' = Took(h)
    /\ UNCHANGED <<env, policy, marks, signed, clean, missed, calls>>

LoopHandler ==
    /\ \E h \in loop.queued :
          /\ h.current /\ h.kind = "loop"
          /\ loop' \in Schedule(Took(h), head, Disabled, marks)
    /\ UNCHANGED <<env, policy, marks, signed, missed, calls>>
    /\ clean' = (clean /\ ~Failed(loop'))

\* Faulty variant: the watermark is the time of the last block only.
Mark_time(wms, h) ==
    LET p == ScheduledIndex(h.slot)
    IN  IF p \in Mine THEN [wms EXCEPT ![p].slot = Larger(@, h.slot)] ELSE wms

\* on_block_header, consider_new_watermark
Mark(wms, h) ==
    LET p == ScheduledIndex(h.slot)
    IN  IF p \in Mine
        THEN [wms EXCEPT ![p] = [num |-> Larger(@.num, h.num), slot |-> Larger(@.slot, h.slot)]]
        ELSE wms

\* maybe_produce_block: the block is signed and becomes the head.
ProduceHandler ==
    /\ UNCHANGED <<now, enabled, paused, clean, missed, calls>>
    /\ \E h \in loop.queued :
          /\ h.current /\ h.kind = "produce"
          /\ loop.mode = "producing" /\ loop.pending # NoBlock
          /\ head' = [num |-> head.num + 1, slot |-> loop.pending.slot]
          /\ signed' = Append(signed, head')
          /\ marks' = Mark(marks, head')
          /\ stale' \in {stale, FALSE}
          /\ loop' \in Schedule(Aborted(Took(h)), head', Disabled', marks')

\* maybe_produce_block when an assertion of produce_block or a signature fails.
ProduceFails ==
    /\ \E h \in loop.queued :
          /\ h.current /\ h.kind = "produce"
          /\ loop' \in Schedule(Aborted(Took(h)), head, Disabled, marks)
    /\ calls < MaxCalls /\ calls' = calls + 1 /\ clean' = FALSE
    /\ UNCHANGED <<env, policy, marks, signed, missed>>

\* An incoming transaction exhausts the pending block: schedule_maybe_produce_block.
Exhausts ==
    /\ Idle /\ loop.mode = "producing" /\ loop.pending # NoBlock
    /\ calls < MaxCalls /\ calls' = calls + 1
    /\ loop' = Arm(loop, "produce", now)
    /\ UNCHANGED <<env, policy, marks, signed, clean, missed>>

(***************************************************************************)
(* on_incoming_block.  The block of another producer, or one that another  *)
(* node signed for a producer of this one, extends the head, or its branch *)
(* wins, or the controller refuses it and the exception leaves the loop    *)
(* restarted.  A block known already is not processed again.               *)
(***************************************************************************)
IncomingBlock ==
    /\ loop.mode # "producing" /\ head.num < MaxSlot
    /\ UNCHANGED <<now, paused, signed, missed, calls>>
    /\ clean' = FALSE
    /\ \/ /\ \E slot \in 2..(now + Ahead), num \in Larger(head.num - 1, 2)..(head.num + 1) :
               /\ num <= slot /\ head' = [num |-> num, slot |-> slot]
               /\ \A i \in 1..Len(signed) : signed[i] # head'
          /\ marks' = Mark(marks, head')
          /\ enabled' = (enabled \/ head'.slot + 1 >= now)
          /\ stale' \in {stale, FALSE}
       \/ UNCHANGED <<head, marks, enabled, stale>>
    /\ loop' \in Schedule(Aborted(loop), head', Disabled', marks')

Pause ==
    /\ Idle /\ ~paused /\ calls < MaxCalls
    /\ paused' = TRUE /\ clean' = FALSE /\ calls' = calls + 1
    /\ UNCHANGED <<env, enabled, stale, marks, signed, loop, missed>>

\* Faulty variant: the loop is not scheduled again.
Resume_only ==
    /\ Idle /\ paused /\ paused' = FALSE
    /\ UNCHANGED <<env, enabled, stale, marks, signed, loop, clean, missed, calls>>

Resume ==
    /\ Idle /\ paused /\ paused' = FALSE
    /\ UNCHANGED <<env, enabled, stale, marks, signed, clean, missed, calls>>
    /\ IF loop.mode = "speculating"
       THEN loop' \in Schedule(Aborted(loop), head, Disabled', marks)
       ELSE UNCHANGED loop

\* update_runtime_options with another max_irreversible_block_age
UpdateOptions ==
    /\ Idle /\ calls < MaxCalls /\ calls' = calls + 1
    /\ UNCHANGED <<env, enabled, paused, marks, signed, missed>>
    /\ stale' \in BOOLEAN /\ clean' = FALSE
    /\ IF loop.mode = "speculating"
       THEN loop' \in Schedule(Aborted(loop), head, Disabled', marks)
       ELSE UNCHANGED loop

\* get_integrity_hash, create_snapshot
AbortCall ==
    /\ Idle /\ loop.pending # NoBlock /\ calls < MaxCalls /\ calls' = calls + 1
    /\ loop' \in Schedule(Aborted(loop), head, Disabled, marks)
    /\ clean' = FALSE
    /\ UNCHANGED <<env, policy, marks, signed, missed>>

(***************************************************************************)
(* The process stops and starts again, with the options it is given then.  *)
(* Nothing of the loop is kept, and the watermarks are not durable either  *)
(* (start_block says so itself): what was signed before does not bind the  *)
(* new process.                                                            *)
(***************************************************************************)
Restart ==
    /\ calls < MaxCalls /\ calls' = calls + 1
    /\ enabled' \in BOOLEAN /\ paused' \in BOOLEAN /\ stale' \in BOOLEAN
    /\ marks' = NoMarks /\ signed' = <<>> /\ clean' = FALSE
    /\ loop' \in Schedule(NoLoop, head, Disabled', marks')
    /\ UNCHANGED <<env, missed>>

(***************************************************************************)
(* The next slot begins.  The main thread keeps up: what is due has run.   *)
(***************************************************************************)
Due == loop.queued # {} \/ (loop.timer # NoTimer /\ loop.timer.at <= now)

Tick ==
    /\ now < MaxSlot /\ ~Due
    /\ now' = now + 1
    /\ UNCHANGED <<head, enabled, paused, marks, signed, loop, calls>>
    /\ stale' \in {stale, TRUE}
    /\ missed' = (missed \/ (clean /\ head.slot # now + 1))
    /\ clean' = (head.slot <= now' /\ MayProduce(now', head, Disabled', marks))

Next ==
    \/ Expire \/ IgnoreHandler \/ LoopHandler \/ ProduceHandler \/ ProduceFails \/ Exhausts
    \/ IncomingBlock \/ Pause \/ Resume \/ UpdateOptions \/ AbortCall \/ Restart \/ Tick

Spec == Init /\ [][Next]_vars

-----------------------------------------------------------------------------
(* Properties. *)

\* The fields keep their types; no timer lies further ahead than a round.
TypeOK ==
    /\ now \in 1..MaxSlot
    /\ head \in [num : 1..(MaxSlot + 1), slot : 1..(MaxSlot + Ahead)]
    /\ {enabled, paused, stale, clean, missed} \subseteq BOOLEAN /\ calls \in 0..MaxCalls
    /\ signed \in Seq([num : 1..(MaxSlot + 1), slot : 1..(MaxSlot + Ahead)])
    /\ \A p \in Mine : marks[p] \in [num : 0..(MaxSlot + 1), slot : 0..(MaxSlot + Ahead)]
    /\ loop.mode \in {"producing", "speculating"} /\ loop.pending.slot \in 0..(MaxSlot + Ahead + 1)
    /\ loop.timer \in [kind : {"none", "loop", "produce"}, at : 0..(MaxSlot + Ahead + N * Rep + 1)]
    /\ loop.queued \subseteq [kind : {"loop", "produce"}, current : BOOLEAN]

\* Production never falls asleep: while a local producer may produce, a timer of the loop
\* runs or its handler is queued, whatever was paused, aborted, refused or cancelled.
LoopAlive ==
    Mine # {} /\ ~Disabled => loop.timer # NoTimer \/ \E h \in loop.queued : h.current

\* While the process runs, a producer never signs a second block at a height or for a slot
\* it has signed before, on any branch, however the branches change: the watermark is
\* checked when the block is begun and still holds when it is signed.
NeverSignTwice ==
    \A i, j \in 1..Len(signed) :
        i < j /\ ScheduledIndex(signed[i].slot) = ScheduledIndex(signed[j].slot)
            => signed[i].num < signed[j].num /\ signed[i].slot < signed[j].slot

\* A slot of a local producer that begins with production allowed, and that nothing
\* disturbs, ends with its block: the wake-up times and the timers miss no turn.
NoSlotMissed == ~missed

\* The handler that produces a block, once past the check of its correlation id, finds a
\* block to produce, although a call may abort that block without arming a timer.
ProduceExpected ==
    \A h \in loop.queued :
        h.current /\ h.kind = "produce" => loop.mode = "producing" /\ loop.pending # NoBlock

=============================================================================
