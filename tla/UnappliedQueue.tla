--------------------------- MODULE UnappliedQueue ---------------------------
(***************************************************************************)
(* What becomes of a transaction in the producer plugin.  A transaction    *)
(* that was accepted is in the pending block, in a block of the chain or   *)
(* in unapplied_transaction_queue, from where it is applied again after    *)
(* its block was aborted or forked out.  The incoming queue holds the      *)
(* transactions that did not fit and have not been answered.               *)
(*                                                                         *)
(* All handlers run on the main thread.  A handler that ends with          *)
(* schedule_production_loop leaves pc at "start"; the loops of start_block *)
(* are then taken one transaction at a time.  Deferred transactions, which *)
(* live in the chain state, are left out.                                  *)
(*                                                                         *)
(* The chain is the applied branch above the last irreversible block; how  *)
(* the controller arrives at it is the subject of Controller.  The order   *)
(* of the transactions in a block, and in the queue within a type, is left *)
(* open: the queue is what by_trx_id finds.                                *)
(***************************************************************************)
EXTENDS Naturals, Sequences

CONSTANTS
    Trx,
    Expiry,        \* the expiration of each transaction
    Mode,          \* process_mode
    MaxLen,        \* bound: length of the chain
    MaxTime,       \* bound: block times
    MaxIncoming    \* max_incoming_transaction_queue_size

ASSUME QueueAssumption ==
    /\ Expiry \in [Trx -> Nat]
    /\ Mode \in {"non_speculative", "speculative_non_producer", "speculative_producer"}
    /\ {MaxLen, MaxTime, MaxIncoming} \subseteq Nat

VARIABLES
    queue,      \* _unapplied_transactions: the type each transaction is queued under
    incoming,   \* _pending_incoming_transactions
    pending,    \* the pending block of the controller, or NoBlock
    producing,  \* _pending_block_mode
    chain,      \* the blocks applied, each with its time and transactions
    now,        \* the slot of the clock
    pc, todo, limit,  \* where start_block is, what its loop has left, its limit
    accepted,   \* accepted for a client; with the persist flag: kept
    kept,
    gone        \* failed, expired, or discarded with a bad fork since

vars == <<queue, incoming, pending, producing, chain, now, pc, todo, limit, accepted, kept, gone>>

\* trx_enum_type, in the order of by_type; one that is not queued is unknown.
Type == {"unknown", "persisted", "forked", "aborted"}
Order == [persisted |-> 1, forked |-> 2, aborted |-> 3]

NoBlock == [time |-> 0, trxs |-> {}]
Building == pending # NoBlock
HeadTime == IF chain = <<>> THEN 0 ELSE chain[Len(chain)].time
PendingTime == (IF now > HeadTime THEN now ELSE HeadTime) + 1   \* calculate_pending_block_time

TrxsOf(blocks) == UNION {blocks[i].trxs : i \in DOMAIN blocks}
QueuedAs(q, type) == {t \in Trx : q[t] = type}
Queued(q) == Trx \ QueuedAs(q, "unknown")

Init ==
    /\ queue = [t \in Trx |-> "unknown"]
    /\ incoming = <<>>
    /\ pending = NoBlock /\ producing = FALSE
    /\ chain = <<>> /\ now = 0
    /\ pc = "start" /\ todo = {} /\ limit = 0
    /\ accepted = {} /\ kept = {} /\ gone = {}

-----------------------------------------------------------------------------
(* unapplied_transaction_queue *)

\* A transaction that is queued already keeps its type.
Insert(q, type, S) == [t \in Trx |-> IF t \in S /\ q[t] = "unknown" THEN type ELSE q[t]]

erase(q, S) == [t \in Trx |-> IF t \in S THEN "unknown" ELSE q[t]]

add_aborted(q, S) == IF Mode = "speculative_producer" THEN Insert(q, "aborted", S) ELSE q

add_forked(q, blocks) ==
    IF Mode = "speculative_producer" THEN Insert(q, "forked", TrxsOf(blocks)) ELSE q

add_persisted(q, t) == IF Mode = "non_speculative" THEN q ELSE [q EXCEPT ![t] = "persisted"]

clear_applied(q, S) == erase(q, S \ QueuedAs(q, "persisted"))

-----------------------------------------------------------------------------
\* abort_block and add_aborted
Aborted == add_aborted(queue, pending.trxs)

\* The handler ends with schedule_production_loop.
Reschedule == pc' = "start" /\ UNCHANGED <<todo, limit>>

\* A transaction is known to the chain, the pending block included.
Known(t) == t \in TrxsOf(chain) \cup pending.trxs

(***************************************************************************)
(* process_incoming_transaction_async: it is refused, applied or, when it  *)
(* does not fit, queued again.  stop says that the block is exhausted.     *)
(***************************************************************************)
AddIncoming(rest, e) == IF Len(rest) < MaxIncoming THEN Append(rest, e) ELSE rest

Incoming(e, rest, stop) ==
    LET bt == IF Building THEN pending.time ELSE HeadTime
    IN  \/ /\ Expiry[e.trx] < bt \/ Known(e.trx)
           /\ ~stop /\ incoming' = rest
           /\ UNCHANGED <<pending, queue, accepted, kept, gone>>
        \/ /\ Expiry[e.trx] >= bt /\ ~Known(e.trx)
           /\ ~Building /\ ~stop
           /\ incoming' = AddIncoming(rest, e)
           /\ UNCHANGED <<pending, queue, accepted, kept, gone>>
        \/ /\ Expiry[e.trx] >= bt /\ ~Known(e.trx) /\ Building
           /\ \/ incoming' = AddIncoming(rest, e)              \* did not fit
                 /\ UNCHANGED <<pending, queue, accepted, kept, gone>>
              \/ ~stop /\ incoming' = rest                     \* failed
                 /\ UNCHANGED <<pending, queue, accepted, kept, gone>>
              \/ /\ ~stop /\ incoming' = rest                  \* applied
                 /\ pending' = [pending EXCEPT !.trxs = @ \cup {e.trx}]
                 /\ queue' = IF e.persist THEN add_persisted(queue, e.trx) ELSE queue
                 /\ accepted' = accepted \cup {e.trx}
                 /\ kept' = IF e.persist THEN kept \cup {e.trx} ELSE kept
                 /\ gone' = gone \ {e.trx}

\* on_incoming_transaction_async, when the keys are recovered
OnIncomingTransaction ==
    /\ pc = "idle"
    /\ \E t \in Trx, persist, stop \in BOOLEAN :
          Incoming([trx |-> t, persist |-> persist], incoming, stop)
    /\ UNCHANGED <<producing, chain, now, pc, todo, limit>>

-----------------------------------------------------------------------------
(* on_incoming_block *)

Foreign(time) ==   \* blocks of other producers
    {[time |-> time, trxs |-> S] : S \in SUBSET {t \in Trx : Expiry[t] >= time}}
Valid(blocks) ==
    \A i, j \in DOMAIN blocks : i # j => blocks[i].trxs \cap blocks[j].trxs = {}

\* The block is stored on a fork, or is invalid: the pending block is aborted nevertheless.
BlockNotApplied == chain' = chain /\ queue' = Aborted /\ gone' = gone

ApplyBlock ==
    \E b \in Foreign(HeadTime + 1) :
        /\ Valid(Append(chain, b))
        /\ chain' = Append(chain, b)
        /\ queue' = clear_applied(Aborted, b.trxs)
        /\ gone' = gone

\* maybe_switch_forks: the last n blocks are popped, handed to the callback, replaced.
Base(n) == SubSeq(chain, 1, Len(chain) - n)
Popped(n) == SubSeq(chain, Len(chain) - n + 1, Len(chain))

Branches(n) ==
    LET from == IF Base(n) = <<>> THEN 1 ELSE Base(n)[Len(Base(n))].time + 1
    IN  {bs \in [1..(n + 1) -> UNION {Foreign(from + i) : i \in 0..n}] :
            \A i \in 0..n : bs[i + 1].time = from + i}

\* Faulty variant: the popped blocks are handed over after the new ones were applied.
SwitchForks_late(n, new) ==
    /\ chain' = Base(n) \o new
    /\ queue' = add_forked(clear_applied(Aborted, TrxsOf(new)), Popped(n))
    /\ gone' = gone

SwitchForks(n, new) ==
    /\ chain' = Base(n) \o new
    /\ queue' = clear_applied(add_forked(Aborted, Popped(n)), TrxsOf(new))
    /\ gone' = gone

(***************************************************************************)
(* The block after the first k of the new branch is invalid: "pop all      *)
(* blocks from the bad fork, discarding their transactions", and the old   *)
(* blocks are applied again.                                               *)
(***************************************************************************)
SwitchFails(n, new, k) ==
    LET bad == TrxsOf(SubSeq(new, 1, k))
        q1  == clear_applied(add_forked(Aborted, Popped(n)), bad)
    IN  /\ chain' = chain
        /\ queue' = clear_applied(q1, TrxsOf(Popped(n)))
        /\ gone' = gone \cup (bad \ TrxsOf(chain))

OnIncomingBlock ==
    /\ pc = "idle" /\ ~producing
    /\ pending' = NoBlock
    /\ \/ BlockNotApplied
       \/ Len(chain) < MaxLen /\ HeadTime < MaxTime /\ ApplyBlock
       \/ \E n \in 1..Len(chain) :
             /\ Len(chain) < MaxLen
             /\ \E new \in Branches(n) :
                   /\ Valid(Base(n) \o new) /\ new[n + 1].time <= MaxTime
                   /\ \/ SwitchForks(n, new)
                      \/ \E k \in 0..n : SwitchFails(n, new, k)
    /\ Reschedule
    /\ UNCHANGED <<incoming, producing, now, accepted, kept>>

-----------------------------------------------------------------------------
(* The other ends of a pending block. *)

\* maybe_produce_block: the block is committed.
ProduceBlock ==
    /\ pc = "idle" /\ producing /\ Building /\ Len(chain) < MaxLen
    /\ chain' = Append(chain, pending)
    /\ queue' = clear_applied(queue, pending.trxs)
    /\ pending' = NoBlock
    /\ Reschedule
    /\ UNCHANGED <<incoming, producing, now, accepted, kept, gone>>

\* Faulty variant: the transactions of the aborted block are not queued.
AbortPending_forgets ==
    /\ pc = "idle" /\ Building
    /\ pending' = NoBlock
    /\ Reschedule
    /\ UNCHANGED <<queue, incoming, producing, chain, now, accepted, kept, gone>>

\* maybe_produce_block that fails, resume, update_runtime_options, get_integrity_hash
\* and create_snapshot
AbortPending ==
    /\ pc = "idle" /\ Building
    /\ queue' = Aborted /\ pending' = NoBlock
    /\ Reschedule
    /\ UNCHANGED <<incoming, producing, chain, now, accepted, kept, gone>>

\* The timer of the production loop.
LoopTimer ==
    /\ pc = "idle"
    /\ Reschedule
    /\ UNCHANGED <<queue, incoming, pending, producing, chain, now, accepted, kept, gone>>

Tick ==
    /\ now < MaxTime - 1 /\ now' = now + 1
    /\ UNCHANGED <<queue, incoming, pending, producing, chain, pc, todo, limit, accepted, kept, gone>>

-----------------------------------------------------------------------------
(* start_block *)

\* Not yet, or not now: the pending block, if there is one, stays.
Wait ==
    /\ pc = "start" /\ pc' = "idle"
    /\ producing' \in IF Mode = "speculative_producer" /\ ~Building THEN BOOLEAN ELSE {FALSE}
    /\ UNCHANGED <<queue, incoming, pending, chain, now, todo, limit, accepted, kept, gone>>

\* A block is begun, for this node's producer or to speculate; that may fail.
Begin ==
    /\ pc = "start" /\ PendingTime <= MaxTime
    /\ producing' \in IF Mode = "speculative_producer" THEN BOOLEAN ELSE {FALSE}
    /\ queue' = Aborted
    /\ \/ pending' = NoBlock /\ pc' = "idle"
       \/ pending' = [time |-> PendingTime, trxs |-> {}] /\ pc' = "expire"
    /\ limit' = Len(incoming)
    /\ UNCHANGED <<incoming, chain, now, todo, accepted, kept, gone>>

\* remove_expired_persisted_trxs, which the deadline may stop: S has expired first.
RemoveExpired ==
    /\ pc = "expire"
    /\ LET expired == {t \in Queued(queue) : Expiry[t] <= pending.time}
       IN  \E S \in SUBSET expired :
              /\ \A s \in S, t \in expired \ S : Expiry[s] <= Expiry[t]
              /\ queue' = erase(queue, S)
              /\ gone' = gone \cup S
              /\ pc' = IF S = expired THEN "unapplied" ELSE "idle"
    /\ todo' = IF producing THEN Queued(queue') ELSE QueuedAs(queue', "persisted")
    /\ UNCHANGED <<incoming, pending, producing, chain, now, limit, accepted, kept>>

(***************************************************************************)
(* process_unapplied_trxs: the next transaction is applied or fails, and   *)
(* leaves the queue, or does not fit.                                      *)
(***************************************************************************)
ProcessUnapplied ==
    /\ pc = "unapplied"
    /\ \E t \in todo :
          /\ \A u \in todo : Order[queue[t]] <= Order[queue[u]]
          /\ \/ /\ ~Known(t)                                     \* applied
                /\ pending' = [pending EXCEPT !.trxs = @ \cup {t}]
                /\ queue' = erase(queue, {t})
                /\ todo' = todo \ {t}
                /\ UNCHANGED <<pc, gone>>
             \/ /\ queue' = erase(queue, {t})                    \* failed
                /\ gone' = IF Known(t) THEN gone ELSE gone \cup {t}
                /\ todo' = todo \ {t}
                /\ UNCHANGED <<pc, pending>>
             \/ /\ ~Known(t) /\ todo' = todo \ {t}               \* did not fit
                /\ UNCHANGED <<pc, pending, queue, gone>>
             \/ /\ pc' = "idle" /\ todo' = {}                    \* exhausted
                /\ UNCHANGED <<pending, queue, gone>>
    /\ UNCHANGED <<incoming, producing, chain, now, limit, accepted, kept>>

UnappliedDone ==
    /\ pc = "unapplied" /\ todo = {} /\ pc' = "incoming"
    /\ UNCHANGED <<queue, incoming, pending, producing, chain, now, todo, limit, accepted, kept, gone>>

\* process_incoming_trxs
ProcessIncoming ==
    /\ pc = "incoming" /\ limit > 0 /\ incoming # <<>>
    /\ \E stop \in BOOLEAN : /\ Incoming(incoming[1], Tail(incoming), stop)
                             /\ pc' = IF stop THEN "idle" ELSE pc
    /\ limit' = limit - 1
    /\ UNCHANGED <<producing, chain, now, todo>>

StartDone ==
    /\ pc = "incoming" /\ pc' = "idle"
    /\ UNCHANGED <<queue, incoming, pending, producing, chain, now, todo, limit, accepted, kept, gone>>

-----------------------------------------------------------------------------
Next ==
    \/ OnIncomingTransaction \/ OnIncomingBlock \/ ProduceBlock \/ AbortPending \/ LoopTimer \/ Tick
    \/ Wait \/ Begin \/ RemoveExpired \/ ProcessUnapplied \/ UnappliedDone \/ ProcessIncoming
    \/ StartDone

Spec == Init /\ [][Next]_vars

-----------------------------------------------------------------------------
(* Properties. *)

BlockType == [time : Nat, trxs : SUBSET Trx]

\* The fields keep their types, and start_block's loop visits what is queued.
TypeOK ==
    /\ queue \in [Trx -> Type]
    /\ incoming \in Seq([trx : Trx, persist : BOOLEAN]) /\ Len(incoming) <= MaxIncoming
    /\ pending \in BlockType /\ chain \in Seq(BlockType)
    /\ producing \in BOOLEAN /\ now \in 0..MaxTime
    /\ pc \in {"idle", "start", "expire", "unapplied", "incoming"}
    /\ todo \subseteq Trx /\ (pc = "unapplied" => todo \subseteq Queued(queue))
    /\ limit \in 0..MaxIncoming
    /\ kept \subseteq accepted /\ accepted \subseteq Trx /\ gone \subseteq Trx

\* A node that can produce loses no transaction it accepted: through aborted blocks, fork
\* switches and retries it stays in the queue, the pending block or the chain, until it
\* fails or expires or a bad fork that held it is discarded.
NothingLost ==
    Mode = "speculative_producer" =>
        accepted \subseteq Queued(queue) \cup pending.trxs \cup TrxsOf(chain) \cup gone

\* A transaction of the chain does not wait to be applied again: what a fork switch queues
\* is removed by the blocks that are applied after it.
QueueFresh ==
    (QueuedAs(queue, "forked") \cup QueuedAs(queue, "aborted")) \cap TrxsOf(chain) = {}

\* "store its ID so that we can ensure its applied to all future speculative blocks as
\* well": a transaction accepted with the persist flag is in every pending block that
\* start_block completes, or waits in the queue as persisted because it did not fit.
PersistedApplied ==
    [][StartDone => \A t \in kept \ (gone \cup TrxsOf(chain)) :
                       t \in pending.trxs \cup QueuedAs(queue, "persisted")]_vars

\* "transaction has expired" (validate_expiration): what the queue drops as expired could
\* not have been applied to the pending block.
ExpiredUnusable ==
    [][RemoveExpired => \A t \in gone' \ gone : Expiry[t] < pending.time]_vars

=============================================================================
