--------------------------- MODULE ResourceLimits ---------------------------
(***************************************************************************)
(* resource_limits_manager and the parts of transaction_context and of the *)
(* controller that bill: limits set now and merged at the end of the       *)
(* block, memory, and one resource measured by time (the code treats CPU   *)
(* and NET alike; this is CPU).  The tables are one record, db, because a  *)
(* transaction that fails is undone as a whole.                            *)
(***************************************************************************)
EXTENDS Accumulator, Integers, Functions

CONSTANTS
    Account,
    Window,              \* account_cpu_usage_average_window
    BlockMax,            \* cpu_limit_parameters.max
    Target, Periods, Multiplier, Contract, Expand,   \* the other elastic parameters
    MemCost,             \* config::transaction_id_net_usage, charged as memory
    Limits,              \* the limits the system contract sets: [mem, weight], -1 for none
    Deltas,              \* the changes of memory an action makes
    Units,               \* the CPU time a transaction takes
    Deferred,            \* deferred transactions: [payer, actor, size]
    MaxSlot, MaxMem      \* bounds: slots, memory of an account

ASSUME LimitsAssumption ==
    /\ Window \in 1..P /\ Periods \in Nat \ {0}
    /\ BlockMax \in Nat \ {0} /\ Multiplier \in Nat \ {0} /\ Target \in Nat /\ MemCost \in Nat
    /\ Limits \subseteq [mem : Int, weight : Int] /\ Units \subseteq Nat /\ Deltas \subseteq Int
    /\ Deferred \subseteq [payer : Account, actor : Account, size : Nat]

NoLimits == [mem |-> -1, weight |-> -1]
Absent   == [mem |-> -2, weight |-> -2]     \* no pending entry

VARIABLES
    db, slot,   \* the tables; the slot of the pending block
    meter       \* history: each account's bills, and its average without rounding,
                \* times P, times Window ^ bills

vars == <<db, slot, meter>>

\* The tables after genesis: no limits, nothing used, the virtual limit at its lowest.
Init ==
    /\ db = [limits  |-> [a \in Account |-> NoLimits], pending |-> [a \in Account |-> Absent],
             usage   |-> [a \in Account |-> ZeroUsage], mem |-> [a \in Account |-> 0],
             total   |-> [mem |-> 0, weight |-> 0],
             block   |-> 0, blocks |-> ZeroUsage, virtual |-> BlockMax,
             queue   |-> {}]
    /\ slot = 1 /\ meter = [a \in Account |-> [bills |-> 0, exact |-> 0]]

-----------------------------------------------------------------------------
(* Queries. *)

\* get_account_limits: pending limits already count.
LimitsOf(d, a) == IF d.pending[a] # Absent THEN d.pending[a] ELSE d.limits[a]

\* verify_account_mem_usage
MemFits(d, a) == LimitsOf(d, a).mem >= 0 => d.mem[a] <= LimitsOf(d, a).mem

Bounded(d, a) == LimitsOf(d, a).weight >= 0 /\ d.total.weight > 0

MaxUse(d, a) == (d.virtual * Window * LimitsOf(d, a).weight) \div d.total.weight

\* Faulty variant: what has been used is rounded down.
Available_floor(d, a) ==
    LET used == (d.usage[a].ex * Window) \div P
    IN  IF MaxUse(d, a) <= used THEN 0 ELSE MaxUse(d, a) - used

\* get_account_cpu_limit_ex, for a bounded account
Available(d, a) ==
    LET used == Ceil(d.usage[a].ex * Window, P)
    IN  IF MaxUse(d, a) <= used THEN 0 ELSE MaxUse(d, a) - used

\* max_bandwidth_billed_accounts_can_pay
CanPay(d, bill, units) == \A a \in bill : Bounded(d, a) => units <= Available(d, a)

BlockLimit(d) == BlockMax - d.block      \* get_block_cpu_limit

-----------------------------------------------------------------------------
(* Operations of the manager. *)

UsageAddable(d, bill, units) == \A a \in bill : Addable(d.usage[a], units, slot, Window)

AddUsage(d, bill, units) ==
    [d EXCEPT !.usage = [a \in Account |-> IF a \in bill THEN add(@[a], units, slot, Window) ELSE @[a]]]

\* The CPU checks of add_transaction_usage, on the state it leaves.
CpuFits(d, bill) ==
    \A a \in bill : Bounded(d, a) => (d.usage[a].ex * Window) \div P <= MaxUse(d, a)

\* add_transaction_usage: the state it leaves ...
Billed(d, bill, units) ==
    [AddUsage(d, bill, units) EXCEPT
        !.mem = [a \in Account |-> IF a \in bill THEN @[a] + MemCost ELSE @[a]],
        !.block = @ + units]

\* ... and its assertions.
Billable(d, bill, units) ==
    LET d1 == Billed(d, bill, units)
    IN  /\ UsageAddable(d, bill, units) /\ CpuFits(d1, bill)
        /\ \A a \in bill : MemFits(d, a) /\ MemFits(d1, a)
        /\ d1.block <= BlockMax

\* add_pending_mem_usage
ChangeMem(d, a, delta) == [d EXCEPT !.mem[a] = @ + delta]
MemChangeable(d, a, delta) == d.mem[a] + delta \in 0..MaxWord

set_account_limits(d, a, l) == [d EXCEPT !.pending[a] = l]

\* Faulty variant: a limit where there was none is not a decrease.
Decreased_unlimited(d, a, l) == l.mem >= 0 /\ l.mem < LimitsOf(d, a).mem

\* The result of set_account_limits.
Decreased(d, a, l) ==
    l.mem >= 0 /\ (LimitsOf(d, a).mem < 0 \/ l.mem < LimitsOf(d, a).mem)

\* Faulty variant: the old value is not taken out of the total.
Total_added(total, old, new) == total + (IF new > 0 THEN new ELSE 0)

\* update_state_and_value.  Its assertions guard a uint64_t total: against underflow, which
\* TotalsExact excludes, and against a sum of limits beyond 2^64, which is not modelled.
Total(total, old, new) ==
    total - (IF old > 0 THEN old ELSE 0) + (IF new > 0 THEN new ELSE 0)

\* process_account_limit_updates, for one account and then for all that have an entry
Merge(d, a) ==
    [d EXCEPT !.total = [mem    |-> Total(@.mem, d.limits[a].mem, d.pending[a].mem),
                         weight |-> Total(@.weight, d.limits[a].weight, d.pending[a].weight)],
              !.limits[a] = d.pending[a], !.pending[a] = Absent]

Merged(d) ==
    FoldFunctionOnSet(LAMBDA a, e : Merge(e, a), d, [a \in Account |-> a],
                      {a \in Account : d.pending[a] # Absent})

Within(x, low, high) == IF x < low THEN low ELSE IF x > high THEN high ELSE x

\* update_elastic_limit
ElasticLimit(limit, avg) ==
    LET rate == IF avg > Target THEN Contract ELSE Expand
    IN  Within((limit * rate[1]) \div rate[2], BlockMax, BlockMax * Multiplier)

\* process_block_usage
BlockUsage(d) ==
    LET blocks == add(d.blocks, d.block, slot, Periods)
    IN  [d EXCEPT !.blocks = blocks, !.block = 0, !.virtual = ElasticLimit(@, average(blocks))]

-----------------------------------------------------------------------------
(* Transactions, on one actor that is billed. *)

NoOp == [kind |-> "none"]

MemOps == {NoOp} \cup [kind : {"mem"}, of : Account, delta : Deltas]

Ops == {NoOp}
       \cup [kind : {"limits"}, of : Account, limits : Limits]
       \cup [kind : {"defer"}, trx : Deferred]

OpAllowed(d, op) ==
    CASE op.kind = "mem" -> MemChangeable(d, op.of, op.delta)
      [] op.kind = "defer" -> op.trx \notin d.queue
      [] OTHER -> TRUE

OpDone(d, op) ==
    CASE op.kind = "mem" -> ChangeMem(d, op.of, op.delta)
      [] op.kind = "limits" -> set_account_limits(d, op.of, op.limits)
      [] op.kind = "defer" -> [ChangeMem(d, op.trx.payer, op.trx.size) EXCEPT !.queue = @ \cup {op.trx}]
      [] OTHER -> d

\* The accounts that enter validate_mem_usage.
Validated(d, op) ==
    CASE op.kind = "mem" -> IF op.delta > 0 THEN {op.of} ELSE {}
      [] op.kind = "limits" -> IF Decreased(d, op.of, op.limits) THEN {op.of} ELSE {}
      [] op.kind = "defer" -> {op.trx.payer}
      [] OTHER -> {}

(***************************************************************************)
(* A transaction of two actions on the state d: init brings the usage   *)
(* of the actor to the present, finalize checks the memory of the accounts *)
(* recorded and what the actor can pay, and bills.                         *)
(***************************************************************************)
Executes(d, actor, op1, op2, units, d4) ==
    LET d1 == AddUsage(d, {actor}, 0)
        d2 == OpDone(d1, op1)
        d3 == OpDone(d2, op2)
    IN  /\ units <= BlockLimit(d)
        /\ UsageAddable(d, {actor}, 0) /\ OpAllowed(d1, op1) /\ OpAllowed(d2, op2)
        /\ \A a \in Validated(d1, op1) \cup Validated(d2, op2) : MemFits(d3, a)
        /\ CanPay(d3, {actor}, units)
        /\ Billable(d3, {actor}, units)
        /\ d4 = Billed(d3, {actor}, units)
        /\ \A a \in Account : d4.mem[a] <= MaxMem

\* The history of a bill: what was used before fades by one part in Window per slot.
Metered(a, units) ==
    LET gone == slot - db.usage[a].ord
        m == meter[a]
    IN  meter' = [meter EXCEPT ![a] =
            [bills |-> m.bills + 1,
             exact |-> m.exact * (IF gone < Window THEN Window - gone ELSE 0)
                       + units * P * Window ^ m.bills]]

Transaction ==
    /\ \E actor \in Account, op1 \in Ops, op2 \in MemOps, units \in Units :
          Executes(db, actor, op1, op2, units, db') /\ Metered(actor, units)
    /\ UNCHANGED slot

\* remove_scheduled_transaction
Removed(d, t) == [ChangeMem(d, t.payer, -t.size) EXCEPT !.queue = @ \ {t}]

ExpireDeferred ==
    /\ \E t \in db.queue : MemChangeable(db, t.payer, -t.size) /\ db' = Removed(db, t)
    /\ UNCHANGED <<slot, meter>>

RunDeferred ==
    /\ \E t \in db.queue, op1 \in Ops, op2 \in MemOps, units \in Units :
          /\ MemChangeable(db, t.payer, -t.size)
          /\ Executes(Removed(db, t), t.actor, op1, op2, units, db') /\ Metered(t.actor, units)
    /\ UNCHANGED slot

\* What the failure of t is billed: the time taken, no more than the actor can pay.
FailureTime(d, t, units) ==
    LET most == IF Bounded(d, t.actor) /\ Available(d, t.actor) < units
                THEN Available(d, t.actor) ELSE units
    IN  IF BlockLimit(d) < most THEN BlockLimit(d) ELSE most

\* The actions of t fail and so does its error handler: the failure itself is billed.
FailDeferred ==
    /\ \E t \in db.queue, units \in Units :
          LET d == AddUsage(Removed(db, t), {t.actor}, 0)
          IN  /\ MemChangeable(db, t.payer, -t.size) /\ UsageAddable(db, {t.actor}, 0)
              /\ Billable(d, {t.actor}, FailureTime(d, t, units))
              /\ db' = Billed(d, {t.actor}, FailureTime(d, t, units))
              /\ db'.mem[t.actor] <= MaxMem /\ Metered(t.actor, FailureTime(d, t, units))
    /\ UNCHANGED slot

\* finalize_block, and the next block begins; every block has the next number and slot.  The
\* parameters that it passes to set_block_parameters never change here: they are constants.
EndBlock ==
    /\ slot < MaxSlot /\ slot' = slot + 1
    /\ Addable(db.blocks, db.block, slot, Periods)
    /\ db' = BlockUsage(Merged(db)) /\ UNCHANGED meter

Next == Transaction \/ ExpireDeferred \/ RunDeferred \/ FailDeferred \/ EndBlock

Spec == Init /\ [][Next]_vars

-----------------------------------------------------------------------------
(* Properties. *)

\* The counters stay inside their words and the virtual limit keeps its range.
TypeOK ==
    /\ slot \in 1..MaxSlot /\ db.block \in 0..BlockMax
    /\ db.virtual \in BlockMax..(BlockMax * Multiplier)
    /\ \A a \in Account : db.usage[a].ex \in 0..MaxWord /\ db.usage[a].consumed \in 0..MaxWord
    /\ \A a \in Account : db.mem[a] \in 0..MaxWord

Positive(f(_)) == SumFunction([a \in Account |-> IF f(a) > 0 THEN f(a) ELSE 0])

\* The totals are the sums over the accounts: the incremental updates neither drift nor
\* underflow, whatever limits are set, cleared and set again within a block, for one account
\* or for several.
TotalsExact ==
    /\ db.total.mem = Positive(LAMBDA a : db.limits[a].mem)
    /\ db.total.weight = Positive(LAMBDA a : db.limits[a].weight)

\* Between transactions no account holds more memory than its limit allows, although only
\* the accounts recorded during the transaction are looked at.
MemWithinLimit == \A a \in Account : MemFits(db, a)

\* "Should never fail" (transaction_context.cpp:341, controller.cpp:1363), as far as CPU is
\* concerned: what was found payable before the bill is found payable with it, after all
\* the rounding.
CpuBillFits ==
    \A a \in Account, units \in 1..BlockMax :
        LET d == AddUsage(db, {a}, 0)
        IN  UsageAddable(db, {a}, 0) /\ CanPay(d, {a}, units)
                => CpuFits(Billed(d, {a}, units), {a})

\* The average kept in integers stays within one unit per bill of the exact moving average,
\* although it rounds as it decays and as it adds, whatever the pattern of use.
CloseToExact ==
    \A a \in Account :
        LET scale == Window ^ meter[a].bills
        IN  /\ db.usage[a].ex * scale <= meter[a].exact + meter[a].bills * scale
            /\ meter[a].exact <= (db.usage[a].ex + meter[a].bills) * scale

\* "Should never fail" (controller.cpp:1363): a deferred transaction that fails can be billed
\* and leaves the queue.
FailureBillable ==
    \A t \in db.queue : \A units \in Units :
        LET d == AddUsage(Removed(db, t), {t.actor}, 0)
        IN  Billable(d, {t.actor}, FailureTime(d, t, units))
=============================================================================
