-------------------------- MODULE BlockHeaderState --------------------------
(***************************************************************************)
(* chain::block_header_state: how the header state of a block follows from *)
(* the header state of the block before it.  Producers confirm blocks; a   *)
(* block confirmed by two thirds of them is proposed as irreversible; what *)
(* two thirds of them imply to be so is irreversible; a schedule set in a  *)
(* block becomes active when that block is irreversible.                   *)
(*                                                                         *)
(* The state machine grows one branch, block by block, the way             *)
(* producer_plugin and controller::start_block do.                         *)
(***************************************************************************)
EXTENDS Integers, Sequences, FiniteSets

CONSTANTS Producer,        \* producer accounts
          Initial,         \* the producer of the genesis schedule
          Schedules,       \* the schedules that may be proposed (sequences of producers)
          Silent,          \* producers that never produce
          Restarting,      \* producers whose nodes may restart
          Free,            \* producers whose headers need only be valid
          Confirms,        \* the confirmed counts a header may carry
          MaxTracked,      \* config::maximum_tracked_dpos_confirmations
          MaxGap,          \* bound: slots from one block to the next
          MaxBlock,        \* bound: the last block of the branch
          Word             \* block numbers wrap here (2^32 in the code)

ASSUME HeaderAssumption ==
  /\ Initial \in Producer /\ {Silent, Restarting, Free} \subseteq SUBSET Producer
  /\ \A s \in Schedules : s \in Seq(Producer)
  /\ Confirms \subseteq Nat
  /\ MaxTracked \in Nat \ {0} /\ MaxGap \in Nat /\ MaxBlock \in Nat \ {0} /\ Word \in Nat
  /\ MaxBlock + 1 < Word

VARIABLES h,          \* the header state of the head
          slot,       \* its timestamp
          proposed,   \* the proposed schedule of the global properties
          watermark,  \* the last block of each producer
          confirmers, \* history: the producers that confirmed each block
          required    \* history: the confirmations each block needs

vars == <<h, slot, proposed, watermark, confirmers, required>>

Members(s) == {s[i] : i \in DOMAIN s}
NoSchedule == [version |-> 0, producers |-> <<>>, block |-> 0]

(* Override f by x at key k, adding the key if it is new.                  *)
With(f, k, x) == [q \in DOMAIN f \cup {k} |-> IF q = k THEN x ELSE f[q]]

-----------------------------------------------------------------------------
(* config::producer_repetitions is 1.                                      *)
get_scheduled_producer(s, t) == s.active[(t % Len(s.active)) + 1]

RequiredConfs(s) == (Len(s.active) * 2) \div 3 + 1

(* The value one third into the implied irreversible block numbers sorted  *)
(* from low to high, with that of the next producer p brought up to date.  *)
calc_dpos_last_irreversible(s, p) ==
  LET implied(q) == IF q = p THEN s.proposed ELSE s.implied[q]
      values == {implied(q) : q \in DOMAIN s.implied}
      index == (Cardinality(DOMAIN s.implied) - 1) \div 3
  IN IF values = {} THEN 0
     ELSE CHOOSE v \in values :
            /\ Cardinality({q \in DOMAIN s.implied : implied(q) < v}) <= index
            /\ index < Cardinality({q \in DOMAIN s.implied : implied(q) <= v})

(* Faulty variant of ConfirmAllowed: no check at all.                      *)
ConfirmAllowed_always(s, p, c) == TRUE

(* The range a producer confirms starts above the last block it produced;  *)
(* the difference is computed on uint32_t.                                 *)
ConfirmAllowed(s, p, c) ==
  p \in DOMAIN s.produced => s.produced[p] < (s.num + 1 - c) % Word

(* The confirmations still needed, with the entry of the new block last.   *)
Grown(s) ==
  Append(IF Len(s.confirm_count) < MaxTracked THEN s.confirm_count ELSE Tail(s.confirm_count),
         RequiredConfs(s))

(* The entries that a header with count c confirms, from the last one down *)
(* to the first that needs no more.                                        *)
Lower(n, c) == IF c < n THEN n - c ELSE 1
Complete(counts, c) ==
  {i \in Lower(Len(counts), c) .. Len(counts) : counts[i] = 1}
Hit(counts, c) == CHOOSE i \in Complete(counts, c) : \A j \in Complete(counts, c) : j <= i
Confirmed(counts, c) ==
  (IF Complete(counts, c) = {} THEN Lower(Len(counts), c) ELSE Hit(counts, c)) .. Len(counts)

(* The block number that entry i stands for.                               *)
NumOf(s, counts, i) == s.num + 1 - (Len(counts) - i)

DecrementedCounts(counts, c) ==
  LET dec(i) == IF i \in Confirmed(counts, c) THEN counts[i] - 1 ELSE counts[i]
      from == IF Complete(counts, c) = {} THEN 0 ELSE Hit(counts, c)
  IN [j \in 1 .. Len(counts) - from |-> dec(from + j)]

(* Faulty variant of Carried: new producers start from nothing.            *)
Carried_from_zero(s, f, lib) ==
  [q \in Members(s.pending.producers) |-> IF q \in DOMAIN f THEN f[q] ELSE 0]

(* What the new active schedule takes over of a producer's record f; a new *)
(* producer starts from the last irreversible block.                       *)
Carried(s, f, lib) ==
  [q \in Members(s.pending.producers) |-> IF q \in DOMAIN f THEN f[q] ELSE lib]

(* block_header_state::next: the header state of the next block, by p.     *)
Next_(s, p, c) ==
  LET counts == Grown(s)
      lib == calc_dpos_last_irreversible(s, p)
      promoted == s.pending.producers # <<>> /\ lib >= s.pending.block
  IN [num |-> s.num + 1,
      confirm_count |-> DecrementedCounts(counts, c),
      proposed |-> IF Complete(counts, c) = {} THEN s.proposed
                   ELSE NumOf(s, counts, Hit(counts, c)),
      lib |-> lib,
      active |-> IF promoted THEN s.pending.producers ELSE s.active,
      version |-> IF promoted THEN s.pending.version ELSE s.version,
      promoted |-> promoted,
      pending |-> IF promoted THEN [s.pending EXCEPT !.producers = <<>>] ELSE s.pending,
      produced |-> With(IF promoted THEN Carried(s, s.produced, lib) ELSE s.produced, p, s.num + 1),
      implied |-> IF promoted
                  THEN LET f == Carried(s, s.implied, lib)
                       IN [q \in DOMAIN f |-> IF q = p THEN s.proposed ELSE f[q]]
                  ELSE With(s.implied, p, s.proposed)]

(* Faulty variant of Promotes: any pending schedule is overwritten.        *)
Promotes_over_pending(s, n) == proposed.block # 0 /\ proposed.block <= n.lib

(* controller::start_block moves the proposed schedule to the header when  *)
(* the block it was proposed in is irreversible and nothing was pending.   *)
Promotes(s, n) ==
  proposed.block # 0 /\ proposed.block <= n.lib /\ s.pending.producers = <<>>

(* What _finish_next and start_block require of a new schedule.            *)
ScheduleAccepted(s, n) ==
  /\ ~n.promoted
  /\ proposed.version = n.version + 1
  /\ s.pending.producers = <<>>

(* set_proposed_producers, called by a transaction of block n.  A second   *)
(* call in the same block replaces the first: AddBlock makes the last one. *)
set_proposed_producers(sch, n, left) ==
  LET current == IF n.pending.producers = <<>> THEN n.active ELSE n.pending.producers
      version == IF n.pending.producers = <<>> THEN n.version ELSE n.pending.version
  IN IF left.block # 0 \/ sch = current THEN left
     ELSE [version |-> version + 1, producers |-> sch, block |-> n.num]

-----------------------------------------------------------------------------
(* genesis: the initial schedule is both active and pending.               *)
Init ==
  /\ h = [num |-> 1, confirm_count |-> <<>>, proposed |-> 0, lib |-> 0,
          active |-> <<Initial>>, version |-> 0, promoted |-> FALSE,
          pending |-> [NoSchedule EXCEPT !.producers = <<Initial>>],
          produced |-> <<>>, implied |-> <<>>]
  /\ slot = 0 /\ proposed = NoSchedule
  /\ watermark = [p \in Producer |-> 0]
  /\ confirmers = [k \in 1 .. MaxBlock |-> {}]
  /\ required = [k \in 1 .. MaxBlock |-> 0]

(* Faulty variant of blocks_to_confirm: one block too many.                *)
blocks_to_confirm_own_too(p) ==
  LET n == IF watermark[p] = 0 \/ watermark[p] >= h.num THEN 0 ELSE h.num - watermark[p] + 1
  IN IF n < h.num - h.lib THEN n ELSE h.num - h.lib

(* What producer_plugin confirms: the blocks above its watermark that are  *)
(* not irreversible; nothing if it has produced none.                      *)
blocks_to_confirm(p) ==
  LET n == IF watermark[p] = 0 \/ watermark[p] >= h.num THEN 0 ELSE h.num - watermark[p]
  IN IF n < h.num - h.lib THEN n ELSE h.num - h.lib

(* Block c is added to the branch by the producer scheduled at slot t; a   *)
(* transaction in it may propose the schedule sch.                         *)
AddBlock(t, c, sch) ==
  LET p == get_scheduled_producer(h, t)
      n == Next_(h, p, c)
      counts == Grown(h)
      set == [proposed EXCEPT !.block = n.num]
      left == IF Promotes(h, n) THEN NoSchedule ELSE proposed
      done == IF Promotes(h, n) THEN [n EXCEPT !.pending = set] ELSE n
  IN /\ h.num < MaxBlock
     /\ t > slot /\ p \notin Silent
     /\ ConfirmAllowed(h, p, c)
     /\ Promotes(h, n) => ScheduleAccepted(h, n)
     /\ h' = done /\ slot' = t
     /\ proposed' = IF sch = <<>> THEN left ELSE set_proposed_producers(sch, done, left)
     /\ watermark' = [watermark EXCEPT ![p] = n.num]
     /\ confirmers' = [k \in 1 .. MaxBlock |->
                         IF \E i \in Confirmed(counts, c) : NumOf(h, counts, i) = k
                         THEN confirmers[k] \cup {p} ELSE confirmers[k]]
     /\ required' = [required EXCEPT ![n.num] = RequiredConfs(h)]

(* A producer in Free signs any header that validates.                     *)
AnyBlock ==
  \E t \in slot + 1 .. slot + MaxGap, c \in Confirms, sch \in Schedules \cup {<<>>} :
     get_scheduled_producer(h, t) \in Free /\ AddBlock(t, c, sch)

(* The others run producer_plugin.                                         *)
OwnBlock ==
  \E t \in slot + 1 .. slot + MaxGap, sch \in Schedules \cup {<<>>} :
     LET p == get_scheduled_producer(h, t)
     IN p \notin Free /\ AddBlock(t, blocks_to_confirm(p), sch)

(* The node of p restarts: _producer_watermarks is kept in memory only.    *)
Restart(p) ==
  /\ watermark[p] # 0
  /\ watermark' = [watermark EXCEPT ![p] = 0]
  /\ UNCHANGED <<h, slot, proposed, confirmers, required>>

Next == AnyBlock \/ OwnBlock \/ \E p \in Restarting : Restart(p)

Spec == Init /\ [][Next]_vars

-----------------------------------------------------------------------------
(* Properties.                                                             *)

(* The types of the header state.                                          *)
TypeOK ==
  /\ h.num \in 1 .. MaxBlock /\ h.proposed \in 0 .. MaxBlock /\ h.lib \in 0 .. MaxBlock
  /\ Len(h.confirm_count) <= MaxTracked
  /\ \A i \in DOMAIN h.confirm_count : h.confirm_count[i] \in 1 .. 255
  /\ DOMAIN h.implied \subseteq Members(h.active) \cup {Initial}

(* A block is proposed as irreversible only if as many different producers *)
(* confirmed it as its schedule requires: confirm_count counts nobody      *)
(* twice.                                                                  *)
DistinctConfirmers ==
  h.proposed > 0 => Cardinality(confirmers[h.proposed]) >= required[h.proposed]

(* The schedule that start_block moves to a header is one that every       *)
(* validator accepts: the next version, with none pending or just promoted.*)
NewScheduleAccepted ==
  \A p \in Members(h.active) :
     LET n == Next_(h, p, 0)
     IN Promotes(h, n) => ScheduleAccepted(h, n)

(* The blocks that producer_plugin lets a producer confirm are never ones  *)
(* it confirmed before, restarts and schedule changes between or not: its  *)
(* own controller does not reject the block as double-confirming.          *)
OwnBlockAccepted ==
  \A t \in slot + 1 .. slot + MaxGap :
     LET p == get_scheduled_producer(h, t)
     IN p \notin Free => ConfirmAllowed(h, p, blocks_to_confirm(p))

(* The producers that a calculation of the last irreversible block skips.  *)
Slack(sch) == (Cardinality(Members(sch)) - 1) \div 3

(* Every block is preferred to its parent, and so becomes the head of the  *)
(* fork database when it is committed, also when the schedule changes: its *)
(* last irreversible block is not lower than its parent's, unless its      *)
(* parent is the block that made a schedule with a smaller slack active.   *)
ChildPreferred ==
  [][Slack(h.active) <= Slack(h'.active) =>
       \A p \in Members(h'.active) : calc_dpos_last_irreversible(h', p) >= h'.lib]_h

(* What commit_block asserts: no block has a lower last irreversible block *)
(* than its parent.  It does not hold when the slack shrinks.              *)
LibKept == [][h'.lib >= h.lib]_h
=============================================================================
