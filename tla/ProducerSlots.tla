---------------------------- MODULE ProducerSlots ----------------------------
(***************************************************************************)
(* Whose turn a slot is, and when a producer's turn comes next.  A block   *)
(* time is a slot; N producers take turns of Rep slots.                    *)
(***************************************************************************)
EXTENDS Naturals

CONSTANTS N,     \* active_schedule.producers.size()
          Rep    \* config::producer_repetitions

ASSUME SlotsAssumption == N \in Nat \ {0} /\ Rep \in Nat \ {0}

\* block_header_state::get_scheduled_producer
ScheduledIndex(slot) == (slot % (N * Rep)) \div Rep

NoMark == [num |-> 0, slot |-> 0]

\* The first slot calculate_next_block_time considers, after slot cur, with block num
\* to come next and the watermark wm.
MinimumSlot(cur, num, wm) ==
    LET byNum  == IF wm.num > num THEN wm.num - num + 1 ELSE 1
        bySlot == IF wm.slot > cur THEN wm.slot - cur + 1 ELSE 1
    IN  cur + (IF byNum > bySlot THEN byNum ELSE bySlot)

\* calculate_next_block_time from the minimum slot, for the producer at index p
NextSlot(p, min) ==
    LET q == ScheduledIndex(min)
        distance == IF p < q THEN p + N - q ELSE p - q
    IN  IF p = q THEN min ELSE min - (min % Rep) + distance * Rep
=============================================================================
