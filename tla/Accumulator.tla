----------------------------- MODULE Accumulator -----------------------------
(***************************************************************************)
(* exponential_moving_average_accumulator of the resource limits: a record *)
(* of the last ordinal, the average times the precision, and the amount    *)
(* consumed in the last ordinal.                                           *)
(***************************************************************************)
EXTENDS Naturals

CONSTANTS P,         \* Precision, config::rate_limiting_precision
          MaxWord    \* the largest uint64_t

ASSUME AccumulatorAssumption == P \in Nat \ {0} /\ MaxWord \in Nat /\ MaxWord >= P

ZeroUsage == [ord |-> 0, ex |-> 0, consumed |-> 0]

\* integer_divide_ceil
Ceil(num, den) == (num \div den) + (IF num % den > 0 THEN 1 ELSE 0)

average(acc) == Ceil(acc.ex, P)

\* The assertions of add.  The sum is checked with the average before it decays.
Addable(acc, units, ord, window) ==
    LET contrib == Ceil(units * P, window)
    IN  /\ units <= MaxWord \div P /\ MaxWord - acc.consumed >= units
        /\ contrib <= MaxWord /\ MaxWord - acc.ex >= contrib
        /\ ord >= acc.ord
        /\ (acc.ord < ord /\ ord < acc.ord + window) => MaxWord \div (window - (ord - acc.ord)) >= acc.ex

\* Faulty variant: a window that has passed leaves the average as it is.
Decayed_gap(acc, ord, window) ==
    LET ex == IF ord - acc.ord < window
              THEN (acc.ex * (window - (ord - acc.ord))) \div window ELSE acc.ex
    IN  IF acc.ord = ord THEN acc ELSE [ord |-> ord, ex |-> ex, consumed |-> Ceil(ex, P)]

\* The average moved to the ordinal ord.
Decayed(acc, ord, window) ==
    LET ex == IF acc.ord + window > ord
              THEN (acc.ex * (window - (ord - acc.ord))) \div window ELSE 0
    IN  IF acc.ord = ord THEN acc ELSE [ord |-> ord, ex |-> ex, consumed |-> Ceil(ex, P)]

add(acc, units, ord, window) ==
    [Decayed(acc, ord, window) EXCEPT !.ex = @ + Ceil(units * P, window),
                                      !.consumed = @ + units]
=============================================================================
