-------------------------- MODULE MCResourceLimits --------------------------
(* Instances of ResourceLimits. *)
EXTENDS ResourceLimits

CONSTANTS alice, bob

TwoLimits  == {[mem |-> -1, weight |-> -1], [mem |-> 2, weight |-> 1], [mem |-> 1, weight |-> 2]}
GrowShrink == {2, -2}
OneDelay   == {[payer |-> alice, actor |-> bob, size |-> 1]}
Down       == <<1, 2>>
Up         == <<3, 2>>
=============================================================================
