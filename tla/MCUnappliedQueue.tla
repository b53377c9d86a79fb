-------------------------- MODULE MCUnappliedQueue --------------------------
(* Instances of UnappliedQueue: one transaction that expires early, one late. *)
EXTENDS UnappliedQueue, TLC
CONSTANTS t1, t2

OneExpiry == (t1 :> 2) @@ (t2 :> 9)
LateExpiry == (t1 :> 9) @@ (t2 :> 9)
=============================================================================
