------------------------- MODULE MCProtocolFeatures -------------------------
(* Instances of ProtocolFeatures: a needs no pre-activation, b does and    *)
(* depends on a and is not allowed before slot 2.                          *)
EXTENDS ProtocolFeatures, TLC
CONSTANTS a, b

Dependent == (a :> {}) @@ (b :> {a})
FromSlot == (a :> 1) @@ (b :> 2)
=============================================================================
