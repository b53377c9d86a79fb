------------------------- MODULE MCBlockHeaderState -------------------------
(* Three or four producers; the genesis schedule has one.                  *)
EXTENDS BlockHeaderState

Rotating == {<<"p", "q", "r", "s">>, <<"p", "q", "r", "t">>, <<"p", "q", "r">>}
Shrinking == {<<"p", "q", "r", "s">>, <<"p", "q", "r">>}
=============================================================================
