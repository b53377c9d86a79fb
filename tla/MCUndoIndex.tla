----------------------------- MODULE MCUndoIndex -----------------------------
(* Three ids, two values and three nested sessions.                        *)
EXTENDS UndoIndex, TLC

CONSTANTS v1, v2
MCVal == {v1, v2}
MCSymmetry == Permutations(MCVal)
=============================================================================
