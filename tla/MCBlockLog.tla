----------------------------- MODULE MCBlockLog -----------------------------
(* Byte positions for TLC: blocks of different sizes behind one of two     *)
(* headers, the longer one with the genesis state.                         *)
EXTENDS BlockLog, FiniteSetsExt

MCSize == <<3, 3, 4, 3, 3, 5>>

MCPos(f, b) ==
  (IF f = 1 THEN 3 ELSE 2) + MapThenSumSet(LAMBDA i : MCSize[i], f .. b - 1)
=============================================================================
