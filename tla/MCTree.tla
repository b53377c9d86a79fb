------------------------------- MODULE MCTree -------------------------------
(* A small tree of blocks for the model checker: a main branch, a rival    *)
(* branch from the genesis block, and a late fork of the main branch.      *)
(*                                                                         *)
(*    g --- a1 --- a2 --- a3          lib:  a3 makes a1 irreversible,      *)
(*     \      \                             b3 is as long but makes nothing *)
(*      \      c2                                                          *)
(*       b1 --- b2 --- b3                                                  *)
(*                                                                         *)
(* The ids interleave, so that ties are decided both ways: c2 < a2 < b2.   *)
EXTENDS Integers

MCBlock == {"g", "a1", "a2", "a3", "b1", "b2", "b3", "c2"}

MCPrev == [b \in MCBlock \ {"g"} |->
  CASE b = "a1" -> "g" [] b = "a2" -> "a1" [] b = "a3" -> "a2" [] b = "c2" -> "a1"
    [] b = "b1" -> "g" [] b = "b2" -> "b1" [] b = "b3" -> "b2"]

MCNum == [b \in MCBlock |->
  CASE b = "g" -> 1 [] b \in {"a1", "b1"} -> 2 [] b \in {"a2", "b2", "c2"} -> 3
    [] b \in {"a3", "b3"} -> 4]

MCLib == [b \in MCBlock |-> IF b = "a3" THEN 2 ELSE 1]

MCRank == [b \in MCBlock |->
  CASE b = "g" -> 0 [] b = "c2" -> 1 [] b = "a2" -> 2 [] b = "b2" -> 3
    [] b = "b1" -> 4 [] b = "a1" -> 5 [] b = "b3" -> 6 [] b = "a3" -> 7]

MCAnc ==
  LET up[b \in MCBlock] == IF b = "g" THEN {"g"} ELSE {b} \cup up[MCPrev[b]]
  IN up
=============================================================================
