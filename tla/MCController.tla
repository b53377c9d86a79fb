---------------------------- MODULE MCController ----------------------------
(* The controller over a tree of ten blocks with three branches.           *)
(*                                                                         *)
(*    g --- a1 --- a2 --- a3 --- a4     c3 makes a1 irreversible,          *)
(*     \      \                         a4 makes a1 and a2 irreversible    *)
(*      \      c2 --- c3                                                   *)
(*       b1 --- b2 --- b3                                                  *)
(*                                                                         *)
(* The ids are ordered so that ties are decided both ways.                 *)
EXTENDS Controller

MCBlock == {"g", "a1", "a2", "a3", "a4", "b1", "b2", "b3", "c2", "c3"}

MCPrev == [b \in MCBlock \ {"g"} |->
  CASE b \in {"a1", "b1"} -> "g" [] b \in {"a2", "c2"} -> "a1"
    [] b = "a3" -> "a2" [] b = "a4" -> "a3" [] b = "c3" -> "c2"
    [] b = "b2" -> "b1" [] b = "b3" -> "b2"]

MCNum == [b \in MCBlock |->
  CASE b = "g" -> 1 [] b \in {"a1", "b1"} -> 2 [] b \in {"a2", "b2", "c2"} -> 3
    [] b \in {"a3", "b3", "c3"} -> 4 [] b = "a4" -> 5]

MCLib == [b \in MCBlock |->
  CASE b = "c3" -> 2 [] b = "a4" -> 3 [] OTHER -> 1]

MCRank == [b \in MCBlock |->
  CASE b = "g" -> 0 [] b = "c2" -> 1 [] b = "a2" -> 2 [] b = "b2" -> 3 [] b = "b1" -> 4
    [] b = "a1" -> 5 [] b = "a3" -> 6 [] b = "c3" -> 7 [] b = "b3" -> 8 [] b = "a4" -> 9]

MCAnc ==
  LET up[b \in MCBlock] == IF b = "g" THEN {"g"} ELSE {b} \cup up[MCPrev[b]]
  IN up
(* Every choice of at most two blocks that fail in apply_block.            *)
MCInvalidSets == {{a, b} : a, b \in MCBlock \ {"g"}} \cup {{}}
=============================================================================
