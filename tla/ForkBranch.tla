----------------------------- MODULE ForkBranch -----------------------------
(***************************************************************************)
(* The loops of fork_database that walk branches, over every fork database *)
(* that ForkDatabase can reach.  A branch is a sequence of blocks, newest  *)
(* first, as the code builds it; Missing is the null pointer that get_block*)
(* returns, and Throws stands for a thrown fork_db_block_not_found.        *)
(***************************************************************************)
EXTENDS ForkDatabase, Sequences, FiniteSets

CONSTANTS Missing, Throws

get_block(d, b) == IF b \in d.index THEN b ELSE Missing

(* header.previous; the genesis block names no block of the chain.         *)
Previous(b) == IF b = Genesis THEN Missing ELSE prev[b]

(* fetch_branch( h, trim_after_block_num )                                 *)
RECURSIVE BranchOf(_, _, _)
BranchOf(d, s, trim) ==
  IF s = Missing THEN << >>
  ELSE (IF num[s] <= trim THEN <<s>> ELSE << >>)
          \o BranchOf(d, get_block(d, Previous(s)), trim)

FetchBranch(d, h, trim) == BranchOf(d, get_block(d, h), trim)

(* search_on_branch( h, block_num )                                        *)
RECURSIVE SearchFrom(_, _, _)
SearchFrom(d, s, n) ==
  IF s = Missing \/ num[s] = n THEN s
  ELSE SearchFrom(d, get_block(d, Previous(s)), n)

SearchOnBranch(d, h, n) == SearchFrom(d, get_block(d, h), n)

(* The start of fetch_branch_from also knows the root.                     *)
RootOrBlock(d, b) == IF b = d.root THEN b ELSE get_block(d, b)

(* The two loops that bring both sides to the same block number.           *)
RECURSIVE Descend(_, _, _)
Descend(d, s, n) ==
  IF s = Missing \/ num[s] <= n THEN <<s>>
  ELSE <<s>> \o Descend(d, RootOrBlock(d, Previous(s)), n)

(* The loop that walks both sides until their parents are the same.        *)
RECURSIVE Together(_, _, _)
Together(d, f, s) ==
  IF f = Missing \/ s = Missing THEN Throws
  ELSE IF Previous(f) = Previous(s) THEN <<<<f>>, <<s>>>>
  ELSE LET rest == Together(d, get_block(d, Previous(f)), get_block(d, Previous(s)))
       IN IF rest = Throws THEN Throws
          ELSE <<<<f>> \o rest[1], <<s>> \o rest[2]>>

(* Faulty variant of FetchBranchFrom: no return when the walk down ends at *)
(* a common block.                                                         *)
FetchBranchFrom_no_return(d, first, second) ==
  LET f == RootOrBlock(d, first)
      s == RootOrBlock(d, second)
  IN IF f = Missing \/ s = Missing THEN Throws
     ELSE LET fw == Descend(d, f, num[s])
              sw == Descend(d, s, num[f])
              fl == fw[Len(fw)]
              sl == sw[Len(sw)]
          IN IF fl = Missing \/ sl = Missing THEN Throws
             ELSE LET both == Together(d, fl, sl)
                  IN IF both = Throws THEN Throws
                     ELSE <<SubSeq(fw, 1, Len(fw) - 1) \o both[1],
                            SubSeq(sw, 1, Len(sw) - 1) \o both[2]>>

(* fetch_branch_from( first, second )                                      *)
FetchBranchFrom(d, first, second) ==
  LET f == RootOrBlock(d, first)
      s == RootOrBlock(d, second)
  IN IF f = Missing \/ s = Missing THEN Throws
     ELSE LET fw == Descend(d, f, num[s])
              sw == Descend(d, s, num[f])
              fl == fw[Len(fw)]
              sl == sw[Len(sw)]
              fs == SubSeq(fw, 1, Len(fw) - 1)
              ss == SubSeq(sw, 1, Len(sw) - 1)
          IN IF fl = Missing \/ sl = Missing THEN Throws
             ELSE IF fl = sl THEN <<fs, ss>>
             ELSE LET both == Together(d, fl, sl)
                  IN IF both = Throws THEN Throws
                     ELSE <<fs \o both[1], ss \o both[2]>>

-----------------------------------------------------------------------------
(* Properties.                                                             *)

(* s lists the blocks of S, newest first.                                  *)
Lists(s, S) ==
  /\ {s[i] : i \in 1 .. Len(s)} = S /\ Len(s) = Cardinality(S)
  /\ \A i \in 1 .. Len(s) - 1 : num[s[i]] > num[s[i + 1]]

KnownBlocks == fdb.index \cup {fdb.root}

(* The walks along branches are exact.  fetch_branch_from never throws on  *)
(* known blocks, and gives what each branch has beyond the common          *)
(* ancestor, newest first: the blocks maybe_switch_forks pops and applies. *)
(* fetch_branch gives the branch above the root, trimmed, and              *)
(* search_on_branch its one block with the number asked for, or nothing.   *)
BranchWalksExact ==
  /\ \A f, s \in KnownBlocks :
       LET r == FetchBranchFrom(fdb, f, s)
           e == fetch_branch_from(fdb, f, s)
       IN r # Throws /\ Lists(r[1], e.first) /\ Lists(r[2], e.second)
  /\ \A h \in fdb.index, n \in 0 .. MaxNum :
       /\ Lists(FetchBranch(fdb, h, n), {b \in anc[h] \ anc[fdb.root] : num[b] <= n})
       /\ IF num[fdb.root] < n /\ n <= num[h]
          THEN SearchOnBranch(fdb, h, n) \in {b \in anc[h] : num[b] = n}
          ELSE SearchOnBranch(fdb, h, n) = Missing

(* What fork_database.hpp says of fetch_branch: a block that is not in the *)
(* fork database makes it throw.                                           *)
FetchBranchThrowsOnUnknown ==
  \A h \in Block \ KnownBlocks : FetchBranch(fdb, h, MaxNum) = Throws
=============================================================================
