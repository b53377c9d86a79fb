-------------------------- MODULE MCSyncManager --------------------------
(***************************************************************************)
(* Networks for SyncManager: one or two peers on the main branch, and a    *)
(* node that starts at the genesis block or on a fork.                     *)
(***************************************************************************)
EXTENDS SyncManager, TLC
CONSTANTS p1, p2

Main(n) == [i \in 1..n |-> <<i, "m">>]
Genesis == Main(1)
Forked == <<<<1, "m">>, <<2, "f">>, <<3, "f">>>>

(* The peers hold m and n blocks of the main branch.                       *)
Holding(m, n) == (p1 :> m) @@ (p2 :> n)
Branches(m, n) == (p1 :> Main(m)) @@ (p2 :> Main(n))

(* One peer that goes on producing; timers expire early.                   *)
OnePeer == [order |-> <<p1>>, branch |-> Branches(6, 1), len |-> Holding(5, 1), start |-> Genesis,
            span |-> 2, lag |-> 1, closes |-> 0, timeouts |-> 2, stalls |-> 0]

(* The node starts on a fork that is not final.                            *)
FromFork == [order |-> <<p1>>, branch |-> Branches(5, 1), len |-> Holding(3, 1), start |-> Forked,
             span |-> 2, lag |-> 5, closes |-> 0, timeouts |-> 1, stalls |-> 0]

(* Two peers of different length.                                          *)
TwoPeers == [order |-> <<p1, p2>>, branch |-> Branches(3, 4), len |-> Holding(3, 4), start |-> Genesis,
             span |-> 1, lag |-> 1, closes |-> 0, timeouts |-> 1, stalls |-> 0]

(* The connection is lost, or the peer stalls.                             *)
Faults == [order |-> <<p1>>, branch |-> Branches(5, 1), len |-> Holding(4, 1), start |-> Genesis,
           span |-> 2, lag |-> 1, closes |-> 1, timeouts |-> 1, stalls |-> 1]

MCNets == {OnePeer, FromFork, TwoPeers, Faults}

(* A peer that lacks the blocks of the chunk it is asked for.              *)
ShortPeer == {[TwoPeers EXCEPT !.branch = Branches(2, 4), !.len = Holding(2, 4)]}

(* Two equal peers, of which one is lost.                                  *)
EqualPeers == {[TwoPeers EXCEPT !.branch = Branches(3, 3), !.len = Holding(3, 3),
                                !.closes = 1, !.timeouts = 0]}
==========================================================================
