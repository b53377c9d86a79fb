---------------------------- MODULE SyncManager ----------------------------
(***************************************************************************)
(* Block synchronisation of the net plugin: one node, the sync_manager it  *)
(* shares between its connections, and the peers it synchronises with.     *)
(*                                                                         *)
(* A connection's handlers run on its strand, one at a time; the strands   *)
(* of two connections run in parallel and meet in sync_manager, whose      *)
(* state sync_mtx protects, except where the code touches sync_state       *)
(* without it.  A handler that reads or sets sync_state after it released  *)
(* the lock leaves a continuation at the front of its strand; the two      *)
(* locked sections of a block (sync_update_expected, sync_recv_block) and  *)
(* of a notice (sync_reset_lib_num, start_sync) are taken as one.  Blocks  *)
(* are applied by the application thread, which posts the result back.     *)
(*                                                                         *)
(* A peer runs the same program; of it only the side that answers is       *)
(* modelled.  A block is a pair <<number, tag>>, net.branch[p] the chain *)
(* peer p holds or produces.                                               *)
(***************************************************************************)
EXTENDS Naturals, Sequences, FiniteSets, SequencesExt

CONSTANTS
    Peers,          \* my_impl->connections, all a node may have
    Nets,           \* the networks this node may be part of
    MaxRejected,    \* def_max_consecutive_rejected_blocks
    Null

Larger(a, b) == IF a > b THEN a ELSE b
Smaller(a, b) == IF a < b THEN a ELSE b
Num(b) == b[1]

(***************************************************************************)
(* A network: the peers there are, in the order of the set of connections; *)
(* the chain of each and how much of it the peer holds at first; the chain *)
(* this node has on disk; sync_req_span; how far the irreversible block is *)
(* behind the head; and the bounds on connections lost, on response timers *)
(* that expire too early and on ranges a peer stops sending.               *)
(***************************************************************************)
ASSUME NetsAssumption ==
    \A n \in Nets :
        /\ Range(n.order) \subseteq Peers /\ IsInjective(n.order)
        /\ \A p \in Peers : n.len[p] \in 1..Len(n.branch[p])
        /\ {n.span, n.lag, n.closes, n.timeouts, n.stalls, MaxRejected} \subseteq Nat
        /\ n.span > 0

VARIABLES
    net,            \* the network, always the same
    sm,             \* sync_manager: known, lastReq, nextExp, source, stage
    conn,           \* the connections, as this node sees them
    strand,         \* per connection: tasks posted to its strand
    mainQ,          \* blocks posted to the application thread
    have, branch,   \* the blocks held and the chain of the fork head
    lib,            \* last irreversible block number
    inbox, outbox,  \* per connection: messages to this node and to the peer
    peer,           \* the peers' side of the connections
    closes, timeouts, stalls

chain == <<have, branch, lib>>
faults == <<net, closes, timeouts, stalls>>
vars == <<sm, conn, strand, mainQ, chain, inbox, outbox, peer, faults>>

Blocks == UNION {Range(net.branch[p]) : p \in Peers} \cup Range(net.start)
LibOf(len) == IF len > net.lag THEN len - net.lag ELSE 1   \* the first block is the genesis
PathOf(b) ==
    SubSeq(CHOOSE s \in {net.branch[p] : p \in Peers} \cup {net.start} : b \in Range(s), 1, Num(b))

Here == Range(net.order)

HeadId == branch[Len(branch)]
HeadNum == Len(branch)

\* connection::current
Current(cn, p) == cn[p].status = "connected" /\ ~cn[p].syncing

NewConn == [status |-> "closed", syncing |-> FALSE, fork |-> Null, hsLib |-> 0,
            sent |-> Null, timer |-> FALSE, rejected |-> 0, lost |-> FALSE, unwatched |-> FALSE]
NoRange == [last |-> 0, end |-> 0]

Init ==
    /\ net \in Nets
    /\ sm = [known |-> 0, lastReq |-> 0, nextExp |-> 1, source |-> Null, stage |-> "in_sync"]
    /\ conn = [p \in Peers |-> NewConn]
    /\ strand = [p \in Peers |-> <<>>]
    /\ mainQ = <<>>
    /\ have = Range(net.start) /\ branch = net.start /\ lib = LibOf(Len(net.start))
    /\ inbox = [p \in Peers |-> <<>>]
    /\ outbox = [p \in Peers |-> <<>>]
    /\ peer = [p \in Peers |-> [len |-> net.len[p], sent |-> 0, view |-> 0,
                                syncing |-> FALSE, range |-> NoRange]]
    /\ closes = 0 /\ timeouts = 0 /\ stalls = 0

-----------------------------------------------------------------------------
(***************************************************************************)
(* The network goes on producing blocks.  The last block of a branch       *)
(* stands for the next one: it is produced when all else has come to rest, *)
(* and no fault follows it.                                                *)
(***************************************************************************)
Idle ==
    /\ mainQ = <<>>
    /\ \A p \in Here : /\ strand[p] = <<>> /\ inbox[p] = <<>> /\ outbox[p] = <<>>
                       /\ conn[p].status # "closed" /\ peer[p].range = NoRange
Ending == \E p \in Peers : peer[p].len = Len(net.branch[p]) /\ net.len[p] < Len(net.branch[p])

-----------------------------------------------------------------------------
(* Tasks and messages. *)

Post(st, p, t) == [st EXCEPT ![p] = Append(@, t)]
Continue(st, p, t) == [st EXCEPT ![p] = <<t>> \o @]
PostCurrent(st, cn, t) == [p \in Peers |-> IF Current(cn, p) THEN Append(st[p], t) ELSE st[p]]
Send(p, m) == outbox' = [outbox EXCEPT ![p] = Append(@, m)]

(***************************************************************************)
(* flush_queues: what still waits behind the write in progress is thrown   *)
(* away.  The first n messages on their way have been written; what has    *)
(* been received and not yet been confirmed to the writer counts as well,  *)
(* so all of q may be waiting.  lost is history: messages that nobody will *)
(* repeat were thrown away and no handshake was sent since.                *)
(***************************************************************************)
Kept(q, n) == SubSeq(q, 1, n)
Unrepeated(q, n) ==
    \E i \in (n + 1)..Len(q) : q[i].k \in {"handshake", "libnotice", "headnotice"}

\* A write to a socket that was closed fails and closes the connection once more.
EmitAfter(q, p, m, st) ==
    IF conn[p].status = "closed"
    THEN strand' = Post(st, p, [k |-> "close"]) /\ outbox' = [outbox EXCEPT ![p] = q]
    ELSE strand' = st /\ outbox' = [outbox EXCEPT ![p] = Append(q, m)]
Emit(p, m, st) == EmitAfter(outbox[p], p, m, st)

\* A handler of the strand has not finished.
Busy(p) == strand[p] # <<>> /\ strand[p][1].k \in {"catchup", "headloop"}

Handshake(force) == [k |-> "handshake", force |-> force]

(***************************************************************************)
(* request_next_chunk, with the sync manager s, the connections cn and the *)
(* strands st it finds; c is the connection it is called for, or Null.     *)
(***************************************************************************)
Place(p) == CHOOSE i \in DOMAIN net.order : net.order[i] = p
Ring(src) ==   \* the connections in the order they are tried
    LET from == IF src = Null THEN 1 ELSE Place(src) + 1
    IN  [i \in 1..Len(net.order) |-> net.order[((from + i - 2) % Len(net.order)) + 1]]

ChooseSource(s, cn, c) ==
    IF c # Null /\ Current(cn, c) THEN c
    ELSE IF Len(net.order) = 1 THEN (IF s.source = Null THEN net.order[1] ELSE s.source)
    ELSE LET able == SelectSeq(Ring(s.source), LAMBDA p : Current(cn, p))
         IN  IF able = <<>> THEN s.source ELSE able[1]

\* Faulty variant: the expected number moves when the chunk is requested.
NextChunk_ahead(s, cn, st, c) ==
    LET src == ChooseSource(s, cn, c)
        end == Smaller(s.nextExp + net.span - 1, s.known)
    IN  IF \/ HeadNum < s.lastReq /\ s.source # Null /\ Current(cn, s.source)
           \/ src = Null \/ ~Current(cn, src) \/ end < s.nextExp
        THEN [sm |-> s, strand |-> st]
        ELSE [sm |-> [s EXCEPT !.source = src, !.lastReq = end, !.nextExp = end + 1],
              strand |-> Post(st, src, [k |-> "request", begin |-> s.nextExp, end |-> end])]

NextChunk(s, cn, st, c) ==
    LET src   == ChooseSource(s, cn, c)
        begin == s.nextExp
        end   == Smaller(begin + net.span - 1, s.known)
    IN  IF HeadNum < s.lastReq /\ s.source # Null /\ Current(cn, s.source)
        THEN [sm |-> s, strand |-> st]
        ELSE IF src = Null \/ ~Current(cn, src)
        THEN [sm |-> [s EXCEPT !.source = src, !.known = lib, !.lastReq = 0,
                               !.stage = "in_sync"],
              strand |-> st]
        ELSE IF s.lastReq # s.known /\ end > 0 /\ end >= begin
        THEN [sm |-> [s EXCEPT !.source = src, !.lastReq = end],
              strand |-> Post(st, src, [k |-> "request", begin |-> begin, end |-> end])]
        ELSE [sm |-> [s EXCEPT !.source = src],
              strand |-> Post(st, src, Handshake(FALSE))]

SetChunk(r) == sm' = r.sm /\ strand' = r.strand

\* sync_reset_lib_num
ResetLibNum(s, cn, st, c) ==
    LET s1 == IF s.stage = "in_sync" THEN [s EXCEPT !.source = Null] ELSE s
    IN  IF Current(cn, c)
        THEN [sm |-> [s1 EXCEPT !.known = Larger(@, cn[c].hsLib)], strand |-> st]
        ELSE IF c = s1.source
        THEN NextChunk([s1 EXCEPT !.lastReq = 0], cn, st, Null)
        ELSE [sm |-> s1, strand |-> st]

\* start_sync, after is_sync_required
StartSync(s, cn, st, c, target) ==
    LET s1 == [s EXCEPT !.known = Larger(@, target)]
        required == s1.lastReq < s1.known \/ HeadNum < s1.lastReq
    IN  IF ~required \/ target <= lib
        THEN [sm |-> s1, strand |-> st]
        ELSE NextChunk([s1 EXCEPT !.stage = IF @ = "in_sync" THEN "lib_catchup" ELSE @,
                                  !.nextExp = Larger(lib + 1, @)], cn, st, c)

-----------------------------------------------------------------------------
(* Opening and closing a connection. *)

\* A connection is made and both sides send their first handshake.
Connect(p) ==
    /\ p \in Here /\ conn[p].status = "closed" /\ strand[p] = <<>>
    /\ conn' = [conn EXCEPT ![p].status = "connecting"]
    /\ strand' = Post(strand, p, Handshake(FALSE))
    /\ inbox' = [inbox EXCEPT ![p] = <<[k |-> "handshake", len |-> peer[p].len]>>]
    /\ peer' = [peer EXCEPT ![p].sent = peer[p].len, ![p].view = 0,
                            ![p].syncing = FALSE, ![p].range = NoRange]
    /\ UNCHANGED <<sm, mainQ, chain, outbox, faults>>

\* connection::_close: the fork head is the one thing it leaves.
CloseConn(cn, p) == [cn EXCEPT ![p] = [NewConn EXCEPT !.fork = cn[p].fork]]

Close(p, st) ==
    LET cn == CloseConn(conn, p)
    IN  /\ conn' = cn
        /\ SetChunk(ResetLibNum(sm, cn, st, p))
        /\ inbox' = [inbox EXCEPT ![p] = <<>>]
        /\ outbox' = [outbox EXCEPT ![p] = <<>>]
        /\ peer' = [peer EXCEPT ![p].range = NoRange, ![p].syncing = FALSE]

\* The network or the peer drops the connection.
Disconnect(p) ==
    /\ conn[p].status # "closed" /\ closes < net.closes /\ ~Busy(p) /\ ~Ending
    /\ closes' = closes + 1
    /\ Close(p, strand)
    /\ UNCHANGED <<mainQ, chain, net, timeouts, stalls>>

-----------------------------------------------------------------------------
(* Messages from a peer, handled on its connection's strand. *)

Receives(p, kind) ==
    /\ inbox[p] # <<>> /\ inbox[p][1].k = kind /\ ~Busy(p)
    /\ UNCHANGED faults
Consumed(p) == inbox' = [inbox EXCEPT ![p] = Tail(@)]

(***************************************************************************)
(* verify_catchup up to the unlocked read of sync_state: it asks for the   *)
(* branch, or, when another fork head covers it, sends an empty request.   *)
(* Setting the state and the fork head is left to SetCatchup.              *)
(***************************************************************************)
VerifyCatchup(p, b, cn, r) ==
    IF \E q \in Peers : cn[q].fork # Null /\ (Num(cn[q].fork) > Num(b) \/ cn[q].fork = b)
    THEN /\ conn' = [cn EXCEPT ![p].fork = Null]
         /\ Send(p, [k |-> "none"])
         /\ SetChunk(r)
    ELSE /\ conn' = cn
         /\ sm' = r.sm
         /\ strand' = IF r.sm.stage = "lib_catchup" \/ Num(b) < lib THEN r.strand
                      ELSE Continue(r.strand, p, [k |-> "catchup", b |-> b, head |-> HeadId])
         /\ UNCHANGED outbox

\* handle_message( handshake_message ) and recv_handshake
RecvHandshake(p) ==
    /\ Receives(p, "handshake") /\ Consumed(p)
    /\ LET n    == inbox[p][1].len
           head == net.branch[p][n]
           cn   == [conn EXCEPT ![p].status = "connected", ![p].hsLib = LibOf(n)]
           r    == ResetLibNum(sm, cn, strand, p)
           idle == [cn EXCEPT ![p].syncing = FALSE]
       IN  \/ /\ head = HeadId \/ HeadNum < LibOf(n)           \* sync 0 and 1
              /\ SetChunk(r) /\ conn' = idle /\ UNCHANGED outbox
           \/ /\ head # HeadId /\ lib > n                      \* sync 2
              /\ SetChunk(r) /\ conn' = [cn EXCEPT ![p].syncing = TRUE]
              /\ UNCHANGED outbox
           \/ /\ HeadNum >= LibOf(n) /\ HeadNum < n          \* sync 3
              /\ VerifyCatchup(p, head, idle, r)
           \/ /\ head # HeadId /\ lib <= n /\ HeadNum >= n     \* sync 4
              /\ SetChunk(r) /\ conn' = idle
              /\ IF branch[n] # head THEN Send(p, [k |-> "branch", head |-> Null])
                 ELSE UNCHANGED outbox
    /\ UNCHANGED <<mainQ, chain, peer>>

\* sync_recv_notice, last_irr_catch_up
RecvLibNotice(p) ==
    /\ Receives(p, "libnotice") /\ Consumed(p)
    /\ LET n  == inbox[p][1].lib
           cn == [conn EXCEPT ![p].status = "connected", ![p].hsLib = n]
           r  == ResetLibNum(sm, cn, strand, p)
       IN  conn' = cn /\ SetChunk(StartSync(r.sm, cn, r.strand, p, n))
    /\ UNCHANGED <<mainQ, chain, outbox, peer>>

\* sync_recv_notice, catch_up
RecvHeadNotice(p) ==
    /\ Receives(p, "headnotice") /\ Consumed(p)
    /\ LET b == inbox[p][1].b
           cn == [conn EXCEPT ![p].status = "connected"]
       IN  \/ VerifyCatchup(p, b, cn, [sm |-> sm, strand |-> strand])
           \/ /\ b \in have /\ conn' = cn
              /\ strand' = Post(strand, p, Handshake(FALSE))
              /\ UNCHANGED <<sm, outbox>>
    /\ UNCHANGED <<mainQ, chain, peer>>

RecvGoAway(p) ==
    /\ Receives(p, "goaway") /\ Consumed(p)
    /\ \E n \in 0..Len(outbox[p]) : outbox' = [outbox EXCEPT ![p] = Kept(@, n)]
    /\ strand' = Post(strand, p, [k |-> "close"])
    /\ UNCHANGED <<sm, conn, mainQ, chain, peer>>

(***************************************************************************)
(* sync_recv_block, after sync_update_expected.  In head catch-up the rest *)
(* runs without the lock (HeadLoop).                                       *)
(***************************************************************************)
UpdateExpected(s, n, applied) ==
    IF n <= s.lastReq /\ (n = s.nextExp \/ applied) THEN [s EXCEPT !.nextExp = n + 1] ELSE s

SyncRecvBlock(open, st, p, b, applied) ==
    LET s  == UpdateExpected(sm, Num(b), applied)
        cn == [open EXCEPT ![p].rejected = 0]
        with(s1, st1, cn1) == [sm |-> s1, strand |-> st1, conn |-> cn1]
    IN  CASE s.stage = "in_sync" -> with(s, st, cn)
          [] s.stage = "head_catchup" ->
                 with([s EXCEPT !.source = Null],
                      Continue(st, p, [k |-> "headloop", b |-> b]), cn)
          [] s.stage = "lib_catchup" /\ Num(b) = s.known ->
                 with([s EXCEPT !.stage = "in_sync"],
                      PostCurrent(st, cn, Handshake(FALSE)), cn)
          [] s.stage = "lib_catchup" /\ Num(b) # s.known /\ Num(b) = s.lastReq ->
                 LET r == NextChunk(s, cn, st, Null) IN with(r.sm, r.strand, cn)
          [] OTHER -> with(s, st, [cn EXCEPT ![p].timer = TRUE, ![p].unwatched = FALSE])

\* app().post: blocks of a lib catch-up wait behind the others.
Queued(t) ==
    IF t.high THEN SelectSeq(mainQ, LAMBDA x : x.high) \o <<t>> \o SelectSeq(mainQ, LAMBDA x : ~x.high)
    ELSE Append(mainQ, t)

\* process_next_message: a block the dispatcher knows, an old one, a new one.  The
\* dispatcher hears of a block on another thread and may not know one that is held.
RecvBlock(p) ==
    /\ Receives(p, "block") /\ Consumed(p)
    /\ LET b == inbox[p][1].b
           old == sm.stage # "lib_catchup" /\ Num(b) < lib
       IN  \/ /\ b \in have
              /\ LET r == SyncRecvBlock(conn, strand, p, b, FALSE)
                 IN  sm' = r.sm /\ strand' = r.strand
                     /\ conn' = [r.conn EXCEPT ![p].timer = FALSE, ![p].unwatched = TRUE]
              /\ UNCHANGED <<mainQ, outbox>>
           \/ /\ old /\ conn[p].sent # Null /\ Num(b) < conn[p].sent.lib
              /\ strand' = Post(strand, p, [k |-> "close"])
              /\ UNCHANGED <<sm, conn, mainQ, outbox>>
           \/ /\ old /\ ~(conn[p].sent # Null /\ Num(b) < conn[p].sent.lib)
              /\ Send(p, [k |-> "sync", begin |-> 0, end |-> 0])
              /\ strand' = Post(strand, p, Handshake(FALSE))
              /\ conn' = [conn EXCEPT ![p].timer = FALSE]
              /\ UNCHANGED <<sm, mainQ>>
           \/ /\ ~old
              /\ mainQ' = Queued([p |-> p, b |-> b, high |-> sm.stage # "lib_catchup"])
              /\ UNCHANGED <<sm, conn, strand, outbox>>
    /\ UNCHANGED <<chain, peer>>

-----------------------------------------------------------------------------
(* Tasks of a strand. *)

Runs(p, kind) ==
    /\ strand[p] # <<>> /\ strand[p][1].k = kind
    /\ UNCHANGED faults
Rest(p) == [strand EXCEPT ![p] = Tail(@)]

\* request_sync_blocks
RunRequest(p) ==
    /\ Runs(p, "request")
    /\ Emit(p, [k |-> "sync", begin |-> strand[p][1].begin, end |-> strand[p][1].end], Rest(p))
    /\ conn' = [conn EXCEPT ![p].timer = TRUE, ![p].unwatched = FALSE]
    /\ UNCHANGED <<sm, mainQ, chain, inbox, peer>>

\* send_handshake and populate_handshake: nothing is sent that was sent before.
RunHandshake(p) ==
    /\ Runs(p, "handshake")
    /\ LET hs == [lib |-> lib, head |-> HeadId]
       IN  IF strand[p][1].force \/ conn[p].sent # hs
           THEN /\ conn' = [conn EXCEPT ![p].sent = hs, ![p].lost = FALSE]
                /\ Emit(p, [k |-> "handshake", lib |-> lib, head |-> HeadId], Rest(p))
           ELSE strand' = Rest(p) /\ UNCHANGED <<conn, outbox>>
    /\ UNCHANGED <<sm, mainQ, chain, inbox, peer>>

\* The second half of verify_catchup.
SetCatchup(p) ==
    /\ Runs(p, "catchup")
    /\ sm' = [sm EXCEPT !.stage = "head_catchup"]
    /\ conn' = [conn EXCEPT ![p].fork = strand[p][1].b]
    /\ Emit(p, [k |-> "branch", head |-> strand[p][1].head], Rest(p))
    /\ UNCHANGED <<mainQ, chain, inbox, peer>>

(***************************************************************************)
(* The loop of sync_recv_block over the connections.  Whatever connection  *)
(* is found to be caught up, it is the receiving one whose fork head is    *)
(* cleared.                                                                *)
(***************************************************************************)
CaughtUp(q, b) == conn[q].fork # Null /\ (Num(conn[q].fork) < Num(b) \/ conn[q].fork = b)
Behind(q, b) == conn[q].fork # Null /\ ~CaughtUp(q, b)

HeadLoop(p) ==
    /\ Runs(p, "headloop")
    /\ LET b == strand[p][1].b
           cleared == \E q \in Here : CaughtUp(q, b)
           stay == \E q \in Here :
                      /\ Behind(q, b)
                      /\ q = p => ~\E r \in Here : Place(r) < Place(p) /\ CaughtUp(r, b)
       IN  /\ conn' = [conn EXCEPT ![p].fork = IF cleared THEN Null ELSE @]
           /\ sm' = [sm EXCEPT !.stage = IF stay THEN "head_catchup" ELSE "in_sync"]
           /\ strand' = IF stay THEN Rest(p) ELSE PostCurrent(Rest(p), conn, Handshake(FALSE))
    /\ UNCHANGED <<mainQ, chain, inbox, outbox, peer>>

\* What process_signed_block posts: recv_block and sync_recv_block.
RunBlock(p) ==
    /\ Runs(p, "block")
    /\ LET t == strand[p][1]
           cn == [conn EXCEPT ![p].timer = @ /\ ~t.applied]
           r == SyncRecvBlock(cn, Rest(p), p, t.b, t.applied)
       IN  sm' = r.sm /\ strand' = r.strand /\ conn' = r.conn
    /\ UNCHANGED <<mainQ, chain, inbox, outbox, peer>>

\* Faulty variant: the handshake after a rejected block is not forced.
RunReject_unforced(p) ==
    /\ Runs(p, "reject")
    /\ strand' = Post(Rest(p), p, Handshake(FALSE))
    /\ conn' = [conn EXCEPT ![p].rejected = @ + 1]
    /\ UNCHANGED <<sm, mainQ, chain, inbox, outbox, peer>>

\* sync_manager::rejected_block
RunReject(p) ==
    /\ Runs(p, "reject")
    /\ IF conn[p].rejected + 1 > MaxRejected
       THEN /\ sm' = [sm EXCEPT !.lastReq = 0, !.source = Null]
            /\ strand' = Post(Rest(p), p, [k |-> "close"])
            /\ conn' = [conn EXCEPT ![p].rejected = @ + 1]
       ELSE /\ strand' = Post(Rest(p), p, Handshake(TRUE))
            /\ conn' = [conn EXCEPT ![p].rejected = @ + 1]
            /\ UNCHANGED sm
    /\ UNCHANGED <<mainQ, chain, inbox, outbox, peer>>

RunClose(p) ==
    /\ Runs(p, "close")
    /\ Close(p, Rest(p))
    /\ UNCHANGED <<mainQ, chain>>

\* Faulty variant: the last requested number is not reset.
RunTimeout_keeps(p) ==
    /\ Runs(p, "timeout")
    /\ IF p = sm.source
       THEN \E n \in 0..Len(outbox[p]) :
            /\ conn' = [conn EXCEPT ![p].timer = FALSE,
                                    ![p].lost = @ \/ Unrepeated(outbox[p], n)]
            /\ LET r == NextChunk(sm, conn, Rest(p), Null)
               IN  sm' = r.sm /\ EmitAfter(Kept(outbox[p], n), p,
                                           [k |-> "sync", begin |-> 0, end |-> 0], r.strand)
       ELSE strand' = Rest(p) /\ UNCHANGED <<sm, conn, outbox>>
    /\ UNCHANGED <<mainQ, chain, inbox, peer>>

\* sync_timeout, sync_reassign_fetch and cancel_sync, which flushes the queues
RunTimeout(p) ==
    /\ Runs(p, "timeout")
    /\ IF p = sm.source
       THEN \E n \in 0..Len(outbox[p]) :
            /\ conn' = [conn EXCEPT ![p].timer = FALSE,
                                    ![p].lost = @ \/ Unrepeated(outbox[p], n)]
            /\ LET r == NextChunk([sm EXCEPT !.lastReq = 0], conn, Rest(p), Null)
               IN  sm' = r.sm /\ EmitAfter(Kept(outbox[p], n), p,
                                           [k |-> "sync", begin |-> 0, end |-> 0], r.strand)
       ELSE strand' = Rest(p) /\ UNCHANGED <<sm, conn, outbox>>
    /\ UNCHANGED <<mainQ, chain, inbox, peer>>

(***************************************************************************)
(* The response timer expires: its handler is queued and no longer         *)
(* cancelled.  The bound is on timers that expire although an answer is    *)
(* under way.                                                              *)
(***************************************************************************)
TimerExpires(p) ==
    /\ conn[p].timer
    /\ IF Idle THEN UNCHANGED timeouts
       ELSE timeouts < net.timeouts /\ timeouts' = timeouts + 1
    /\ conn' = [conn EXCEPT ![p].timer = FALSE]
    /\ strand' = Post(strand, p, [k |-> "timeout"])
    /\ UNCHANGED <<sm, mainQ, chain, inbox, outbox, peer, net, closes, stalls>>

-----------------------------------------------------------------------------
\* process_signed_block, on the application thread.
ProcessBlock ==
    /\ mainQ # <<>> /\ mainQ' = Tail(mainQ)
    /\ LET p == mainQ[1].p
           b == mainQ[1].b
           linked == Num(b) > lib /\ (Num(b) = 1 \/ PathOf(b)[Num(b) - 1] \in have)
           task(a) == [k |-> "block", b |-> b, applied |-> a]
       IN  \/ /\ conn[p].status = "closed"
              /\ UNCHANGED <<chain, strand>>
           \/ /\ conn[p].status # "closed" /\ b \in have
              /\ strand' = Post(strand, p, task(FALSE))
              /\ UNCHANGED chain
           \/ /\ conn[p].status # "closed" /\ b \notin have /\ linked
              /\ branch' = IF Num(b) > HeadNum THEN PathOf(b) ELSE branch
              /\ lib' = Larger(lib, LibOf(Len(branch')))
              /\ have' = {x \in have \cup {b} :
                             \A i \in 1..Smaller(lib', Num(x)) : PathOf(x)[i] = branch'[i]}
              /\ strand' = Post(strand, p, task(TRUE))
           \/ /\ conn[p].status # "closed" /\ b \notin have /\ ~linked
              /\ strand' = Post(strand, p, [k |-> "reject", b |-> b])
              /\ UNCHANGED chain
    /\ UNCHANGED <<sm, conn, inbox, outbox, peer, faults>>

-----------------------------------------------------------------------------
(* The peer's side. *)

ToNode(p, m) == inbox' = [inbox EXCEPT ![p] = Append(@, m)]
PeerRange(p, last, end) ==
    peer' = [peer EXCEPT ![p].range = IF last < end THEN [last |-> last, end |-> end] ELSE NoRange]

PeerReceives(p, kind) ==
    /\ outbox[p] # <<>> /\ outbox[p][1].k = kind
    /\ outbox' = [outbox EXCEPT ![p] = Tail(@)]
    /\ UNCHANGED <<sm, strand, mainQ, chain, faults>>

\* recv_handshake at the peer: the answers that matter to a node behind it.
PeerHandshake(p) ==
    /\ PeerReceives(p, "handshake")
    /\ LET m == outbox[p][1]
           n == peer[p].len
           behind == LibOf(n) > Num(m.head)
       IN  /\ peer' = [peer EXCEPT ![p].view = m.lib, ![p].syncing = behind]
           /\ CASE behind -> ToNode(p, [k |-> "libnotice", lib |-> LibOf(n)])
                [] ~behind /\ n >= Num(m.head) /\ net.branch[p][n] # m.head ->
                       ToNode(p, [k |-> "headnotice", b |-> net.branch[p][n]])
                [] OTHER -> UNCHANGED inbox
    /\ UNCHANGED conn

\* handle_message( sync_request_message ): {0,0} flushes the peer's queues
PeerSyncRequest(p) ==
    /\ PeerReceives(p, "sync")
    /\ LET m == outbox[p][1]
       IN  IF m.end = 0
           THEN \E n \in 0..Len(inbox[p]) :
                /\ peer' = [peer EXCEPT ![p].range = NoRange]
                /\ inbox' = [inbox EXCEPT ![p] = Kept(@, n)]
                /\ conn' = [conn EXCEPT ![p].lost = @ \/ Unrepeated(inbox[p], n)]
           ELSE /\ peer' = [peer EXCEPT ![p].range = [last |-> m.begin - 1, end |-> m.end]]
                /\ UNCHANGED <<inbox, conn>>

\* blk_send_branch and blk_send_branch_impl
PeerBranchRequest(p) ==
    /\ PeerReceives(p, "branch")
    /\ LET id    == outbox[p][1].head
           n     == peer[p].len
           known == id # Null /\ Num(id) <= n /\ net.branch[p][Num(id)] = id
           r     == peer[p].range
           last  == IF known THEN Num(id)
                    ELSE IF r = NoRange THEN peer[p].view ELSE Smaller(r.last, peer[p].view)
       IN  CASE peer[p].view = 0 -> UNCHANGED <<inbox, peer>>
             [] peer[p].view > 0 /\ id # Null /\ Num(id) > n ->
                    ToNode(p, [k |-> "goaway"]) /\ UNCHANGED peer
             [] OTHER -> PeerRange(p, last, Larger(r.end, n)) /\ UNCHANGED inbox
    /\ UNCHANGED conn

\* A request for nothing: stop_send.
PeerStop(p) ==
    /\ PeerReceives(p, "none")
    /\ peer' = [peer EXCEPT ![p].syncing = FALSE]
    /\ UNCHANGED <<inbox, conn>>

\* enqueue_sync_block: the next block of the range, or a handshake if there is none.
PeerSends(p) ==
    /\ peer[p].range # NoRange
    /\ LET n == peer[p].range.last + 1
           has == n <= peer[p].len
           again == ~has /\ peer[p].sent # peer[p].len
       IN  /\ peer' = [peer EXCEPT ![p].range = IF n = @.end THEN NoRange ELSE [@ EXCEPT !.last = n],
                                   ![p].sent = IF again THEN peer[p].len ELSE @]
           /\ CASE has -> ToNode(p, [k |-> "block", b |-> net.branch[p][n]])
                [] again -> ToNode(p, [k |-> "handshake", len |-> peer[p].len])
                [] OTHER -> UNCHANGED inbox
    /\ UNCHANGED <<sm, conn, strand, mainQ, chain, outbox, faults>>

\* A peer stops in the middle of a range, with the connection open.
PeerStalls(p) ==
    /\ peer[p].range # NoRange /\ stalls < net.stalls /\ ~Ending
    /\ stalls' = stalls + 1
    /\ peer' = [peer EXCEPT ![p].range = NoRange]
    /\ UNCHANGED <<sm, conn, strand, mainQ, chain, inbox, outbox, net, closes, timeouts>>

\* The peer's chain grows; bcast_block sends the block unless it thinks us syncing.
PeerProduces(p) ==
    /\ p \in Here /\ peer[p].len < Len(net.branch[p])
    /\ peer[p].len + 1 = Len(net.branch[p]) => Idle /\ \A q \in Peers : ~conn[q].timer
    /\ peer' = [peer EXCEPT ![p].len = @ + 1]
    /\ IF conn[p].status # "closed" /\ peer[p].view > 0 /\ ~peer[p].syncing
       THEN ToNode(p, [k |-> "block", b |-> net.branch[p][peer[p].len + 1]])
       ELSE UNCHANGED inbox
    /\ UNCHANGED <<sm, conn, strand, mainQ, chain, outbox, faults>>

-----------------------------------------------------------------------------
Strand(p) ==
    \/ RecvHandshake(p) \/ RecvLibNotice(p) \/ RecvHeadNotice(p) \/ RecvGoAway(p) \/ RecvBlock(p)
    \/ RunRequest(p) \/ RunHandshake(p) \/ SetCatchup(p) \/ HeadLoop(p)
    \/ RunBlock(p) \/ RunReject(p) \/ RunClose(p) \/ RunTimeout(p)
PeerStep(p) ==
    \/ PeerHandshake(p) \/ PeerSyncRequest(p) \/ PeerBranchRequest(p) \/ PeerStop(p)
    \/ PeerSends(p)

Next ==
    \/ ProcessBlock
    \/ \E p \in Peers : Strand(p) \/ PeerStep(p) \/ PeerProduces(p) \/ PeerStalls(p) \/ Connect(p)
                        \/ Disconnect(p) \/ TimerExpires(p)

Spec == Init /\ [][Next]_vars

\* The threads run, the peers answer, a lost connection is made again.
Fairness ==
    /\ WF_vars(ProcessBlock)
    /\ \A p \in Peers : /\ WF_vars(Strand(p)) /\ WF_vars(PeerStep(p))
                        /\ WF_vars(Connect(p)) /\ WF_vars(TimerExpires(p))
                        /\ WF_vars(PeerProduces(p))
FairSpec == Spec /\ Fairness

-----------------------------------------------------------------------------
(* Properties. *)

MaxNum == CHOOSE n \in {Num(b) : b \in Blocks} : \A b \in Blocks : Num(b) <= n

ConnType == [status : {"closed", "connecting", "connected"}, syncing : BOOLEAN,
             fork : Blocks \cup {Null}, hsLib : 0..MaxNum,
             sent : [lib : 1..MaxNum, head : Blocks] \cup {Null}, timer : BOOLEAN,
             rejected : 0..(MaxRejected + 1), lost : BOOLEAN, unwatched : BOOLEAN]
PeerType == [len : 1..MaxNum, sent : 0..MaxNum, view : 0..MaxNum, syncing : BOOLEAN,
             range : [last : 0..MaxNum, end : 0..MaxNum]]

\* The fields keep their types; no number is larger than that of a block.
TypeOK ==
    /\ sm \in [known : 0..MaxNum, lastReq : 0..MaxNum, nextExp : 1..(MaxNum + 1),
               source : Peers \cup {Null}, stage : {"in_sync", "lib_catchup", "head_catchup"}]
    /\ conn \in [Peers -> ConnType]
    /\ peer \in [Peers -> PeerType]
    /\ have \subseteq Blocks /\ lib \in 1..MaxNum /\ branch[HeadNum] \in have

\* A chunk never starts after a block the node does not hold, whatever was closed,
\* timed out or requested twice: sync_next_expected_num follows the blocks received,
\* so the blocks of the next request link.
NoGap == sm.nextExp <= HeadNum + 1

\* Lib catch-up ends: a chunk whose blocks are all received, late or twice, or whose
\* timer expired, or whose request was thrown away by flush_queues, is followed by another
\* request or by the return to in_sync.  The exception: process_next_message cancels the
\* response timer on a block the node has (unwatched), and a peer that then falls silent
\* is never timed out.
LibCatchupEnds ==
    []<>(sm.stage # "lib_catchup" \/ (stalls > 0 /\ \E p \in Here : conn[p].unwatched))

\* A node with one peer reaches its head, whatever response timers expire early, whatever
\* requests and blocks the flushes throw away and whatever fork it starts on, if the
\* connection is not lost.  The exceptions: a silent peer as above, and a handshake or a
\* notice thrown away by flush_queues: send_handshake does not repeat what
\* last_handshake_sent records, and both sides wait.
CatchesUp ==
    <>[](Len(net.order) = 1 /\ closes = 0
         => \A p \in Here : \/ HeadNum >= peer[p].len
                            \/ conn[p].lost \/ (stalls > 0 /\ conn[p].unwatched))

\* "my head block num < peer head block num - update sync state and send a catchup
\* request": a handshake of a longer chain makes the node ask for it, unless an open
\* connection was asked for that chain before.
CatchupRequested ==
    [][\A p \in Peers :
          (/\ RecvHandshake(p) /\ sm.stage # "lib_catchup"
           /\ HeadNum < inbox[p][1].len /\ HeadNum >= LibOf(inbox[p][1].len))
          => \/ Busy(p)'
             \/ \E q \in Peers : /\ conn[q].status # "closed" /\ conn[q].fork # Null
                                 /\ Num(conn[q].fork) >= inbox[p][1].len]_vars

\* "scan the list of peers looking for another able to provide sync blocks": a chunk is
\* asked of a peer that has its first block.
SourceAble ==
    \A p \in Peers : \A i \in DOMAIN strand[p] :
        strand[p][i].k = "request" => strand[p][i].begin <= peer[p].len

=============================================================================
