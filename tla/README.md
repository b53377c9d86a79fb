# A verification project for the inery node

This directory holds TLA+ models of the consensus core of inery (an EOSIO 2.0 style C++ node), the TLC
configurations that check them on small instances, and TLAPS proofs about some of them for every instance.
`PROJECT.json` is the index: components, runs, faulty variants, the map from definitions to source lines,
findings, hazards and theorems. Paths below are relative to the repository (`src/`).

## 1. The system

`nodine` is one process. Its main thread runs closures from appbase's priority queue; net_plugin and http_plugin
have their own thread pools and post work to the main thread. All consensus state is touched by the main thread only.

| Component | State it keeps | Operations | Interacts with |
|---|---|---|---|
| chainbase (`libraries/chainbase`) | tables of objects, one undo stack per table, a revision; a mapped file with a dirty flag | emplace, modify, remove, start_undo_session, push, squash, undo, undo_all, commit, set_revision; open, close | every part that stores chain state |
| fork database (`libraries/chain/fork_database.cpp`) | block states above the last irreversible block, validated flags, root, head; `fork_db.dat` while closed | add, mark_valid, remove, advance_root, rollback_head_to_root, reset, branch walks, close, open | controller |
| controller (`libraries/chain/controller.cpp`) | head, pending block, read mode; owns chain state, reversible-blocks database, fork database, block log | start/abort/finalize/commit block, push_block, maybe_switch_forks, log_irreversible, startup, replay, init | producer_plugin, net_plugin and chain_plugin call it; it emits signals |
| block header state (`libraries/chain/block_header_state.cpp`) | confirmation counts, proposed and last irreversible numbers, active and pending schedule, last produced block per producer | next, finish_next | fork database stores it; controller and producer_plugin derive headers from it |
| block log (`libraries/chain/block_log.cpp`) | an append-only file and an index file | append, reset, open with index repair, trim, repair | controller |
| unapplied transaction queue | persisted, forked and aborted transactions | add_*, clear_applied, clear_expired | producer_plugin |
| producer plugin | pending block mode, timers, watermarks, scheduled features, blacklists, snapshots to finish | start_block, on_incoming_block, on_incoming_transaction, production loop, pause, resume | controller, net_plugin |
| net plugin | connections, sync stage and requested range, known blocks and transactions per peer | handshake, notice, request, sync blocks, timeouts, reconnects | controller through posted closures |
| resource limits (`libraries/chain/resource_limits.cpp`) | limits and pending limits per account, averages of use, totals, the virtual block limit | set limits, add usage, process updates, process block usage | transaction_context bills, controller closes the block |
| protocol features (`libraries/chain/protocol_feature_manager.cpp`) | the list of activated features in memory, besides headers and database | preactivate, activate, popped_blocks_to, init | controller, producer_plugin |
| authorization, transaction execution | tables of chain state | per transaction | controller |
| http, wallet, history, state history, trace, MongoDB plugins, command line programs | files and external stores | queries and copies | read the controller, or consume its signals |

What is hard here:

* **five stores that must agree**: fork database, controller head, chain state with its undo stack, reversible blocks
  and block log are written one after another and in different orders; the process may die between any two writes;
* **fork switches that fail half way** and have to be reversed in all of them;
* **restarts**: `startup` and `init` combine what five files say, in two read modes, with or without chain state;
* **finality**: a number computed from the confirmations of many headers, on which fork choice, undo and the log rest;
* **difference-based undo**: nested sessions that are undone, squashed and committed in any order;
* **threads in net_plugin**: state read under one lock and used after it is released, timers racing answers;
* **files written in several steps**: log and index, dirty flag and pages, by processes that die or compete;
* **handlers that cannot be cancelled**: a production timer's handler waits in the queue while the state changes;
* **memory without undo**: the feature manager and the transaction queue have to follow every abort, pop and switch.

What makes each part correct is stated with its module below; the hazards, each at its line, are in `PROJECT.json`.

## 2. Modules

### UndoIndex, SnapshotStack, UndoIndex_proofs (chainbase)

`UndoIndex` is `generic_index`: `indices`, `next_id`, `revision` and `stack` are `_indices`, `_next_id`, `_revision` and
`_stack`; each operation is an action. A `std::map` is a function whose missing keys map to `Absent`. The history
variable `snap` remembers the table each open session started from; no guard reads it. `undo_all` is a loop of undos
(`mode = "unwinding"`). Secondary indices are left out: not breaking their uniqueness is a precondition of `modify`.
`SnapshotStack` is the abstract specification: a session saves the whole table, undo restores it, squash and commit
forget saved tables. `ImplementsSnapshots` says that the stack of differences implements the stack of snapshots.

### ForkTree, ForkDatabase, ForkBranch, ForkDatabase_proofs (fork database)

`ForkTree` gives the operations as functions on a record (index, validated, root, head) over a constant tree of blocks:
a block's parent, number and `dpos_irreversible_blocknum` are part of its signed content. `ForkDatabase` is the state
machine of that class alone, with `close`, `open` and the reset after a crash. `ForkBranch` transcribes the loops of
`fetch_branch`, `search_on_branch` and `fetch_branch_from` and compares them with set definitions in every reachable
state. The runs use the tree of `MCTree`: eight blocks, three branches, ties between ids decided both ways.

`LibAssumption` (the irreversible number never falls along a branch) is an assumption of these modules; section 4
shows where the code keeps it and where it does not.

### Controller, Controller_proofs

`Controller` extends `ForkTree` and composes the fork database with the other four stores. A call (`push_block`,
`commit_block`, `startup`) is a sequence of small actions ordered by `pc`, because `Crash` may come between any two:
pop one block, apply one block, append one block to the log, trim the reversible blocks, advance the root. The chain
state is a stack with one state per revision (what `UndoIndex` is proved to provide). Blocks in `invalid` fail when
they are applied, always: execution is deterministic; a behaviour begins by choosing that set from `InvalidSets`. `Crash` models what the code finds afterwards: the chain state is dirty and
has to be deleted, `fork_db.dat` is gone because `open` removes it, a prefix of the reversible blocks can be recovered
(chain_plugin). `DeleteState` is `--replay-blockchain`. A request to quit may stop a start at a block of the log, at the end of the
log (controller.cpp:519) or before the best branch is applied (`QuitInit`, line 745); `cut` is history and records
the second. `failure` records the first assertion that fails. Block log appends are atomic
here (`BlockLog` opens them up); start from a snapshot is not modelled.

### BlockHeaderState, BlockHeaderState_proofs

`BlockHeaderState` is `block_header_state::next` and `_finish_next`, with the part of `start_block` that promotes a
proposed schedule and `set_proposed_producers`. It grows one branch from the genesis state. Producers in `Free` sign
every header that validates; the others use the confirmation count that producer_plugin computes from its watermark,
which `Restart` forgets. `confirmers` and `required` are history variables: who confirmed which block, and how many it
needed. Signatures, protocol features in headers, the block-root Merkle tree and empty proposed schedules are left out.

### BlockLog, BlockLog_proofs

The two files of `block_log`, the in-memory head, the offline trims, `repair_log` and `construct_index`. Blocks are
consecutive, so a file is its first and last number, and whether its last entry is torn; positions are what `Pos`
gives, because `open` compares positions and not blocks. Every write and rename is an action of its own, and `pc` and
`job` say what is left of the running call. The process may die between any two. The machine may die while the log
is open, closed or being indexed (`LosePower`, `LosePowerBuilding`): either file then loses a suffix of what was appended, because `flush`
does not sync, or the index its last buffers. It does not die during a reset, a trim or a repair, and what one of them or a
complete rebuild has written is taken to be on disk. `kept` is history: blocks that were completely written and that no
operation has given up. `damage` is history too and says what happened to the index, not what it holds: `"old"`, a
front trim died between its renames; `"cut"`, such an index was shortened later; `"holed"`, a rebuild died between two of its
buffers (section 4). Removing or rebuilding the index resets it.

### MappedFile, MappedFile_proofs

`pinnable_mapped_file`: the constructor step by step (look at the header and at the dirty flag, create, grow, lock, set
the flag, load in heap mode), use, and the destructor in mapped and heap mode, for several processes. `cache` is what all
processes see, `disk` what survives the machine. Two windows of the code break the meaning of a clear flag, and the
history variables delimit them: a process in `stale` looked at the flag before another one used the file; a process
in `suspect` grew the file and has not flushed it, or began from a state of that kind. The properties hold everywhere else.

### SyncManager

The sync_manager of net_plugin, the handlers of connections that reach it, and of each peer the side that answers. A
connection has a strand, a sequence of tasks taken one at a time; the application thread takes blocks from `mainQ` and
posts the result back. Where the code reads or sets `sync_state` after it released `sync_mtx` (verify_catchup,
sync_recv_block) the rest of the handler is a separate task at the front of the strand, so other strands interleave
there. Blocks of a lib catch-up wait in `mainQ` behind all others, as their lower priority has it. `flush_queues` (of
`cancel_sync`, of a go-away and of the peer that gets the empty request) drops any suffix of the messages under way: the model does
not say how many of them have left the write queue. `lost` and `unwatched` are history: a handshake or notice was dropped and
none sent since; a block the node had already cancelled the response timer (net_plugin.cpp:2396). `net` is the network a behaviour takes place in: peers and their chains, the node's own chain, `sync_req_span`,
and how many connections may be lost, timers expire early and ranges stall.

### UnappliedQueue, UnappliedQueue_proofs

What becomes of a transaction: `queue` is `unapplied_transaction_queue` (persisted, forked, aborted), `incoming` the
transactions that wait for an answer, `pending` and `chain` the blocks. The queue is the type each transaction is
queued under, as `by_trx_id` finds it; the order by type is kept, the order within a type is left open. A handler that calls `schedule_production_loop`
leaves `pc` at `"start"`, and the loops of `start_block` then take one transaction at a time. Blocks arrive, extend or
switch the branch (also unsuccessfully), or fail.

### ProducerSlots, ProductionLoop, ProductionLoop_proofs

`ProducerSlots` has the arithmetic of turns, `calculate_next_block_time` included. `ProductionLoop` is the loop that
begins, ends and abandons pending blocks: one action per handler of the main thread, with the timer, the handlers already
queued and their correlation ids, watermarks, pause, resume, runtime options, calls that abort the block, and the limit on
the age of the head. `Restart` loses the loop and the watermarks, which are not durable (producer_plugin.cpp:1551), so `signed`, the
sequence of signed blocks, begins again and `NeverSignTwice` is about one run of the process; nothing in the code prevents a second signature
after a restart. A block may come `Ahead` slots early (14 in the code, two in the run). `clean` and `missed` are history: the current slot was not disturbed; such a slot passed without
its block. Handlers of timers have high priority, as in the code, and the main thread keeps up with the slots. The
schedule is constant.

### Accumulator, ResourceLimits

`Accumulator` is the moving average, with the assertions of `add`. `ResourceLimits` is the manager with the billing in
transaction_context and controller: limits that count at once for their account and at the end of the block for the totals,
memory with its check at the end of a transaction, CPU (NET is the same code), deferred transactions that succeed, expire or
fail. `meter` is history: the average without rounding, as an integer at a scale. `set_block_parameters`, which every
`finalize_block` calls (controller.cpp:1682), is left out because the parameters are constants, and so are the assertions against sums beyond
2^64 in `update_state_and_value`.

### ProtocolFeatures

Three records of what is active: headers, database (with its undo sessions) and the manager's list, which has no undo.
`start_block` (of a producer, of a speculating node and in `apply_block`), abort, commit, a `produce_block` that fails before or
after it clears the schedule, fork
switches that succeed or fail, pops, restarts, and the operator's schedule in producer_plugin. Read mode is speculative.

### How the modules fit together

`ForkBranch` extends `ForkDatabase`, which extends `ForkTree`; `Controller` extends `ForkTree`. The other modules meet at
interfaces that one side shows and the other assumes: `UndoIndex` implements snapshots, `Controller` and
`ProtocolFeatures` use a stack of states; `MappedFile` shows what a clear flag means, `Controller` deletes the
state when it is set; `BlockHeaderState` shows the order of headers that `ForkTree` assumes, and its one exception (section 4); `UnappliedQueue` takes from
`Controller` that a switch ends on the new branch or where it began; `ProductionLoop` leaves transactions to `UnappliedQueue`.

## 3. Runs

| Run | Question | Distinct states |
|---|---|---|
| `undo_index` | Can every session be taken back exactly, do squash's assertions hold, does the index implement snapshots? | 516,891 |
| `fork_database` | Does the index stay a tree on the root with the best validated block as head, can `fork_db.dat` always be read back, and do the walks along branches return what their definitions say? | 1,636 |
| `controller` | Three branches with any two invalid blocks; production, shutdown, crash, replay, quitting a start and change of mode at any step: do only the known assertions fail, do the stores agree between calls, is the best branch applied, is a failed switch undone, does every call end? | 312,641 |
| `header_state` | Any valid headers of one producer, a silent and a restarting one, schedules that rotate, shrink and grow: is nobody counted twice, is each promoted schedule acceptable, does a node never reject its own block, is every block preferred to its parent unless the parent shrank the third of the schedule? | 281,118 |
| `block_log` | Append, reset, trim, repair, re-index in several buffers, death of the process between any two writes, loss of power: has an opened log an exact index but for two known accidents, does no complete block disappear? | 480,967 |
| `mapped_file` | Two processes that open, grow, use, save and die: does a clear flag mean the state of the last clean shutdown, does one process at a time use the file? | 93,398 |
| `sync` | Four networks, early timers, flushed queues, lost connections, a stalling peer, a node on a fork: does no chunk start after a gap, does lib catch-up end, does the node reach its peer's head? | 404,745 |
| `unapplied_queue` | Aborts, production, fork switches, expiry, a full incoming queue: is no accepted transaction lost, does none of the chain wait to be applied again? | 699,144 |
| `production_loop` | Incoming blocks, pauses, aborts, failures, restarts and queued handlers over six slots: does the loop stay alive, miss no undisturbed slot, never sign twice while the process runs? | 232,431 |
| `resource_limits` | Three blocks of changing limits and use: are totals exact, is memory within its limit, does a bill fit that was announced as payable, is the average close to the exact one? | 106,451 |
| `protocol_features` | Aborts, refusals, switches, restarts, failing production: do the three records agree, can a node always start its own block, is the schedule kept? | 1,272 |
| `restart_after_invalid` | A violation, see section 4 | |

Each module also defines a type invariant `TypeOK`; the ones of `UndoIndex`, `ForkDatabase`, `MappedFile`, `UnappliedQueue`
and `BlockLog` are proved, the others
hold on the instances above (add `INVARIANT TypeOK` to the configuration to see it) and are no properties of the runs.

**Bounds.**
Sessions nest three deep over three ids and two values (symmetric): squash and undo relate at most two
neighbouring sessions, so three show a merge below and above another session. The block trees have a branch that
becomes irreversible, a rival of the same length that does not, and a late fork, so every kind of switch, including one
that fails at its middle or its last block, occurs; all sets of up to two invalid blocks are tried. Headers go to block 12:
schedules of three and of four producers become active, one after the other and back, confirm_count reaches its limit of four entries
and the last irreversible number does fall. `Word` stands for 2^32; the run enumerates
confirmation counts that do not exceed the block number. Block logs have up to five blocks and start at 1 or 2 (a pruned
log), with sizes among which some neighbours are equal, so that positions in two logs may coincide; a buffer of the index
writer has two entries, so that a rebuild takes up to three. Two pages let a save or an update be half done; two processes
suffice for the races, which are between a look and a lock. Chains of up to six blocks and chunks of one or two give several
chunks per catch-up and a head beyond the irreversible block. Two transactions, an incoming queue of one and chains of two blocks
make the queue overflow and a branch of two be popped. Two producers with two slots each over six slots give a
turn, a foreign turn and the next turn. `P` = 5 and a window of 2 make the accumulator round both up and down; two accounts share
a total, and a block has room for two transactions of two operations: both accounts get pending limits in one block, and
one account's are set, cleared and set again. Two features, one of which needs the other and its own pre-activation, and chains of four blocks cover every way out of a
block. Runs without deadlock check end at a bound: `MaxBlock`, `MaxSlot`, or peers that produce no more.

**Fairness.** `CallsEnd` of `Controller` assumes weak fairness of `Step`: a call on the main thread, once begun, runs on.
Nothing is assumed about blocks arriving, restarts or crashes. `FairSpec` of `SyncManager` assumes weak fairness of each
strand and of the application thread (their pools run), of the answers of the peers (unless one stalls, which is a
choice of the model), of the response timer while it is set, of reconnecting (the connector timer of the plugin) and of the peers'
production. `CatchesUp` rests on the last one: a node sends no second handshake while nothing has changed
(net_plugin.cpp:3227), so after some orders of events only a new block of the peer starts it again. It is stated for
one peer and no lost connection, and makes an exception of a handshake or notice that `flush_queues` dropped (section 4). Both properties make an
exception of a peer that falls silent in the middle of a range, but only while no response timer watches it; a silent peer that is
watched is timed out and asked again.

**Faulty variants.** For every property of a passing run, `PROJECT.json` names a definition and a faulty variant of it
(`*_...` in the modules, marked as such); with the variant the property is violated.

## 4. Findings

`restart_after_invalid` is the violation among the runs: after the same invalid block (`a3`, the only one of that
configuration) was pushed and rejected twice, the fork database's
head may be a block of the rejected branch, as preferred as the controller's head but not stored as reversible. After a
clean shutdown `init` refuses to start (controller.cpp:723).

The configurations below are kept beside the runs; each makes TLC show a behaviour that differs from a comment or an
assertion. The passing runs name these cases as exceptions or exclude them by their constants.

* `MCBlockHeaderShrink.cfg`: `calc_dpos_last_irreversible` may return less than it did for the block before
  (block_header_state.cpp:33). Four producers, one silent, shrink to three that keep the silent one: the index one
  third into the list falls from 1 to 0. The next block is then not preferred to its parent, and `commit_block` asserts
  that it is (controller.cpp:1748). `LibKept` is that assertion. `ChildPreferred` (`header_state`, and a theorem) says that this is the only way: the
  child of a block is preferred to it unless the block activated a schedule with a smaller `Slack`. `LibAssumption` of the fork modules
  leaves such trees out.
* `MCControllerReversal.cfg`: `init` applies the best branch after a change from irreversible mode without popping
  anything; if a block of it fails, the reversal reads `branches.second.back()` of an empty vector (controller.cpp:2132).
* `MCForkBranchDoc.cfg`: `fetch_branch` returns an empty branch for an unknown block where its comment promises an
  exception (fork_database.hpp:68).
* `MCBlockLogBuffers.cfg`: an index that is rebuilt in more than one buffer is written from its end; when the process
  dies in between, the last entry is right and the next `open` accepts an index with a hole (block_log.cpp:270, 910).
* `MCBlockLogTrim.cfg`: `trim_blocklog_front` replaces log and index by renames (block_log.cpp:1060); when the process dies
  after the first, the old index lies beside the new log. `open` would notice, but an end trim may come first: if blocks
  have equal sizes it finds what it checks, cuts both files (inery-blocklog/main.cpp:224), and the index it leaves ends
  with the right position, so that `open` (block_log.cpp:270) accepts an index of other blocks. `IndexExactUnlessHoled` is
  `IndexExact` without this exception, `IndexExactUnlessCut` (above) without the other. The proof of `IndexExact` failed at this step
  and led to it.
* `MCSyncManagerAsk.cfg`: a handshake of a longer chain promises "send a catchup request" (net_plugin.cpp:1583); the fork head
  that a closed connection left behind makes verify_catchup skip it (net_plugin.cpp:1674).
* `MCSyncManagerAble.cfg`: the scan for a peer "able to provide sync blocks" (net_plugin.cpp:1453) does not look at the
  peer's chain, and a chunk is asked of a peer that lacks its first block (net_plugin.cpp:1458).
* `MCUnappliedQueuePersist.cfg`: a transaction that is to be "applied to all future speculative blocks"
  (producer_plugin.cpp:588) is missing from a later one, because the loop over the queue erases it once it was applied (producer_plugin.cpp:1786).
* `MCUnappliedQueueExpiry.cfg`: the queue drops a transaction whose expiration equals the pending block's time, which the
  controller would still accept (unapplied_transaction_queue.hpp:112).
* `MCResourceLimitsFailure.cfg`: the bill of a failed deferred transaction "Should never fail" (controller.cpp:1363);
  its memory part can, and the transaction then stays in the queue.

More are exceptions inside properties:

* `Controller` (`cut`, in `NeverFails` and `RestartKeepsHead`): after a clean shutdown, a start with `--replay-blockchain` that is told to quit
  when the log is replayed skips the reversible blocks (controller.cpp:519), while the fork database keeps the head it was read with and writes it again. The
  chain state ends at the log's last block, so the next start fails (controller.cpp:665, "fork database head is inconsistent with state").
  Without the exception TLC shows it in eleven states.
* `SyncManager` (`lost`, in `CatchesUp`): `cancel_sync` and the empty request throw queued messages away (net_plugin.cpp:1155, 2835), a handshake among
  them although `last_handshake_sent` records it; `send_handshake` does not repeat it (line 3227), and both sides wait for a new block.
* `SyncManager` (`unwatched`, in both liveness properties): a block the node already has cancels the response timer (net_plugin.cpp:2396); if the
  peer then falls silent, nobody asks again.
* `MappedFile` (`stale`, `suspect`: the flag is read before the lock is taken,
  pinnable_mapped_file.cpp:48, and the file grows before the flag is set, line 87).
* `ScheduleKept` of `ProtocolFeatures` (`produce_block` clears the scheduled features before it signs, producer_plugin.cpp:2110; if the signature fails they are lost,
  against "do a copy as pending_block might be aborted", line 1581).

## 5. Proofs

* `UndoIndex_proofs`: `TypeOK`, `FramesExact`, `IdsFresh`, `RevisionsConsecutive`, `NoIllegalMerge` and the refinement
  `Spec => Snapshots!Spec`, for all bounds and values. The inductive invariant `IInv` puts the facts of one session
  into one formula (`SessionOK`): its undo state is the exact difference between the table it started from and the one the
  next session started from, its ids lie between the two counters. Exactness alone is not inductive: squash needs that
  no id is created twice, which needs the counters. Assumptions: `Absent` is no value, bounds are naturals.
* `ForkDatabase_proofs`: `TypeOK`, `Linked`, `HeadIsBest`, `PendingHeadIsBest`, `NeverThrows`, `RootAdvances`,
  `HeadNotWorse`, for every tree of blocks. `FInv` adds what the file must satisfy while the database is closed.
  The lemma `BestExists` (a nonempty set of blocks has a first element in the order of `by_lib_block_num`) rests on the
  well-foundedness of the naturals. Assumptions: the tree, distinct ids, `LibAssumption`.
* `BlockHeaderState_proofs`, for every set of producers and schedules:
  * `NewScheduleAccepted`. `HInv` says that a waiting proposal is one version above the newest schedule of the header
    state, pending or active; the property itself looks only at the moment of promotion and is not inductive.
  * `DistinctConfirmers` (`ConfirmersDistinct`). `CInv` adds that a counter and the confirmers of its block add up to what the
    block requires (`Balanced`), and that nobody has confirmed above the block the header state remembers of him (`Remembered`).
    The second is the difficult part: a change of schedule drops the record of a producer that leaves, and gives one
    that returns the last irreversible block instead. That is enough because a schedule becomes active only when the
    block it was set in is irreversible, and whoever is forgotten by then has confirmed nothing above that block.
    The theorem is about `CountedSpec`, in which no header counts below the first block: there the subtraction
    in `ConfirmAllowed` wraps (block_header_state.cpp:53) and lets any count through. Counts are 16 bits wide, so
    this concerns the first 65535 blocks of a chain.
  * `IrreversibleKept` (`ChildPreferred`), for schedules of any sizes. `PInv` says that no producer implies a block above the proposed one and that the
    confirmation counters are of blocks above it, so that the proposed number never falls. The rest is about ranks (`CalcRanked`): as many
    producers as before imply the last irreversible block or more, because a block replaces what its producer implies by the
    proposed number, and a new schedule gives its members values that are not below the last irreversible block.
  * `OwnBlockAccepted`, if `LibKept` holds. `WInv` says that the record of a producer is not above both its
    watermark and the last irreversible block. A last irreversible block that moves back (`MCBlockHeaderShrink.cfg`)
    would break it, hence the hypothesis.
  * `LibOK` with `Ranked`: the number that `calc_dpos_last_irreversible` picks exists and is a block of the branch; among finitely
    many values there is one of every rank.
* `MappedFile_proofs`: `TypeOK`, `CleanFileExact`, `OneUser`, `OpensSaved`, for any processes, pages and contents. `FileInv`
  says, while nobody is suspect, what a clear flag vouches for, what a process that has looked at it may still rely on and what
  the holder of the lock has done of its copy; and, because the only suspect is cleared once it begins to use the
  file, what it has written until then. Assumption: page contents and the blank page differ.
* `ProductionLoop_proofs`: `NeverSignTwice`, `NoSlotMissed`, `LoopAlive`, `ProduceExpected`, for any number of producers,
  repetitions and local producers. `LoopInv`: watermarks cover the signed blocks and stay below the one being produced;
  the sequence of signed blocks of one producer rises in height and slot;
  a timer is never later than the next turn; at most one queued handler is current. The
  lemmas on slots show that `calculate_next_block_time` finds the first slot after the head that the producer may take.
* `UnappliedQueue_proofs`: `TypeOK`, `NothingLost`, `QueueFresh`, for any transactions, expirations and chain. `QueueInv` adds
  that the pending block holds nothing of the chain and no transaction is in two blocks, without which an abort or a
  fork switch would queue transactions that the chain holds.
* `BlockLog_proofs`: `TypeOK` and `NothingLost` for any number and sizes of blocks (`LogInv`: what each step of a call finds in log,
  head and copy); `IndexExact` for any length of the writer's buffer. `IndexInv` says how far a left index can be from the log, by
  `damage`: it follows the log, or (`"old"`) it is the whole index of the log before a front trim; nothing is claimed of `"cut"` and `"holed"`. `PosAssumption`: positions grow with the block, and dropping blocks moves the rest forward.

* `Controller_proofs`: every safety property of `Controller` that a passing run checks, for every tree of blocks, every set of invalid
  ones, both read modes and any order of blocks, stops, crashes and restarts. The invariant has three layers, each
  inductive given the ones before it.
  * `CInv` gives `IrreversibleForever`. `log_irreversible` appends what the fork database's head makes irreversible, and nothing
    compares that head with the controller's; the proof is that whenever the first makes a block irreversible that is not in the log
    yet, the two are the same block. Between calls no block of the index does so (`Low`), because a block that does is
    the best of all and is switched to at once; in a switch only the block it leads to may (`NewBranch`, `Extending`), it is applied
    last, and if the switch fails it is removed with the invalid block below it. The exception is a start in speculative mode after
    irreversible mode: there the index may hold such blocks, but then none of it was applied and no reversible
    block is kept (`Fresh`). `CInv` has one part for each group of values of `pc`; `OnLog` is what a `fork_db.dat` read after a crash,
    an interrupted replay or `--replay-blockchain` still has to do with the log.
  * `SInv` gives `StoresAgree` and `FailedSwitchUndone`. `Stacked`: the undo states are the branch that ends in the head, one for
    each block from the log's last on. While the node runs, the stored reversible blocks are those of the head
    above the root (`Exact`), except during a replay, where they reach up to a block that no other is preferred to (`Replays`). In a
    switch, `Fork(s, t)` names the two ends: what is popped, applied, popped again and reapplied is each time the part of
    one branch above the other, so that the reversal ends at `s`. For a node that is down, `Off`, `Opened` and `Rewound` say what
    chain state, file, log and reversible blocks have to do with each other after a shutdown, a crash between any two writes, a
    partial recovery and a deleted state; the checks of `init` are then shown to find what they expect.
  * `RInv` gives `NeverFails`, `BestBranchApplied` and `RestartKeepsHead`, the first and the last with the exception for `cut`. `Cleared`: no invalid block is in the head's branch, in the
    log or validated (also a theorem, `InvalidKeptOut`). `Linked`: while a switch is undone the head is known to the fork
    database, so the removal of the invalid block does not take the head away. `Bottom`: the undo states reach down to the root, so
    the loop of `init` that undoes revisions ends. `Good`, which holds only as long as no block is invalid: no
    switch is undone; the head is the fork database's and preferred to every other validated block, ties included
    (`Settled`), or a switch leads to a block that is preferred to all of them (`Ahead`); all that is
    declared irreversible has been applied (`Drained`); and a stopped node's file, state and head are at one block (`Whole`). With
    invalid blocks `Good` may be false, and `KnownFailures` lists the assertions that may then fail (section 4).

  Lemmas about the fork database come from `ForkDatabase_proofs` by `INSTANCE`. Assumptions: those of the tree; `LibBelow`: a block
  makes no block above itself irreversible, which `LibOK` shows for the header state; and that the value that
  stands for a missing chain state is not a chain state.

  The last part of `BestBranchApplied` (in irreversible mode an unapplied irreversible block needs an invalid block,
  somewhere) cannot be sharpened to one on its own branch, although that holds on the run's tree: a node in irreversible mode
  receives an invalid `x1` and a valid `y1` of the same number, which both make blocks irreversible; it is started in speculative
  mode, fails at `x1` and removes it; started in irreversible mode again, it is between calls with what `y1` makes irreversible
  unapplied, because `init` does not call `log_irreversible` in that mode, until the next block arrives.

The inductive invariants were checked by TLC on the instances of the runs (quantifiers over all naturals bounded) before
they were proved.

Only model-checked:

* liveness (`CallsEnd`, `LibCatchupEnds`, `CatchesUp`) and whatever needs `ENABLED`: out of the prover's reach;
* the branch loops of `ForkBranch`, the folds of `ResourceLimits` (`TotalsExact`) and the accumulator's distance from the exact
  average: induction over data, also out of reach;
* `SyncManager`, `ProtocolFeatures` and the rest of `ResourceLimits`: not proved yet.

## 6. Plan

Proofs first: `MemWithinLimit` and `CpuBillFits` of `ResourceLimits`, `RecordsAgree` of
`ProtocolFeatures` and `NoGap` of `SyncManager`. Models after that:
`Controller` with `BlockLog` in place of the atomic log; the state history log, which resembles it; incremental Merkle trees and
the authority checker against reference definitions.

## 7. Not modelled

* **Finality across forks.** Two conflicting irreversible blocks need four producers and branches of some twenty blocks:
  out of TLC's reach with the header model. `DistinctConfirmers` is the part of the argument that is about the code.
* **The wrap of `block_num + 1 - num_prev_blocks_to_confirm`** (block_header_state.cpp:53): the run enumerates counts
  that do not exceed the block number, and the theorem is about those.
* **In SyncManager**: `accept_block` answers false while a block is being produced; head catch-up is not claimed to end (the loop at line 1802 clears the wrong
  connection's fork head and is modelled as it is); transactions, keep-alive and handshake validation.
* **In BlockLog**: a machine that dies during a reset, a trim or a repair, and blocks of a file that reach the disk out of order.
* **In ResourceLimits**: changes of the elastic parameters, sums of limits beyond 2^64.
* **In ProductionLoop**: a main thread that falls behind by more than a slot; changes of the schedule.
* **In ProtocolFeatures**: `commit_block` failing after the head has advanced; irreversible read mode.
* **In Controller**: transaction execution (a block is valid or not), start from a snapshot, signal handlers.
* **Secondary indices of chainbase**, whose uniqueness is a precondition of `modify`.
* Authorization, Merkle trees, snapshots, http accounting, wallets, history, state history, trace and MongoDB plugins,
  WebAssembly engines, ABI serialisation and command line programs: the reasons are with the components in `PROJECT.json`.
  Most of the repository's lines are vendored or generated code (wabt, softfloat, yubihsm, gtest, CLI11) and carry no
  state of the node.
