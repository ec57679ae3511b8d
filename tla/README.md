# A verification project for the Freezone node

Freezone is a Steem-derived blockchain node (`steemd`). This directory holds
TLA+ models of the parts of the node that keep its chain, of the threads and
the network around it, and of the rules that move its money and its votes: TLC
checks them on small instances, TLAPS proves the most important results for
every instance.
Everything is translated from the C++ source; `PROJECT.json` ("map") says which
lines each definition stands for.

## 1. The system

### Components, their state and operations

| component | state | operations | interacts with |
|---|---|---|---|
| undo index, `chainbase::generic_index` | table of objects by id, `_next_id`, `_stack` of undo states, `_revision` | `emplace`, `modify`, `remove`, `start_undo_session`, `undo`, `squash`, `commit`, `undo_all`, `set_revision` | every object of the chain state lives in one; `chainbase::database` calls all of them in turn |
| fork database | `_index` of blocks linked by weak `prev` pointers, `_head`, `_max_size` | `push_block`, `set_head`, `pop_block`, `remove`, `set_max_size`, `fetch_branch_from`, `fetch_block_on_main_branch_by_number`, `start_block`, `reset` | `chain::database` pushes every received block here first and takes its decision from `_head` |
| block application, `chain::database` | head block and the rest of the chain state, checkpoints | `push_block`, `_push_block`, `pop_block`, `apply_block`, `migrate_irreversible_state`, `open`, `close`, `reindex` | all of the above and the block log |
| irreversibility | last confirmed block of each witness, last irreversible block number | `update_signing_witness`, `update_last_irreversible_block` | decides what is appended to the log and committed |
| block log | data file and index file, a head block | `append`, `flush`, `read_block_by_num`, `open`, `construct_index` | written by `migrate_irreversible_state`, read by `open` and `reindex` |
| pending transactions | `_pending_tx`, `_popped_tx`, a pending undo session | `push_transaction`, `clear_pending`, `pending_transactions_restorer` | cleared before and re-applied after each block |
| block production | slot timing, witness keys | `maybe_produce_block`, `generate_block` | takes pending transactions, pushes the block it made |
| write queue (chain plugin) | lock-free queue of requests with promises, `running` | `accept_block`, `accept_transaction`, `generate_block`, `start_write_processing`, `stop_write_processing` | p2p and API threads wait on the promise; one thread writes |
| read/write lock (chainbase) | rotating array of locks | `with_read_lock`, `with_write_lock` | API threads read, the write thread writes |
| witness schedule, slots, hardforks | schedule object, virtual times, hardfork votes | `update_witness_schedule`, `adjust_witness_vote`, `get_slot_at_time`, `process_hardforks` | votes come from vesting; decides who may produce a block, and which rules are in force |
| balances, savings, internal market, escrow, conversion | balances of accounts; orders, withdrawals, escrows, conversion requests; supplies | one evaluator per operation; expirations and payments in `_apply_block` | run inside `apply_block` |
| vesting and witness votes | shares, fund and share total; withdrawals, routes, delegations; proxies and votes | one evaluator per operation; `process_vesting_withdrawals`, `clear_expired_delegations`, `process_decline_voting_rights`, `process_funds` | share price and votes depend on it |
| rewards, worker proposals, tokens, resource credits, other evaluators | objects in undo indices | evaluators, periodic processing | run inside `apply_block` |
| p2p network | a `peer_connection` per peer, sync requests, received and handled blocks, inventories | handlers of messages, `fetch_sync_items_loop`, `fetch_items_loop`, `process_backlog_of_sync_blocks`, `terminate_inactive_connections_loop` | hands blocks to the chain through the write queue; all tasks run on one thread |
| APIs, wallet, MIRA, appbase, fc | queries, storage adapter, plumbing | | no protocol state of their own |

### What is hard

* **Order.** Blocks of competing forks come in any order and possibly again;
  `push_block` decides from the fork database's head, not from the block it was
  given.
* **Partial failure.** A fork switch pops blocks, applies others, and may fail
  at any of them, after some have already become irreversible. `undo()` itself
  may fail.
* **Crashes.** Three stores are written one after the other: the block log
  (buffered), the fork database (in memory), the chain state (memory-mapped).
* **Stale and dangling state.** `_head` of the fork database after a failed
  apply, dead `prev` pointers after trimming, ids reused after undo.
* **Limits.** The undo history limit, the fork database's size, the fork point
  below the committed block.
* **Concurrency.** Readers against the one writer, whose lock is abandoned after
  a timeout; a request whose promise is never set at shutdown.
* **Late and lost answers.** Peers answer requests the node has replaced, or
  never; blocks come in another order than they were asked for.
* **Rounding and wrapping.** Matches are rounded, the last weekly payment is a
  remainder, virtual time wraps.

`PROJECT.json` ("hazards") lists them at the line where they bite, with the
properties that would catch them going wrong.

### What makes each component correct

* undo index: an undo brings back exactly the table of the start of the
  session, after any nesting and squashing; ids are never handed out twice.
* chain: the undo stack leads back along the chain; irreversible blocks stay;
  the log holds exactly the irreversible blocks; a node can always be reopened
  after a crash; it follows the longest branch it can apply; a failed push
  leaves the chain where it was.
* pending transactions: none is lost without a reason, none is included twice,
  a block the node makes can be applied.
* write queue: each request is answered; its context outlives its use; the
  writer is alone; shutdown does not wait forever.
* block log: what was flushed is kept and found under its number after any crash.
* market and the rest of the ledger: assets are conserved, the book is never
  crossed, nobody trades beyond the limit of an order.
* vesting: shares, votes and delegations are each counted once; a withdrawal
  pays exactly what was asked; blocks can always be applied.
* schedule: virtual time never wraps unnoticed; every witness with votes has its
  turn.
* p2p sync: a block that is missing is always on its way, asked for, or known to
  be missing; an honest peer is not dropped for its blocks.

## 2. The modules

| module | models | kind |
|---|---|---|
| `SnapshotStack` | what an undo-able table promises: a stack of complete snapshots | abstract specification |
| `UndoIndex` | `chainbase::generic_index` | component |
| `UndoIndex_proofs` | theorems about it | proofs |
| `Irreversibility` | `update_signing_witness`, `update_last_irreversible_block` as functions of the chain | operators |
| `ForkChain` | fork database, block application, block log and undo stack of one node, composed | component |
| `ForkWatch` | `ForkChain` with a history of what the node was given, and the fairness of its pushes | component with history |
| `ForkChain_proofs` | undo stack, undo limit, checkpoints; log, fork database, recovery, switches; the longest chain | proofs |
| `PendingPool` | pending, popped and postponed transactions, block production | component |
| `PendingPool_proofs` | theorems about it | proofs |
| `WriteQueue` | the write thread and its queue, the ring of locks, the threads that read and write, the shutdown; composed | component |
| `WriteQueue_proofs` | theorems about it | proofs |
| `AppendLog` | what the block log promises: an append only log that keeps what was flushed | abstract specification |
| `BlockLog` | the two files of the block log | component |
| `BlockLog_proofs` | theorems about it, and that it implements `AppendLog` | proofs |
| `Ledger` | balances, savings, market, escrow, conversion | component |
| `Ledger_proofs` | theorems about it | proofs |
| `Vesting` | vesting shares, withdrawals, delegations, witness votes | component |
| `WitnessSchedule` | `update_witness_schedule4` and what changes virtual times | component |
| `WitnessSchedule_proofs` | theorems about it | proofs |
| `PeerSync` | synchronization of one node with its peers | component |
| `PeerSync_proofs` | theorems about it | proofs |
| `MC...` | small instances | TLC |

How they fit together: `PeerSync` decides in which order blocks reach the node,
`WriteQueue` brings them to the one thread that writes, `ForkChain` and
`PendingPool` are what that thread does with a block or a transaction, `Ledger`,
`Vesting` and `WitnessSchedule` are what applying one does to the state (whose
rollback is `UndoIndex`), and `BlockLog` is where `ForkChain` keeps what is
irreversible. Each takes from the next what its interface promises:
`ForkChain` a log of which a flushed prefix survives a crash (`AppendLog`),
`WriteQueue` that a write returns, `PeerSync` that the chain accepts a block
whose parent it has.

### UndoIndex

| model | code (`chainbase.hpp`) |
|---|---|
| `obj`, `nextId`, `stack`, `revision` | `_indices`, `_next_id`, `_stack`, `_revision` |
| `Create`, `Modify`, `ModifyFails`, `Remove` | `emplace`, `modify` (uniqueness kept or violated), `remove`, each with `on_create`, `on_modify`, `on_remove` |
| `Undo`, `UndoFails` | `undo()` in its three passes, and the throw in one of them |
| `SquashLast`, `SquashTwo`, `Merged` | `squash()` with one undo state or more, the 4 x 4 merge |
| `Commit`, `UndoAll`, `SetRevision`, `StartUndoSession` | the functions of these names |
| `status` | whether an exception is on its way to the session's destructor, `undo_all()` is looping, or `undo()` has thrown |
| `snap` | history variable: the table at the start of each session |

An object is one unique secondary key and other data. A failed `modify()`
erases the object in the boost container and throws; the session that
surrounds it then undoes. `chainbase::database` calls each index in turn; one
index stands for all.

### ForkChain and Irreversibility

A block id is a hash over the block and its previous id, so a block is
modelled as the sequence of headers from block 1 to itself; the chain state is
a function of the head and represented by it. `LibOf` gives the last
irreversible block number at each block; the instances compute it with
`Irreversibility` and TLC checks the equality (`LibIsComputed`). `Fate` says
whether the operations of a block throw, before or after irreversibility is
updated.

| model | code |
|---|---|
| `head`, `undo`, `revision` | head block, undo states and revision of the chain state; survive a crash |
| `index`, `orphan`, `fhead`, `maxSize` | `_index`, the items whose `prev` weak pointer is dead, `_head`, `_max_size` |
| `log`, `buf` | block log on disk, and what is in the stream's buffer |
| `pc`, `mode`, `target`, `old`, `fork`, `skipUndo` | control and locals of `_push_block` |
| `PushDirect`, `PushKept`, `PushSwitch`, `PushThrows` | the four ways `_push_block` goes after `_fork_db.push_block` |
| `Pop`, `PopThrows`, `Popped` | the loops that call `pop_block` to the fork point |
| `Apply`, `ApplyThrows` | `apply_block` in a session, up to `migrate_irreversible_state` |
| `AppendBlock`, `FlushLog`, `Commit` | `migrate_irreversible_state`: append each block, flush, trim the fork database and commit |
| `Open`, `OpenThrows`, `Close`, `Reindex*` | the functions of these names |
| `Crash` | the process dies at any step of a push or a replay; any prefix of the buffer reaches the file |

A crash in the middle of applying a block is a crash before it: `open()` calls
`undo_all()`, and the session of the block is on the stack. A crash in the
middle of a replay leaves a state with revision 0, which `open()` refuses.
Two things are coarser than the code. `commit` goes through the indices one by
one (`database.cpp:3960`) and is one step here, so a crash between two of them is
not a state of the model. And a crash leaves whole blocks in the log; a torn
block at its end, with which `open()` throws, is a state of `BlockLog` and is not
combined with the chain.

`announced` records every block that observers were told is irreversible, with
the fate of the block that was being applied: a block with `Fate` "late" tells
them and then throws. `Confirmed` are those told by blocks that were applied.
A push that `Accepts` refuses changes nothing and is no step. `clear_pending`
runs before a push, so the undo stack holds blocks only.

`ForkWatch` adds one history variable: `contested` says whether, since the
process was started, the fork database has taken a block that competes with the
committed state (neither leads to the other). A fork that leaves the chain
below the committed state cannot be switched to: `pop_block` throws half way,
and the node is left at the committed state with the blocks of its own branch
above it in the fork database, where they stay after the fork itself was
trimmed; such a node may sit on a head that is not the highest block it has.
`FollowsLongest` is therefore about nodes that were not `contested`. Looking
only at what is in the fork database *now* is not enough: the block that did
the harm may be gone.

Left out: `skip_fork_db`, replay to a stop block, starting from a state file,
`force_open`, MIRA, and changes of the witness schedule.

`Redeliver` says whether a block the fork database already has can be pushed
again. The p2p layer normally prevents this: it remembers the most recently
accepted blocks (`net/node.cpp`, `_most_recent_blocks_accepted`), but that
memory is bounded.

### PendingPool

A transaction is a model value with an expiration and a size. What its
operations need of the state is abstracted to two sets: `Needs[t]` must have
been applied before it and nothing of `Conflicts[t]` may have been (a transfer
needs the transfer that funds it and conflicts with the one that spends the
same balance). Whether it can be applied then depends on the chain, on the
transactions applied in the pending session and on the time of the head.

| model | code |
|---|---|
| `chain` | the chain of applied blocks, each with its transactions and time |
| `session`, `applied` | `_pending_tx_session`, and the transactions applied inside it |
| `phantom` | the head that an interrupted `generate_block` has left in the session |
| `pending` | `_pending_tx` |
| `todo` | `_popped_tx` followed by the restorer's `_pending_transactions`; during generation the rest of the loop over `_pending_tx` |
| `late` | `apply_trxs` is false: the restorer's time limit has struck |
| `pc`, `old`, `fork`, `gen` | control and locals of `push_block`, and of `generate_block` |
| `Dedupe` | the transaction index after `clear_expired_transactions` |
| `PushTransaction` | `push_transaction`, `_push_transaction` |
| `PutAside` | the constructor of `pending_transactions_restorer`: `clear_pending` |
| `PushExtends`, `PushNoChange`, `PushSwitch` | `push_block` of a block that extends the chain, is refused or only kept, or starts a switch |
| `PopBlock`, `PopThrows` | `pop_block` with the `_popped_tx` insertion, and its exception |
| `ApplyFork`, `ApplyForkThrows`, `RestoreOld` | the two halves of the switch |
| `RetryKnown`, `RetryApplies`, `RetryFails`, `Postpone`, `RetryDone` | `~pending_transactions_restorer`, transaction by transaction |
| `Generate`, `GenBreak`, `GenSkip`, `GenPostpone`, `GenInclude`, `GenThrows`, `GenPush` | `generate_block` with `apply_pending_transactions` |
| `owed`, `culled`, `delayed` | history variables for the properties |

All of these run on the one thread that holds the write lock, so the steps of
two operations never interleave; what interleaves is operations, and the time
limit and exceptions can strike between any two steps of one.

A *phantom* head comes about as follows: `generate_block` applies the header of
the new block inside the pending session; if the undo history check
(`database.cpp:3847`) or a required action throws there, the session stays, and
with it the unfinished block as the head of the state. The next
`generate_block` reads `previous` before it resets the session, so its block
hangs on a block that does not exist; its `push_block` is refused, and the
restorer of that push clears the session. `gen.linked` says whether the block
hangs on the chain's head.

Left out: signatures and authorities, TaPoS, the size check of foreign blocks,
hardfork votes, optional actions, and `close()`. The first block is never
popped. Which block the fork database prefers is `ForkChain`'s subject; here any
block may extend the chain and a switch may start and fail anywhere. Restoring
the old branch is one step that succeeds (`RestoreOld`), although an exception in
`database.cpp:861-867` leaves `push_block` there: `SwitchUnwinds` of `ForkChain` says
that it comes about only when the fork leaves the chain below the committed
state.

### WriteQueue

A request is a `write_context` on the stack of the thread that makes it, so it
is named by that thread: a thread is in at most one call at a time.

| model | code |
|---|---|
| `queue`, `running`, `syncing` | `write_queue`, `running`, `is_syncing` of `chain_plugin_impl` |
| `wpc`, `cxt`, `wlock` | the write thread of `start_write_processing`: its place, `cxt`, the lock it has or waits for |
| `cur`, `slots` | `_current_lock` and `_locks` of `read_write_mutex_manager`; a mutex is whether the writer has it and how many readers |
| `pc`, `active`, `num`, `prom` | a thread: its place, whether it is inside a handler of its plugin, the number of the lock it read, its promise |
| `net`, `web`, `phase`, `down` | `running` of the p2p plugin, the web server, the application's shutdown |
| `Enter`, `Leave` | a handler of the p2p plugin or web server, or a round of the production loop, begins and ends |
| `FetchReadLock`, `ReadLock`, `ReadTimeout`, `ReadUnlock` | `with_read_lock`: the lock is looked up, then locked, which may take until the timeout |
| `Accept`, `Return` | `accept_block`, `accept_transaction`, `generate_block`: push, wait for the promise |
| `PopFirst`, `Claim`, `Acquire`, `AcquireTimeout`, `ConstructLock` | outer loop, and `with_write_lock` with `next_lock` in its two statements |
| `Execute`, `Answer`, `PopNext`, `Release`, `WriterExit` | the inner loop; either loop ends when `running` is false |
| `Signal`, `ShutdownP2P`, `ShutdownWeb`, `ThreadsStopped`, `ShutdownChain`, `CloseDatabase` | `quit`, then the plugins' `plugin_shutdown` in reverse order of their start |

A mutex that is constructed again under its holder is free again and the
holder's unlock then counts below zero: the model keeps the count (an `Int`),
and `wiped` the readers it happened to.

### BlockLog and AppendLog

A file is a sequence of cells: a block takes one or more, its position another;
a position is a number of cells. Each file has a buffer of its own, of which any
beginning may reach the file at any time (`SpillData`, `SpillIndex`) or at a flush
(`FlushData`, `FlushIndex`, which are apart). `OpenLog` is `open()` with its cases
(index empty, ahead, behind, agreeing) and `construct_index` (`Rebuilt`);
`OpenEmpty` the case of an empty main file, in which a left-over index is
removed; `OpenThrows` a main file whose end is not a position of a block, as
after a crash in the middle of one. `FindBlock` and `ReadBlock` are
`read_block_by_num`, with the flushes that `check_index_read` and
`check_block_read` do before they read. `ImplementsLog` maps the whole blocks of
the main file to the durable part of `AppendLog` and `head` to its length.

### Ledger

Two currencies, "F" and "D", as integers. A price is a pair; `Times` is
`asset * price`, rounded down. Orders are a set, `num` the ids that chainbase
gives them, `Before` the order of the index `by_price` (greater price, then the
older order). `LimitOrderCreate` inserts the order and runs `ApplyOrder`, which
matches it with the best of the orders `Matching` gives, until it is gone or none
crosses: the loop is a recursive function over as many rounds as there are
orders to go through, a round that has nothing left to do changing nothing.
`MatchOne` is `match` with `Fill` for both sides, which removes a filled order or
refunds one whose rest is worth nothing. Fill or kill is a flag. The escrow
operations are approval by `to` and agent, rejection, dispute, release to either
side by whom the rules allow, with their two deadlines. `EndBlock` is one block:
time, expired orders, the null account, conversions at a median of the feed,
matured savings withdrawals, and unratified escrows, in the order of
`_apply_block`. Each of these loops pays every account for its own objects, so
that what they do together is written as sums over the objects of an account;
the one place where their order matters, what the null account is paid before
and after it is cleared, is kept (`kept`, `burnt`).

`Mixes` names which kinds of operations one behaviour uses, and how many: any
operation is checked together with those it shares objects with, and transfers
with all.

### Vesting

`book` is the part of the state that the stages at the end of a block hand on:
balances, shares, `proxied_vsf_votes`, votes of witnesses, the fund, the total of
shares, the supply, and whether no assertion has failed. `Adjust` is
`adjust_proxied_witness_votes` in both its forms: `Hops` follows the proxies, each
hop one level deeper, and the last account's witnesses get the rest. `Withdraw`
is one account's turn in `process_vesting_withdrawals`: `Payment`, then the
routes that deposit shares, then those that deposit freezone, then the rest,
then the votes, with the share price read again at each, as in the code;
`Withdrawals` takes the accounts that are due in the order of the index.
`DelegateVestingShares` covers a new delegation, an increase, and a decrease or
removal with its expiration object. `ClearNull`, `ProcessFunds` and `Decline` are
the other stages. An assertion that fails in `EndBlock` leaves the state as it is
and sets `halted`: the block cannot be applied, and neither can another. The
assertions are the one on a witness's votes and those of `asset * price`, that
the price is positive (`Priced`); an operation that fails one is no step.
`unburnt` records whether the null account has kept shares that were taken off
the total.

Mana is always full, so that `Available` allows every delegation the code allows
and some that it does not. `account_witness_proxy` walks up the proxies with a
pointer to a copy that is local to the loop's body (`steem_evaluator.cpp:1450-1452`),
which is undefined behaviour; `ProxyAllowed` follows the account that the pointer
was meant for, which is what builds that leave the copy's memory alone read.

### WitnessSchedule

Numbers are unsigned and wrap at `Lap`, the greatest one (`U`), as `fc::uint128`
does with `VIRTUAL_SCHEDULE_LAP_LENGTH2`. `AdjustWitnessVote` moves the position by
the old votes and computes the new arrival; `WitnessUpdate` creates a witness or
sets or removes its key. `UpdateWitnessSchedule` is one round: `Elected` by votes,
`Processed` the witnesses taken from the head of the virtual queue, those
without a key included, `NewLap` their next arrivals, or `Reset` when one wraps.
The assertion on the number of selected witnesses sets `halted`.

### PeerSync

The node runs all handlers and tasks on one thread and calls the chain
directly, so each is one action; what interleaves is messages, tasks and lost
connections. Blocks are numbers with a parent.

| model | code (`node.cpp`) |
|---|---|
| `peer[p]` | the `peer_connection`: `ids_of_items_to_get`, requests, `we_need_sync_items_from_peer`, `ids_of_items_being_processed`, what was advertised, messages in both directions |
| `active`, `fresh`, `received`, `handled` | `_active_sync_requests`, `_new_received_sync_items`, `_received_sync_items`, blocks handed to `send_sync_block_to_node_delegate` |
| `backlog`, `fetchSync`, `fetchItems`, `suspended` | the tasks that are triggered, `_suspend_fetching_sync_blocks` |
| `Synopsis`, `Available`, `Fits`, `Unknown`, `Extended` | `get_blockchain_synopsis`, `get_block_ids`, and the handler of the ids: is it an answer to what was asked, what of it is new |
| `OnAsk`, `OnIds`, `OnInv`, `OnNormalBlock`, `OnSyncBlock` | the handlers of messages |
| `FetchSyncItems`, `FetchItems`, `ProcessBacklog`, `HandleSyncBlock` | the tasks |
| `Connect`, `OnConnectionClosed`, `Timeout`, `TerminateStalled` | connections come, go, and are ended by `terminate_inactive_connections_loop` |
| `AnswerIds`, `AnswerItems`, `PeerExtends` | a peer: it answers as the same code does, and gets blocks from elsewhere |

`accused` records for which kind of message a peer was dropped as faulty.

The loops of the tasks are recursive functions on the number of rounds:
`RequestAll` goes through the connections in any order, `Wanted` through the ids
of one of them, `FetchEach` through the items to fetch, `Passes` through the blocks
received until a pass finds none or enough is being handled.

One corner is simplified. When a peer switched forks, its list begins with a
block that the node knows but that is not in its own list, and the handler
asserts that the chain has it (`node.cpp`, `has_item`). In the model that block
may still wait in `handled`; its chain is then taken as known for the synopsis.
`recent` is a set without a limit where the code has a circular buffer
(`_most_recent_blocks_accepted`, `node.cpp:486`), large enough for every block of
an instance.

## 3. The runs

| run | question | result |
|---|---|---|
| `undo` | Does the index of change sets behave like a stack of full copies, through any nesting, squash, commit and failed `modify`? | holds |
| `chain_valid` | Unbroken blocks of four branches in any order, repeated, with crashes, restarts and replays, and a checkpoint above a stall that exceeds the undo limit: one chain in the log, the longest branch followed unless a block competed with the committed state, the chain through the checkpoint, and a replay that ends early only at a block of the stall? | holds |
| `chain_faulty` | Blocks that fail on the chain, in a fork, at its end, above blocks that become irreversible during the switch, and after they told observers of others; an undo limit that one branch reaches: state, log and fork database stay consistent, the node can be reopened, what applied blocks announced stays, and every push ends? | holds |
| `irreversible_doc` | Is nothing that observers were told while a block was applied ever taken back? | violated |
| `pool` | Is any transaction lost, included twice or given up needlessly, and does a generated block apply? | holds |
| `write_queue` | Does the writer ever use a context whose caller has gone, work beside a reader it did not give up on, leave a caller waiting, or keep the node from exiting? | never |
| `block_log` | After any crash, partial write of the buffers or removal of the index, is every block found under its number, and is what was flushed still there? | holds, but for the index of a log of one block |
| `ledger` | Are the two currencies conserved, is the book never crossed, does every fill respect both limits? | holds |
| `vesting` | Are shares (until the null account keeps worthless ones), votes and delegations exact through every order of operations, and are withdrawals paid in full? | holds |
| `witness_schedule` | Is no virtual time ever in the past, and does every witness with votes have its turn again? | holds |
| `peer_sync` | Is a missing block always owed by somebody or known to be missing, and is no honest peer dropped for a block? | holds |
| `vesting_halt_doc` | Does the assertion on a witness's votes never fail while a block is applied? | violated |

### Bounds

* `undo`: three ids, two values of the unique key, one other value, three nested
  sessions, revisions up to 4. Three undo states are one more than `squash`
  merges, so every pair of the four kinds of entries is merged with something
  below it; two keys and three objects are enough for a key to move from one
  object to another and on to a third.
* `chain_*`: three witnesses and a threshold of 75 %, for which the last
  irreversible block is the smallest last-confirmed number
  (`MCForkChain!LibIsComputed` compares the numbers written in the trees with
  `Irreversibility`). Trees of branches up to seven blocks: long enough for a fork
  to make blocks irreversible halfway through the switch to it, to fail after
  that, and for one branch to stay just below an undo limit of 5 while another
  exceeds it (`chain_faulty`). In `chain_valid` the limit is 4: the fourth and the
  fifth block of the longest branch, which has seven, exceed it and are let pass because the
  operator has fixed the fifth, and the blocks above make them irreversible, so
  that they get into the log and a replay meets them. In `chain_faulty` a block
  that announces the second block and then throws can be reached from a branch
  that does not have that block. The main branch commits its second block, so a fork can leave the
  chain below the committed state. `DefaultSize` = 100 keeps the fork database's
  initial size out of the way; the sizes set after the first migration are
  exact.
* `pool`: three transactions that expire at times 2, 3 and 4, of which one needs
  and one excludes another; a chain of four blocks, so that a switch can pop two; blocks of two transactions; two pending transactions pushed (more by
  popping and postponing); a partition size that the large
  transaction does not fit beside another, and a postponed limit of 0, so that
  both the postponing and the break of the loop happen.

* `write_queue`: the p2p, the main and one API thread; a ring of two locks
  whose number wraps at four, so that the ring turns and the number wraps; three
  requests (a full queue, and one that comes during the shutdown) and two read
  sections (one on either side of a change of lock).
* `block_log`: five blocks of one or two cells; positions then differ from
  block numbers, and an index may be ahead of or behind the main file by more
  than one block.
* `ledger`: three accounts and the null account, amounts 1 and 3, the prices
  1:1, 2:3 and 2:1, of which the second rounds and leaves dust; three orders at a
  time; four or five operations of a mix and two blocks, so that everything that
  matures does.
* `vesting`: three accounts of which two have shares, and the null account; four
  operations and two blocks; two weekly payments, of which the second is a
  remainder; proxies two deep, so that a chain of three accounts is beyond
  reach; a share price that rounds. Each mix holds the operations that share
  state.
* `witness_schedule`: two places, one by votes and one by turn; three witnesses
  and a fourth that comes; a lap of 31, so that time wraps after a few rounds;
  four changes of votes or keys.
* `peer_sync`: two peers; a chain that forks after the first block, which the
  node and the peers have, into branches of one and of two blocks; the peers get
  two more blocks between them, so that they may be on different branches or one
  behind the other; one connection is lost or times out; every limit at one or
  two, so that each is reached. The peers are alike (symmetry).

Crashes are not bounded in the chain and log runs, nor is the number of pushes,
switches, replays, timeouts or failures.


### Fairness

* `ForkWatch!WatchFairSpec`: weak fairness of `Work`, the steps inside one push or
  replay. They are a loop of one thread that holds the write lock and waits for
  nobody; only a crash stops it, and a crash is an action of its own that ends
  the push. Nothing is assumed of peers, of restarts or of `close()`.
* `UndoIndex!FairSpec`: weak fairness of the undo steps while an exception
  unwinds or `undo_all()` loops.
* `WriteQueue!Spec`: weak fairness of the write thread, of the shutdown, and of
  each thread inside a handler. These are threads of the operating system, and
  where one waits it waits with a timeout or for a promise, whose setting is a
  step of the model and not assumed. Nothing obliges a thread to begin a request
  or the node to be told to stop.
* `WitnessSchedule!Spec`: weak fairness of `UpdateWitnessSchedule`: rounds follow
  each other as long as blocks are produced. Changes of votes are bounded in
  number, so that they end.
* `PendingPool`, `BlockLog`, `Ledger`, `Vesting` and `PeerSync` claim no liveness
  and assume no fairness. In place of "the node gets in sync", which depends on
  peers, `RestsInSync` says that no state in which nothing is on its way or
  scheduled is a state behind a peer that the node does not know of.

### Assumptions about the surroundings

* `Redeliver` (`ForkChain`). With it TRUE and blocks that cannot be applied,
  `HeadStaysLinked` does not hold: after a block on top of the chain has failed,
  the fork database's `_head` still points to it; a block of the chain that is
  delivered again is then taken for the next one, fails, and is removed from
  the fork database although the chain holds it (section 5 says where that
  leads). The passing run with faulty blocks therefore assumes the p2p layer's filter; the
  run with applicable blocks does not.
* `FinalityAssumption` (`ForkChain`): two branches do not both make conflicting
  blocks irreversible, and no branch makes a block irreversible that conflicts
  with the chain the node starts from. This is the witnesses' honesty, not the
  node's doing; without it no single node can keep `IrreversibleStays`.
* `IrreversibleStays` is about what blocks announced that were applied. A block
  that fails only after irreversibility was updated (`Fate` "late") has told
  plugins of irreversible blocks too; nothing keeps those on the chain
  (`irreversible_doc`), while such a block may come at any moment and does not
  take away what others announced.
* `Recoverable` is about the steps a crash can fall between in the model (a block
  appended, the flush, the commit); section 2 says which are coarser than the
  code.
* `NoNeedlessCull` is claimed as long as the time limit has never struck: a
  transaction is postponed without being tried, so that later it can come to
  stand before one it needs, be tried first and be given up.
* `WriteQueue` is checked with `StopAtBlock` FALSE; section 5 says why.
* `Isolation` leaves out runs in which a lock was constructed again under a
  reader: with the ring of the code that takes a reader between the two
  statements of `next_lock`, or one that stays while the writer times out on
  every other lock.
* `SharesMatch` asks the total of shares to be what the accounts have until the
  null account has kept shares that were taken off the total (`unburnt`); the
  supply and that nobody is in debt it asks always. From then on the equality is
  false (section 5). The fund is not empty at the start
  (`VestingAssumption`): shares without a fund are sold at the initial price, which
  nothing backs.
* The passing run of `Vesting` goes on to the block that cannot be applied and stops
  there; `vesting_halt_doc` is the run that looks at it.
* `IrreversibleShared` (`PeerSync`): no fork of a peer begins below the node's last
  irreversible block. This is what irreversibility means; when it fails,
  `get_blockchain_synopsis` throws (`p2p_plugin.cpp:430`), which is left out.
* Accounts (`Ledger`) and peers (`PeerSync`) are finite sets; the proofs add up over
  the first and go through the second one by one.
* `PeerSync`'s peers are honest and its blocks valid. `HonestBlocksKept` allows
  an honest peer to be dropped over a list of ids, which happens when answers
  cross (section 5).

## 4. What is proved

The theorems hold for every value of the constants that satisfies the named
assumptions of the modules: any number of ids, keys and sessions; any block
tree, any fates and irreversibility numbers that do not decrease along a
branch; any transactions, needs, conflicts, expirations and limits. TLC checks
the same definitions, inductive invariants included where the run's cost
allows.

* **`UndoIndex_proofs`.** `IInv` says what each undo state on the stack means
  relative to the tables at both ends of its session (`UndoStatesExact`: each
  object is unchanged, new, updated or removed, and in one case only), that
  next ids grow from session to session, that revisions are consecutive and
  keys unique. `UndoRestores` says what `undo()` does when it does not
  throw, `UndoSafe` when that is. `UndoRestores` alone is not inductive: after an undo it must hold
  of the undo state below, so every undo state must be exact, not only the
  newest. `Merged`, the 4 x 4 table of `squash`, is proved to compose two exact
  undo states into one. From `IInv` follow `TypeCorrect`, `UndoRestoresAlways`,
  `UndoSafeAlways` and `Refinement`: the index implements `SnapshotStack`.
* **`ForkChain_proofs`, the undo stack.** `IInv` adds to `StackIsChain` what `push_block` knows of
  its locals at each point (`LocalsOk`: the head lies on the branch being
  applied, and both branches agree below the fork point), that the revision is
  the head's number outside a replay, and that every block still to be appended
  was found. Without `LocalsOk`, a block could be applied on a head that is not
  its parent. `LimitInv` gives `UndoBoundedAlways`: between two blocks, what can
  be undone is at most what is not irreversible, and the check in
  `update_global_dynamic_data` bounds that. `CheckpointInv` gives
  `CheckpointsHoldAlways`, with no hypothesis at all. `Accepts` compares only a
  block of a checkpoint's own number with the checkpoint, so the invariant has
  to say more of every block the node holds: it passes through each checkpoint
  it is not below (`Passed`), because the block of that number was compared when
  it was pushed and each block is linked to one that is held or was committed
  (`Reaches`, `Vouched`).
* **`ForkChain_proofs`, the three stores.** `ChainInv` joins the three stores. `LogOk`: the log and its
  buffer are one chain of applicable blocks that nothing contradicts. `StateOk`:
  the state leads back to a block of that log. `TreeOk`: from the committed
  block on, the chain's own blocks are all in the fork database, and each block
  there is linked to its previous one, unless that one can never be applied
  again (`Gone`: it lies below the committed block or above a block that fails). `PushOk`: what a push in progress may rely on.
  None of the four is inductive without the others: a block is appended to the
  log because the fork database finds it by number, and it is the chain's own
  because only linked blocks are left at that number; the fork database is
  trimmed by what the state says is irreversible; and a restart builds the fork
  database from the log. From `ChainInv` follow `LogIsChainAlways`,
  `LogIsIrreversibleAlways`, `RecoverableAlways`, `HeadStaysLinkedAlways`
  and the action property `SwitchUnwindsAlways`;
  `IrreversibleStaysAlways` needs `AnnouncedOk` as well. The hypotheses, `Ordinary`:
  - no checkpoints (with one, whether a block can be applied depends on where
    the chain was when it was pushed) and no redelivery (section 3 says how it breaks
    `HeadStaysLinked`);
  - `LibOf[b] < Num(b)`: a block does not make itself irreversible, which holds
    as soon as there are two witnesses. With a single one, a block that failed
    can be the only one of its number left when the log is written, and
    `fetch_block_on_main_branch_by_number` takes it;
  - the chain the node starts from is made of applicable blocks.

  Any other block may fail, early or late, in all of these theorems; for
  `IrreversibleStaysAlways` that means that a late failure takes back nothing an
  applied block has announced. TLC evaluates `Ordinary` on the instances without
  checkpoints and redelivery (`MCForkChain!TreeIsOrdinary`): the run `chain_faulty`
  satisfies it, and has early and late failures.
* **`ForkChain_proofs`, the longest chain.** `FollowsLongestAlways`, for `Ordinary` trees whose blocks
  can all be applied (`AllGood`: unbroken and within the undo limit). `LongInv`
  says that what is being applied is the highest block known, at every point of
  a push: a block that does not become the fork database's head is not higher
  than the head, a switch pops no further than the committed state since no
  block in the fork database competes with it, and so it never fails. TLC checks
  the same with redelivery, and with a checkpoint and a branch that exceeds the
  limit, which the theorem leaves out. An earlier form of the property, whose condition
  looked at the fork database's present content instead of the history, could not
  be proved; TLC then found a tree of nine applicable blocks in which it fails
  after the competing block was trimmed.
* **`PendingPool_proofs`.** `IInv` says that every block of the chain was
  applicable on top of its predecessors (`ChainOk`), that during a switch the
  old chain is intact and shares the common part (`SwitchOk`), that the
  session holds exactly the applicable transactions of the block being
  generated (`GenOk`), that nothing is lost, and that what is applied is pending.
  `NoDoubleInclusionAlways` follows from `ChainOk` by an argument about time:
  a transaction in a block expires after the time of the block before it, the
  index forgets it only when the head is past the expiration, and head times
  grow, so that a second inclusion meets the record or the expiration check.
  `NothingLostAlways` needs `SwitchOk`, since `RestoreOld` replaces the chain and
  would lose the transactions of the common part if the old chain did not hold
  them. `ProducedBlockAppliesAlways` is an action
  property and follows from `GenOk`. `NoNeedlessCullAlways` rests on `CullInv`,
  about the order of the retries: until the time limit strikes, what a
  transaction needs is on the chain, applied, given up, or tried before it
  (`NeedsMet`), and one that was given up has expired, conflicts with something
  that is applied, or needs something that was given up too (`Hopeless`), which no
  later retry changes.
* **`WriteQueue_proofs`.** For any finite set of API threads (a thread pool is
  finite, and the proof counts readers), any ring of locks, queue and budgets.
  `ContextsValid` is inductive once the place of each thread and of the writer is
  known. `Isolation` is not: it needs `Counted`, that a mutex's count is the
  number of readers that hold it until one was constructed again; `Claimed`, that
  from claim to release the writer's lock is the current one, marked exclusive;
  and `Alone`, that it has no readers once acquired. A reader looks the lock up
  and locks it in two steps, so a reader of the current lock may be one that
  looked it up a whole turn of the ring before.
* **`BlockLog_proofs`.** Where block `n` starts depends on the sizes of the blocks
  before it alone (`Start`), so `IInv` says that each file with its buffer is a
  beginning of one fixed layout (`Laid`, `Entries`), whatever crashes took away, that
  the stream ends behind the head's block and the index with the head's entry.
  `IndexExactAlways` reads that off; the work is in `open()`: that `Trailers` of a
  beginning of the layout are exactly the positions of its whole blocks, so that
  comparing the last position with the last entry is enough to tell an index that
  agrees. `Refinement` maps each action to a step of `AppendLog` or to a stutter;
  writing a portion of a buffer is a step when it completes a block.
* **`WitnessSchedule_proofs`.** For any finite set of witnesses, any votes and any
  lap. `NobodyWraps` is about the present time; what is inductive is `OneLap`, about
  the time each witness is scheduled for: it passes at most one lap by then.
  Division rounds the arrival down, so the product stays within the lap; a change
  of votes moves the position by what the old votes earned and computes the
  arrival again; a round moves time to an arrival, at or before all others that
  are left.
* **`Ledger_proofs`.** For any finite set of accounts, any prices, feeds, amounts
  and delays. Three layers of lemmas come first.
  *Sums*: `SumFunction` of the community modules is a recursion over subsets that
  takes out a chosen element each time; that such a recursion exists on a finite
  set, that the sum does not depend on what is chosen (`SumRemove`), splits
  (`SumSplit`), and is the sum over owners of what each owns (`SumByOwner`).
  Induction goes through counterexamples: a set of natural numbers without least
  element is empty (`LeastOf`), and so is a set of finite sets without smallest
  one (`SmallestOf`), which needs no operator as a parameter.
  *Arithmetic of a match*: products and quotients with rounding (`NewGets`,
  `OldGets`, `NewTakes`). A match computes at the older order's price and rounds
  down; that the newer order still gets what its own price asks is shown from
  the two prices crossing (`CrossPrices`).
  *The loop*: `MatchStep` says what one round keeps (nothing is created, both
  sides at their limit, whatever stays in the book still asks for something) and
  that it uses up one order or the new one; so after as many rounds as there
  were crossing orders none crosses (`ApplyOrderFacts`).
  `IInv` adds to the three properties the types, that escrows differ in sender
  and id (without which replacing one by another would change the sum by more
  than the difference), and that the fee of an approved escrow is paid
  (`FeePaid`, without which a release would drop it with the object). Orders that
  were in the book before stay uncrossed, since they are only ever reduced or
  removed, which changes no price.
* **`PeerSync_proofs`.** For any finite set of honest peers, any tree of blocks,
  any limits, and any number of losses and timeouts. `HonestBlocksKept` forbids
  two accusations. That no block counts as unrequested needs `Owes`: each block on
  its way to the node, or in a request on its way to the peer, is in the peer's
  request sets, and is there once, so that the first copy does not take away what
  the second one needs. That no block fails to link needs the order in which
  blocks are handed over. `Known` is the chain with the queue of
  blocks to be handled; each block of the queue has its parent before it
  (`ChainOk`). Each peer's list is a path that begins next to a known block
  (`Route`), and so is each list on its way to the node. A list is attached to what
  the node asked with, so the synopsis that waits for its answer names known
  blocks and blocks of the peer's list only (`Awaits`); for that, `SynopsisFacts`
  follows the halving of `get_blockchain_synopsis` through both its parts.
  `RequestsLive` needs of a connection only that a closed one has no requests.
  `Chain` is recursive over the tree and each loop over its rounds; that these
  functions exist is proved for each (`ChainGrows`, `HalvesExist`,
  `RequestedExist`, `FetchedExist`, `PassedExist`), then their result round by
  round. `ParentsComeFirst` states the order of blocks by itself: the next block
  to be handed over always links, whether or not a connection is left to be
  accused over it.

### Only model-checked

* Liveness: `UndoAllTerminates`, `PushEnds`, `CallsReturn`, `QuitExits`,
  `EveryoneServed`. The prover handles neither fairness
  nor ENABLED.
* `RestsInSync` of `PeerSync` says where the node comes to rest, and what excludes a
  bad rest is that some task or message is still due; an invariant for it would
  follow every trigger through every handler, a liveness argument in disguise.
* `Vesting` (`SharesMatch`, `VotesExact`, `Backed`, `PaidInFull`). The end of a block
  folds withdrawals over the accounts that are due, each of them over routes and
  up the proxies, with a share price that changes at every step; its proof would
  be as long as that of `Ledger` and has not been done. Looking for it found that
  the model let a price be negative (see `Priced` in section 2), for which
  `SharesMatch` and `Backed` fail; with the assertions of `asset * price` in the
  model they hold in instances that get there as well.
* `Irreversibility` is evaluated on the trees of the instances; what it computes
  for every chain would need induction over the chain. The proofs use of it only
  what `ForkChain` assumes of `LibOf`.
* The chain with redelivered blocks and with checkpoints, as far as `Ordinary`
  excludes them: `chain_valid` has both.
* `ReplaySucceeds`. Without checkpoints its exception never applies and replays
  simply succeed, so a theorem under `Ordinary` would leave out the case it is
  about; with them it needs the log to remember for which blocks the limit was
  waived.

## 5. Where code and comments disagree

Two disagreements have runs of their own (`PROJECT.json`, "findings"):

* **A block that cannot be applied** (`vesting_halt_doc`). A weekly withdrawal
  with a route that deposits shares adds the receiver's votes
  (`database.cpp:1626`) before it removes those of the account they come from
  (`database.cpp:1699`). In between, the witness that both vote for has votes for
  the same shares twice; if nearly all shares vote for it, that is more than
  there are, and the assertion at `database.cpp:1333` throws out of
  `_apply_block`. Every block past the time of the withdrawal then fails.
* **Announced and taken back** (`irreversible_doc`). Observers are told of
  irreversible blocks in `update_last_irreversible_block` (`database.cpp:3954`), which
  `_apply_block` calls before some twenty others that may throw (3142-3183; the
  one at 3161 does in `vesting_halt_doc`). The comment at 3185-3188 has
  `migrate_irreversible_state` last "because it is the only thing that is not
  reversible"; but `account_history_rocksdb` writes to RocksDB when it is told
  (`account_history_rocksdb_plugin.cpp:1401`), and no undo takes that back. The
  run: a switch to a longer fork ends at a block that throws late, the old branch
  is restored, and the announced block is not on it.

The models led to more observations, which no run of their own shows:

* `undo()` puts old values back before it erases new objects, so it throws,
  and leaves the rest of the session's changes, when a unique key moved from a
  modified object to a new one (`chainbase.hpp:413`; the comment at line 405 knows
  no exception). `UndoSafe` states the restriction under which it does not,
  and `UndoRestores` says nothing of an undo that throws.
  `squash()` of a single undo state leaves the revision as it is, while
  `squash()` of two lowers it.
* `push_block` does not unwind when a longer fork leaves the chain below the
  committed block: `pop_block` throws outside of the try block
  (`database.cpp:830`) and the uncommitted blocks are gone; the comment at line
  735 says every partial change is unwound.
* `fetch_block_on_main_branch_by_number` takes the only block of a number
  without looking at its branch (`fork_database.cpp:228`), so that a block of
  another fork can be written to the log after the chain's own was removed. That
  takes a block delivered again after a block above it has failed.
* `reindex()` ignores checkpoints when it checks the undo history limit
  (`database.cpp:265`), so that a chain that needed one cannot be replayed past
  that block; `ReplaySucceeds` has the exception in its formula, and the run
  `chain_valid` reaches it.
* The restorer may leave pending transactions without a session
  (`db_with.hpp:118`), which `clear_pending()` asserts against in debug builds
  (`database.cpp:979`).
* With stop-at-block, `post_block` turns `running` false on the write thread
  itself (`chain_plugin.cpp:317`), while callers still run; requests behind that
  block are never answered, and a shutdown that waits for their callers does not
  end.
* `construct_index` of a log of one block writes nothing: the position of the
  last block is 0 and the loop runs while `pos < end_pos` (`block_log.cpp:351`),
  although `block_log.hpp:32` says that the index can be reconstructed.
  `IndexExact` leaves that log out. The comment at `block_log.cpp:135` speaks of a
  replay from the index's head; the whole index is rebuilt.
* Shares of the null account that are worth no freezone are taken from the total
  (`database.cpp:1443`) and left on the account (1459), in every block again, so
  that the equality which `validate_invariants` asserts (5426) fails. Two steps get
  there: one freezone is vested to the null account and buys a share that is
  worth less than one freezone, and a block ends. Should such shares ever be more
  than what is left of the total, the total is negative and the next use of the
  share price fails an assertion (`asset.cpp:341`); it is only because of that
  assertion that nobody's shares become negative.
* With fewer signing keys than places, the assertion at
  `witness_schedule.cpp:243` fails and no block can be applied.
* Peer-to-peer (`node.cpp`): (1) the branch of `process_backlog_of_sync_blocks` for
  a block that was accepted meanwhile ends the loop that its comment says is
  started again (3403), and leaves the block where it is; blocks behind it wait
  for another trigger. (2) A normal block that arrives in sync mode triggers only
  `fetch_items_loop` (3613), so ids left in `ids_of_items_to_get` wait for another
  trigger. (3) A new request for ids overwrites the synopsis of one that is
  unanswered; the old answer is held against the new synopsis and an honest peer
  may be dropped. (4) A node with an empty chain takes a list of one block that
  it knows for being up to date, while the peer thinks otherwise. (5) The test for
  a stalled peer (1455, "a state we should never get into") also holds while the
  last blocks of a sync are being processed. Because of (1) and (2) `RestsInSync`
  allows rest with ids left to get. The stall test does not end such a rest: it
  asks for an empty list (1456). A new block or another peer does.

## 6. Not modelled

* Rewards of comments and curation, SBD interest, the print rate, the treasury
  and worker proposals, account creation and recovery, authorities, custom
  operations, feeds (a median is an input of `Ledger`). Most of it is wide fixed
  point arithmetic without a sequence to get wrong; what a small model could
  keep of it would not be what the code computes.
* Tokens and automated actions: rules of hardfork 23, which is in force on the
  test net only.
* Hardforks: the models have the rules after hardfork 22.
* Resource credits: a plugin's accounting beside the consensus state.
* In `PeerSync`: handshakes, the peer database, firewall checks, transactions,
  expiry of inventory and of the request to fetch, hard fork disconnects,
  `inhibit_fetching_sync_blocks` (set for invalid blocks, and at 2882 for a block
  that a peer does not have), the plausibility check of the number of blocks, a last irreversible block that moves, and the
  synchronization of the peers themselves. `on_item_not_available_message`
  (2860-2893) is left out: a peer that runs this code does not send that message
  for a block, since its `get_item` fails an assertion instead. Should one come
  for a block of the synchronization, the handler takes the request off the
  peer (2879) and leaves it in `_active_sync_requests`, which `RequestsLive` would
  not allow.
* In `WitnessSchedule`: the shuffle, median properties, version votes, slots.
* MIRA: a storage adapter; the undo index is modelled on chainbase's own.
* APIs, wallet, command line, serialization, fc, the word list for keys
  (`words.cpp`), vendored compression: no protocol state. They are most of the
  repository's lines: what is modelled is a small part of the whole, and a large
  part of the files that hold the protocol's control (`chainbase.hpp`,
  `fork_database.cpp`, `block_log.cpp`, `db_with.hpp`, the write thread, block
  application in `database.cpp`, synchronization in `node.cpp`).

## 7. Plan

Done, in the order of importance: the undo index (every rollback rests on it),
the chain with forks, crashes and replay, the pending transactions and block
production; then the write queue with locks and shutdown, the files of the block
log, the ledger with the market, vesting and votes, the witness schedule, and
the synchronization with peers. Proved: all safety properties of the passing runs on
the undo index, the chain (but for `ReplaySucceeds`), the pool, the write queue, the block log, the witness
schedule and the ledger, and two of the three on synchronization. What is left
of the proofs:

1. `Vesting`: `SharesMatch` first, then `Backed` account by account. The sums are
   those of `Ledger_proofs`; the folds over routes and due accounts would be
   stated as recursive functions, as the loops of `Ledger` and `PeerSync` are.
2. `RestsInSync`, if at all.

Modelling that would come after that: hardfork votes and slots, worker proposals
with their bounded removal, account recovery.
