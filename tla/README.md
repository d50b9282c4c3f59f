# A TLA+ model of gamebankd

`gamebankd` is a witness-scheduled blockchain node in C++.  This project models
the part of it that decides which state the node is in: the undo buffer under
the state, the log of irreversible blocks, recovery after a stop or a crash,
fork switching and irreversibility, the money, shares and votes in the state,
transactions on their way into blocks, whose turn it is to produce, how a node
catches up with its peers, and the threads that carry all this to the one
thread that writes.  TLC checks the modules on small instances; TLAPS proves
for every size what is said of the undo buffer, the block log, recovery, the
threads, the ledger, shares and votes, transactions and the production of blocks.

## The system

| Part | Source (under `src/libraries/`) | State | Operations |
|---|---|---|---|
| undo index | `chainbase/include/chainbase/chainbase.hpp` | objects, `_next_id`, `_stack` of undo states, `_revision` | create, modify, remove, open/undo/squash/commit a session |
| chainbase database | the same, `chainbase/src/chainbase.cpp` | all indexes in a mapped file, read-write locks | the same over every index, open, flush, wipe |
| block log, contract log | `chain/block_log.cpp`, `chain/contract_log.cpp` | a data file and a position index, each behind a stream buffer | open, append, flush, look up, rebuild the index |
| fork database | `chain/fork_database.cpp` | blocks by id and number, `_head`, `_max_size` | push, pop, remove, find two branches, prune |
| chain database | `chain/database.cpp`, `chain/include/.../db_with.hpp` | head, last irreversible block, confirmations, pending transactions | push a block, switch forks, confirm, commit and log, generate, open, reindex |
| evaluators, contracts | `chain/gamebank_evaluator.cpp`, `chain/contract_*.cpp` | accounts, balances, orders, contracts | one per operation type |
| witness schedule | `chain/witness_schedule.cpp` | the shuffled witnesses, median properties | once per round |
| chain plugin | `plugins/chain` | the write queue and the write thread | accept block, confirm message, transaction; generate; start and stop |
| p2p plugin, network node | `plugins/p2p`, `net` | peers, inventory, what is being fetched; one thread | handle messages, synchronise, broadcast, shut down |
| web server, JSON-RPC, APIs | `plugins/webserver`, `plugins/json_rpc`, `plugins/apis` | a pool of threads | queries, broadcasts |
| witness plugin | `plugins/witness` | production timer, account bandwidth | produce a block |
| state-tracking plugins | `plugins/account_history`, `market_history`, `follow`, `tags`, ... | indexes derived from operations | on each operation or block |
| application | `appbase` | plugins in start order | initialise, start, run, shut down in reverse |
| protocol, wallet, programs | `protocol`, `wallet`, `../programs` | - | data types, validation, a client, `main` |

How they meet: every write (a peer's block, confirm message or transaction, a
web client's broadcast, a block to be produced) is queued to the write thread
and its caller blocks on a promise.  The write thread calls the chain database,
which asks the fork database which chain is longest, opens one undo session per
block, applies it, recomputes the last irreversible block, commits the sessions
up to it, appends the blocks to the logs and tells the plugins.  The p2p plugin
answers that with a confirm message to its peers.  On a restart all sessions
are undone, the state is compared with the block log and, if they disagree,
rebuilt from it.

What is hard about it:

* an undo buffer of differences that must survive any mixture of nested
  sessions, merges and commits;
* three things on disk (mapped indexes, block log, contract log), written one
  after the other and index by index, with a crash anywhere between;
* a fork switch of several blocks, each of which may throw, over a fork
  database whose head moves on its own, while the commit cannot be taken back;
* votes for irreversibility that come in blocks and in messages that overtake
  them;
* threads that wait for each other: the write thread, the node's thread, the
  web pool and the main thread, and a shutdown that stops them in an order the
  configuration chooses;
* running totals (supply, votes, delegated shares, open requests) that many
  operations and the settlement of each block change piece by piece, with
  rounding;
* transactions that are taken back, tried again, expire and come twice;
* a producing task that reads the schedule without a lock while it changes;
* a synchronisation with several peers at once, in which connections end, peers
  change forks and answers cross.

`PROJECT.json` lists every component, and under `hazards` each place in the code
where one of these bites, with the properties that watch it.

## The modules

| Module | Models | Checked by |
|---|---|---|
| `SnapshotStack` | abstract: what sessions promise, a stack of whole copies | (refined by `UndoIndex`) |
| `UndoIndex` | `generic_index` and its undo states | `MCUndoIndex` |
| `UndoIndexProofs` | theorems about `UndoIndex` | tlapm |
| `BlockLog` | `block_log`; with a later first block, `contract_log`'s data file | `MCBlockLog` |
| `BlockLogProofs` | theorems about `BlockLog` | tlapm |
| `StateRecovery` | the indexes, both logs, `open`, `reindex`, chain plugin startup, crashes | `MCStateRecovery` |
| `StateRecoveryProofs` | theorems about `StateRecovery` | tlapm |
| `ChainDatabase` | `database` and `fork_database`: blocks, forks, irreversibility, the pending session | `MCChainDatabase` |
| `NodeThreads` | write queue, node thread, web pool, main thread, startup and shutdown | `MCNodeThreads` |
| `NodeThreadsProofs` | theorems about `NodeThreads` | tlapm |
| `Accounts`, `Savings`, `Escrow`, `Market`, `Crowdfunding` | balances and the evaluators that move GBC and GBD, one service each | (composed by `Ledger`) |
| `Ledger` | all of them together, with the settlement of a block | `MCLedger` |
| `LedgerProofs` | theorems about `Ledger` and the evaluators it composes | tlapm |
| `WitnessVotes` | votes, proxies, declined voting rights, the running tallies | (extended by `Vesting`) |
| `Vesting` | shares: bought, withdrawn, routed, delegated, rewarded | `MCVesting` |
| `VestingProofs` | theorems about `WitnessVotes` and `Vesting` | tlapm |
| `TransactionPool` | pending and popped transactions, duplicates, expiry, block assembly, fork switches | (extended by `SyncBroadcast`) |
| `SyncBroadcast` | `broadcast_transaction_synchronous` on top of the pool | `MCSyncBroadcast` |
| `SyncBroadcastProofs` | theorems about `TransactionPool` and `SyncBroadcast` | tlapm |
| `WitnessSchedule` | slots, rounds, virtual time, missed slots, hardfork votes, as functions of a chain state | (extended by `Production`) |
| `Production` | blocks on the schedule and the unlocked reads of the witness plugin | `MCProduction` |
| `ProductionProofs` | theorems about `WitnessSchedule` and `Production` | tlapm |
| `Synopsis` | the numbers a synopsis names | (used by the next two) |
| `SyncAnswers` | what the p2p plugin tells peers of the chain of `ChainDatabase` | `MCChainDatabase` |
| `BlockSync` | the network node fetching blocks from several peers | `MCBlockSync` |

They stack: `UndoIndex` justifies the saved whole states of `StateRecovery` and
`ChainDatabase`; `BlockLog` justifies that a log is a sequence whose flushed part
survives, which is how `StateRecovery` and `ChainDatabase` use it; and
`ChainDatabase` takes one call at a time, which the single write thread of
`NodeThreads` justifies.  `TransactionPool`, `Ledger`, `Vesting` and `Production`
look into what `ChainDatabase` treats as one state; each relies on `UndoIndex` for
the states a fork switch goes back to.  `SyncAnswers` is evaluated on the states of
`ChainDatabase`; `BlockSync` uses the answers it describes.  `PROJECT.json` maps
each definition to its lines.

**UndoIndex.**  An object is a unique key and other data.  `stack` is `_stack`
with `old_values`, `new_ids`, `removed_values`, `old_next_id` and the revision;
one action per public operation.  `snaps` is a history variable with the copies
the abstract specification keeps.  Modifiers do not assign the unique key.

**BlockLog.**  A position is the number of the entry at it.  Both files are
buffered; `crash` loses any part of either buffer and may leave a torn entry;
`open` is the whole function with its comparison of last positions.  The switch
of a stream from writing to reading closes it, which writes its buffer out.

**StateRecovery.**  One chain, so an index is the height it reflects.  Each loop
of `chainbase::database` over its indexes is one step per index and the process
may die at every program point in `CrashAt`.  Which block becomes irreversible
is a choice bounded by `LibLag`.  A replay without blocks in the log throws, and so
does the second `open()` of its handler (`resync_throws`): the process ends.

**ChainDatabase.**  The blocks are a constant tree with producers, one of several
(`world`); which of them apply, which confirm messages overtake their block and which blocks are
delivered twice are constants too.  A session saves the whole state.  `pc` is the
place in `_push_block()`: each popped, applied and restored block is one step, so
each exception happens where it does in the code.  `pop_block` moves the fork
database's head along its own branch, as the code does.  Transactions are one
bit, whether the pending session is open; blocks enter an empty fork database in
order (`InOrder`, the one assumption on the network).

**NodeThreads.**  `call` says where each caller is, `writer` where the write
thread is, `tasks` what has been posted to the node's thread.  The node's thread
takes a task only when no handler holds it: handlers are called directly on it
and block it.  A null node that is dereferenced sets `crashed`, which ends the
process.  `Order` is the order of initialisation; `use` is chosen once, at the
start: what web clients and peers send and whether a witness is configured.

**Ledger.**  An evaluator is an action, its `FC_ASSERT`s are guards (a failed one
undoes the whole operation).  Time is a block number; `NextBlock` runs the
settlements in `_apply_block()`'s order: expired orders, the null account,
conversions, savings, campaigns, escrows.  `Market` keeps the rounding of
`asset * price`, the matching loop of `apply_order()` (a recursive function over its
rounds: `Best` is the order on top of the book, `Round` one pass) and the
cancelling of remainders worth nothing.  GBD interest is 0 (a witness
parameter).  `use` chooses which services a behaviour combines.

**Vesting, WitnessVotes.**  The chain never counts votes: it adds each change of a
stake along the chain of proxies.  `tally` is these totals; `VotesTallied` compares
them with a count from scratch.  A withdrawal is two passes over the routes, as in
`process_vesting_withdrawals()`, then the rest.  Its loops, and the one over declined
rights, are functions of the set of routes, accounts or requests dealt with so far:
the last of a set, in the order of the code's index, comes after the others.
`expirations` adds up the delegations of an account that end on one date, because
`clear_expired_delegations()` only ever takes them together.  The minimum delegation, which the
code derives from the account creation fee, is a constant; content rewards are left
out of `process_funds()`.

**TransactionPool, SyncBroadcast.**  A transaction needs others or spends a coin
another one spends too, which is what makes it fail later.  The pool keeps each
reversible block with the state it led to.  `Restored` is the destructor of
`pending_transactions_restorer`: first what was popped, then what was pending, each
tried anew.  A client of `SyncBroadcast` goes through registration, acceptance,
the removal of its callback on an exception, and waiting; the critical sections
under `_mtx` are steps.

**WitnessSchedule, Production.**  A round is elected from the votes and from virtual
time, which is as wide as the largest lap, so that it overflows as in the code.
The clock counts half seconds: the timer is set to the next whole second, fires then or
later, and the call rounds to the nearest second, so two calls can have the same
`now`.  `maybe_produce_block()` is one step for each read the write thread can come
between, its assertion included; `_generate_block()` repeats its checks under the
lock.  The shuffle is any permutation.  A `confirm_block` that comes before its block sets
`last_confirmed_block_num`; `Orderly` makes its block the next one, and allows neither
a second early message before it nor a fork switch to below a block that was
confirmed early.

**SyncAnswers.**  `get_block_ids()`, `get_blockchain_synopsis()` and the look-ups under
them, evaluated on every state of `ChainDatabase` between two pushes, for every
reference, every number of blocks after it (which widens the steps of the synopsis,
so that it may stop short of the reference) and every peer that could ask.  Exceptions are answers of their own.

**BlockSync.**  A connection is the record of the fields of `peer_connection`, with
the requests under way in `out`.  The message handlers, the fetch loop, the pass
over the backlog, the tasks that call the delegate and the loop that ends inactive
connections are one action each: they share a thread and give it up only at their
ends.  The order in which blocks wait in the backlog is a choice, and so is whether a
peer still needs items from this node (`peer_needs_sync_items_from_us`).  A peer answers
from the chain it has when the answer arrives.  A bad block is refused when its
chain becomes the longest; on a shorter one it only enters the fork database.
`world` is the setting: which peers there are, what they have, and the limits.

## The runs

| Run | Expect | What it shows |
|---|---|---|
| `undo_index` | pass | undo is always defined and exact at every depth; revisions are consecutive; `UndoIndex` implements `SnapshotStack` |
| `block_log` | pass | the log stays consecutive, flushed blocks survive, every lookup finds its block, the index is complete (one-block logs apart) |
| `recovery` | pass | after up to three crashes what serves is one whole state that cannot be undone behind the log, and the node does serve again |
| `chain_forks` | pass | two forks in every order of delivery across the start of voting, with bad blocks, second deliveries, confirm messages and restarts; the answers to peers on the way are of one chain and can be followed. In a second world a partition heals and every block may come again: a switch that breaks off half way still returns, stack and log still agree with the state |
| `threads` | pass | a producing node with web clients, and one with peers that send transactions and confirm messages; a shutdown at any moment |
| `threads_block` | violation | applying a peer's block deadlocks the write thread and the node's thread |
| `ledger` | pass | no money appears or disappears, the book never stays crossed, nobody trades below the own limit, escrows end as ratified, the savings limit counts what there is |
| `ledger_audit` | violation | the sum of `validate_invariants()` is not the supply while a campaign holds money |
| `vesting` | pass | every tally is what a count of votes would give, shares keep their value and their sum, what is delegated is backed, withdrawals pay exactly their amount |
| `transactions` | pass | what is pending applies, nothing is applied twice or lost while it could be applied, no callback outlives its promise, every synchronous call returns |
| `production` | pass | laps, slots and hardfork votes are counted right, only idle witnesses are shut down, a node's own blocks apply, and it signs a second one for the same time only within half a second, after the first was refused or taken back |
| `block_sync` | pass | blocks reach the delegate in order, no request is lost with a connection, no honest answer is an offence; the sync ends with every block if each is fetched once and before its connection ends, and otherwise ends or stalls with a block at hand |

The violations are disagreements between the code and a comment or an assertion of the
repository; `findings` in `PROJECT.json` quotes both.  The properties of the passing runs each
have a mutant of a modelled function that breaks them.

A property whose name ends in `Sound` (`LogSound`, `StateSound`, `ChainSound`,
`AnswersSound`, `QueueSound`, `LedgerSound`, `VotesSound`, `SharesSound`,
`PoolSound`, `ScheduleSound`, `RequestsSound`) is the conjunction of named parts
that stand just above it in its module, as a rule the type invariant and the
invariants about the same state. The text below refers to the parts by their own
names; each part that says more than a type has a mutant of its own in
`PROJECT.json`.

### Cases the runs leave out

The passing runs state what holds, so they stay away from cases in which the
code is known not to keep a promise:

* `undo_index`: a modifier that assigns a unique key.  If the session then creates
  an object with the old key, `undo()` writes the old value back while the new
  object is still there and throws half-way (`chainbase.hpp:328`).  The chain
  library's modifiers leave unique keys alone.
* `undo_index` includes `squash()` of the only session, which returns before it
  lowers the revision (`chainbase.hpp:359`, against the comment at `:352`);
  `RevisionsConsecutive` holds all the same, because no session is open then.
* `block_log`: `IndexComplete` names its own exception.  `construct_index()` loops
  while `pos < end_pos`, and in a log of one block both are 0 (`block_log.cpp:409`).
  Exceptions of the streams: the constructor turns them on (`block_log.cpp:94`), but
  `close()` replaces the implementation by one whose streams do not throw
  (`block_log.cpp:197`); the model has no failing reads or writes.  Which mode a
  stream is in is not a variable: every use of it sets the mode first.
* `recovery`: crashes between `wipe()` and the end of the first replayed block (the
  next `open()` accepts the genesis state it finds, `database.cpp:138`) and inside
  `set_revision()` (`open()` compares the revision of the first index only).
  `MCStateRecovery` removes these two windows from `CrashAt`.  `stop_replay_at`, which
  ends a replay below the head of the log (`database.cpp:209`).  "Having to resync
  from network" (`chain_plugin.cpp:574`) does not happen: `reindex()` has already
  opened the database, the second `open()` throws "type_id is already in use"
  (`chainbase.hpp:1059`) and the process ends.  The model has that; `EventuallyServes`
  holds because the next start finds a genesis state and takes it.
* `chain_forks`: confirm messages that overtake a block whose sibling is applied
  instead: `update_confirm_witness()` counts them by height (`database.cpp:3772`),
  for the sibling as well, which is then logged with fewer than 75 % of the
  witnesses behind it.  And second deliveries of `m2` to `m4`: `remove()` of a
  block refused on the head leaves `_head` pointing at it, so `_push_block()` takes
  the next block for one on the head; if that is `m2` again, it does not apply and
  is removed from the fork database, and its sibling `f2`, alone at its number, is
  what reaches the log (`database.cpp:840`, `fork_database.cpp:275`).
* `recovery`, contract log: the two logs are flushed one after the other.  After a
  crash in between, the contract log lacks contracts of blocks the block log has,
  nothing repairs it (`wipe()` leaves it alone), and each later `append()` fails its
  assertion "Append to index file occuring at wrong position."
  (`contract_log.cpp:245`) and with it the block.  The model contains this
  (`ContractFits`); the properties of the run are about the state that serves.
* `chain_forks`, second world: `pop_block()` also pops the fork database's `_head`, which is already
  on the new branch.  When the new branch makes a number with two blocks
  irreversible during the switch, `commit()` has run before the look-up from that
  lagging `_head` throws (`database.cpp:3865`): the switch ends with the state on the
  new branch, "every partial change is unwound" (`database.cpp:662`) does not hold.
  `FailedPushKeepsHead` admits it in the worlds that `Partitions` names, and in no other.
  An exception after `update_last_irreversible_block()` in the same block, when the
  log is already written (`database.cpp:3129` to `:3169`: payouts, schedule, hardforks,
  notifications), is not among those of `ApplyThrows`.
* `chain_forks`: with the same lagging `_head`, a late block of the abandoned fork
  becomes `_head`, and a confirm message that then advances irreversibility logs the
  abandoned fork (`database.cpp:3864`).
* `chain_forks`, answers to peers: a block that came twice, was refused and so removed
  (`database.cpp:840`) cannot be served (`Dropped`).  A reference that is known, but on
  a fork already pruned, makes `fetch_branch_from()` assert, where `node.cpp:2482`
  catches only `block_older_than_undo_history`.
* `threads`: peers' blocks next to anything, and peers' transactions next to blocks
  of the node's own or of web clients.  `threads_block` is the shortest way into
  that deadlock; a peer's transaction queued while the node applies a block ends
  the same way.  That is why one use in `Undisturbed` has silent peers and the
  other applies no block.
* `threads`: another order of plugins.  `webserver_plugin` requires only `json_rpc`,
  so "plugin = webserver p2p json_rpc witness ..."
  (`config-examples/fullnode.config.ini:12`) starts it before the chain and stops it
  after: a web thread that queued a write waits forever, and `join_all()` with it.
  And `Replay`: a reindex at startup calls the p2p plugin's post-apply handler,
  connected in `plugin_initialize()`, before `plugin_startup()` creates the node
  (`p2p_plugin.cpp:687`).  The reindex of `StateRecovery` is one without it.
* `ledger`: `process_crowdfunding()` stops at
  the first campaign that is settled (`database.cpp:2174`), which stays at the front of
  the index: no later campaign is settled.  The model does the same; no money is
  lost by it, but it stays where it is.
* `vesting`: shares that are routed to an account as shares arrive before the
  sender's votes are lowered (`database.cpp:1654`, `:1720`).  If the witness has all
  shares behind it, the assertion at `:1452` fails, and with it every block.  The
  stakes of `MCVesting` leave a share that does not vote.  The cancel branch of
  `withdraw_vesting` is dead (validation refuses 0).
  Liquid and vested rewards that are claimed (`claim_reward_balance`) are left out.
  `SharesKeepValue` says nothing of a block that finds all shares with the null
  account: burning them empties the fund, and the next purchase sets a new price.
* `transactions`: two clients that send the same transaction.  The second call is
  refused while a callback is registered (`condenser_api.cpp:1842`).  If a block from
  elsewhere has used the first one's callback before the write thread got to its
  request, the second can register, and the exception of the first, whose
  transaction is now a duplicate, erases the second one's callback
  (`condenser_api.cpp:1868`).  Should the second be accepted all the same, because one
  fork switch dropped the transaction and another one made it valid again, it waits
  until the end.  No callback is left dangling even then: `PromisesAlwaysAlive` is
  proved for any `Sent`.  A client that was told "confirmed" may be overtaken by a
  fork switch, which the API does not promise to report.  Expiration is checked at every
  head; at block 0 the code does not (`database.cpp:3392`), but the empty `chain` stands
  for an irreversible head and not for block 0.  Accepting and the broadcast after it may throw separately
  (`condenser_api.cpp:1859`); for the callback both end in the same handler.
* `production`: a confirm message that overtakes more than one block makes
  `head_block_num() - last_confirmed_block_num` wrap around (`database.cpp:3668`), and
  a witness that is ahead is shut down as idle; so does a fork switch that goes back
  to before a block confirmed early.  `Orderly = TRUE` leaves both out.
  When so many witnesses have a null key that a round cannot be filled, the
  assertion of `witness_schedule.cpp:192` fails every block from then on, the
  node's own included; `OwnBlocksApply` names this one exception.
  A second signature for one time is possible, and the run reaches it: a call at
  x.5 s rounds up and signs, a fork switch takes the block back, and the call
  at the next whole second has the same `now` and finds the slot open.
  `SignsAgainOnlyAtOnce` says that there is no other way.  The clock is assumed not to
  go back.  "this assert should not fail" (`witness_plugin.cpp:626`): it can, when a
  block arrives after the slot was read (`AssertTime`); a debug build aborts.
  `witness_update` is a null key only; other keys and properties decide nothing here.
  The chain is that of a binary that knows the hardfork; one that does not throws
  `unknown_hardfork_exception` at its time (`database.cpp:4489`) and stops following.
* `block_sync`: a peer that never sends the blocks it was asked for.  The loop that
  should disconnect it executes `break` (`node.cpp:1418`) and so leaves the loop over
  all peers, against "before we give up and ask another peer for the item"
  (`node.cpp:1386`); with `Ignores = {"blocks"}` for one peer `SyncCompletes` fails, with
  `{"ids"}` it holds (world `deaf`).
* `block_sync`, the stall.  Two things leave a block in `_received_sync_items` with nobody
  who would look at it (`LeftBehind`).  A block that is being processed can be offered
  and asked for again, by a second peer or by a list that was drained while more ids
  were on their way; when it arrives it is skipped as accepted, and the pass ends,
  although the comment says "start iterating _received_sync_items from the beginning"
  (`node.cpp:3419`): `block_processed_this_iteration` is false.  And when a connection
  ends, blocks it has delivered stay; after it is back they are on the new list,
  nobody asks for them because they are here, and a list of ids starts no pass.
  In both cases the sync stands still until some other block arrives, by broadcast,
  which is not modelled.  The strict property, without `LeftBehind`, fails in every
  world but `deaf`.  `SyncCompletes` says that these two are the only causes.
* `block_sync`: the assertion of `node.cpp:2674` fails when a peer changes forks
  while its list is under way and another peer's delivery has moved the first
  block of the list into processing; it needs `minPrefetch` of 2 and two peers, and the
  worlds with two peers have 1.  `grow` and `again` have 4 with two ids to an answer
  and one peer, so that asking for more ids after a block (`node.cpp:3660`) is how they
  go on, as in the code with its 10000 and 2000.  With two peers there `RequestsSound` fails.
  In the code a list is hardly ever drained meanwhile, since 10000 is far above what
  is prefetched (2000).
  `Connect` waits until the tasks at hand are done, which outgoing connections with
  their 30 seconds do in practice; a peer that connects to this node may come at any moment.
  "This is a state we should never get into" (`node.cpp:1462`) is reached whenever the
  last blocks of a list are being processed: a healthy peer is disconnected, and
  the sync goes on after it has come back.  Forks at block 1 with nothing
  irreversible are never reconciled: the synopsis begins with block 1, and the peer
  answers with an empty list, which is also the answer of a peer in sync.

### Bounds

* `undo_index`: three ids, two keys, three nested sessions.  A fault of the merge
  tables needs one object, two sessions and one operation in each; a key conflict
  needs two objects; one more of each leaves room for their combinations.
* `block_log`: six blocks, first block 1 or 3.  `open` distinguishes empty, one
  and more entries, and an index shorter than, as long as or longer than the log.
* `recovery`: three indexes (a first, a middle, a last), heights to 4, three
  crashes (one in normal work, one in the recovery from it, one in the next).
* `chain_forks`: four witnesses, so that 75 % is three and the offset is one; trees
  of eight to ten blocks with two forks of which each is the longer one for a
  while, and a bad block at the end of a branch and in its middle.  The run
  starts voting at block 3 and finalises at depth 1 before it, so that both
  rules of irreversibility and the change between them happen.
* `threads`: two web threads and four writes in all: a batch of the write
  thread, one queued behind it and one that comes during the shutdown.
* `ledger`: three accounts and the null account, three blocks, amounts to 3.  Prices
  2:1 and 3:2 are the smallest with remainders; three orders make a match that goes
  past one and stops in another.  Services are combined where they touch the same
  objects: a behaviour has one of five uses.
* `vesting`: four accounts and the null account, proxies up to depth 2 (so that a
  chain can be too long), withdrawals in two instalments of an odd amount, routes
  of a half, three blocks.
* `transactions`: three transactions of which one needs another and two exclude each
  other, blocks of one transaction, one fork switch that takes back one block.
* `production`: four witnesses, rounds of two voted and one runner, six blocks of
  others within seven block intervals (two rounds and the change to a third), at most
  three slots from one block to the next, a head at most a second ahead of the
  node's last call (`Skew`), a lap of 31 so that virtual time
  overflows, a window of four slots, one event: a change of votes,
  a resignation, a fork switch or an early confirm message.
* `block_sync`: ten blocks in three branches, two peers or one, lists of two ids, one or
  two blocks per request and two at one time, one connection that breaks or one peer
  that gets blocks or changes forks.

The proofs remove the bounds of `undo_index`, `block_log`, `recovery`, `threads`,
`ledger`, `vesting`, `transactions` and `production` for the invariants they state.

`CHECK_DEADLOCK FALSE` stands where a system may stop: the block log reaches its
last number, the block tree is used up, the process has exited, time has reached
its bound, every block has been fetched.  `undo_index` and
`recovery` are checked for deadlock.

### Fairness

* `StateRecovery`: weak fairness of the startup steps, the start of a process that has
  ended among them (whoever runs the node does that).  `plugin_startup()` is
  sequential code without waits; nothing is assumed of blocks, stops or crashes.
* `ChainDatabase`: weak fairness of the steps inside `push_block()`, for the same
  reason; nothing is assumed about deliveries.
* `NodeThreads`: weak fairness per thread.  Each of the four kinds is an operating
  system thread that runs when it can; requests and the signal are not fair.  A
  read lock that is not obtained times out after a second (`with_read_lock`), so
  its waiting also ends.
* `SyncBroadcast`: weak fairness of each client's own steps, and of `Produce`: as long
  as there is time left some witness produces.  Blocks of others and fork switches
  are not fair.
* `BlockSync`: weak fairness of the node's tasks, of messages under way (TCP delivers
  them or the connection ends) and of the end of a connection; strong fairness of
  `Connect`, because a connection that may be tried again is tried every 30 seconds,
  while tasks come and go.  It assumes that `handle_block()` returns, which
  `threads_block` shows is not so with the p2p plugin's own broadcast.

## Proofs

Each proof module states, above its lemmas, the inductive invariant the theorems
need; the theorems at its end say what follows from it.  Unless a hypothesis is
named they hold for every value of the constants that satisfies the assumptions
of the modules.  TLC checked each inductive invariant on the instance of the run
before it was proved.

**Undo index.**  `UndoIndexProofs` proves of `UndoIndex`, for every set of keys and data and all
bounds, from `MaxIdAssumption` (`MaxId \in Nat`) and `AbsentAssumption` (the mark
for "no object" is no value):

* `TypeCorrect`: `Spec => []TypeOK`;
* `UndoNeverFails`: undo never meets a missing object or a taken key;
* `UndoAlwaysRestores`: at every depth undo gives back the contents and the next
  id of the moment its session was opened;
* `RevisionsStayConsecutive`;
* `SquashAssertsHold`: the combinations `squash()` would have to report are not
  reachable;
* `Refinement`: `Spec => Snapshots!Spec`, the buffer of differences implements the
  stack of copies.

The property that undo restores is not inductive: that one state of the buffer is
undone exactly says nothing about two merged ones.  `IInv` says for every level
`n` that undo state `n` *describes* the difference between the contents when
session `n` opened and when the next one did (or now): per id, whether it was
created, modified or removed and what was there first (`Describes`), that
contents have unique keys and no id at or above the next one (`Sound`), and that
revisions are consecutive.  Three facts then carry everything: a described state
is undone exactly and without conflict (`RestoreDescribed`,
`DescribedUndoDefined`), each write keeps the top state described, and merging two
described states describes the sum, with one case per pair of what the two
sessions did to an id.  TLC checks the same invariants first.

**Block log.**  `BlockLogProofs`, for every number of blocks and any set of first
blocks: `LogAlwaysSound`, `LookupsAlwaysRight` and `FlushedAlwaysSurvives` (an action
property).  `IInv` says that entry `k` has the number `first + k - 1`
(`NumbersCount`), that the index is a list of the first positions, whatever part
of it a crash has left (`IndexIsPositions`), and that `head` and the cached first
number are those of the log while it is open (`HeadRight`, `StartRight`).  A lookup is
right because the position at which the index answers and the number of the entry
at that position are then the same sum.

**Recovery.**  `StateRecoveryProofs`, for any number of indexes, heights and crashes:
`StateAlwaysSound` and `LoggedAlwaysCommitted`.  Hypothesis `WindowsAvoided`: no crash
between `wipe()` and the first replayed block or inside `set_revision()`, the two
windows named above in which the code does not keep the promise; every other
program point may be in `CrashAt`.  A whole state rests on a height `b`: each
index's undo states save the heights from `b` up to its revision.  `Phase(b)` says
for each point of `_push_block()` and `close()` how far the loop over the indexes has
come; `Recoverable` says what is left when the process dies there: either
each index can be undone to a height not below the log, and they differ only if
the first one, which `open()` looks at, is above the log (`Torn`), or they stem from
a replay that broke off and the first one's revision is not its height
(`Replayed`).  In both cases the check of `open()` tells a whole state from one that
has to be rebuilt; `Replaying` is the invariant of that loop.

**Threads.**  `NodeThreadsProofs`, for any set of web threads and any number of
requests: `QueueAlwaysSound` if the chain plugin is initialised first
(`ChainFirst`), `NodeAlwaysOutlivesUse` in the default order of plugins and without
a replay at startup (`Default`).  "Cases the runs leave out" says what happens
otherwise.  `IInv`: a context is in the queue or with the write thread, not
both, and its caller waits (`Contexts`); a task on the node's thread is one whose
poster waits for it (`Tasks`); where the main thread is determines which plugins
run (`MainAt`, `Started`), and a plugin that was stopped left no call behind, so
that nobody can queue once the write thread is told to end (`Shutdown`).  `NodeOpen` adds that
calls exist only while the node does.

**Ledger.**  `LedgerProofs`, for every finite set of accounts and all amounts, terms,
prices and lifetimes, without a hypothesis: `LedgerAlwaysSound`, `BookNeverCrossed`,
`TradesAlwaysHonourLimits`.  `IInv`: the stores are finite, order numbers are unique
and no resting order is worth nothing, escrows and campaigns have their keys to
themselves, an investment belongs to a campaign and ends with it, and either no
campaign is settled and each has counted its investments, or the first one is
settled and no other will be (the early return of `process_crowdfunding()`).  The
supply is a sum of seven sums; the first part of the module is the theory of
`SumFunctionOnSet` this takes (one element more, one changed, a disjoint union), by
induction on the cardinality in the form of a smallest counterexample, since
induction principles with an operator parameter cannot be used.  Each settlement
of a block is then shown to move what one sum loses into another.  `apply_order()`
has a loop invariant of its own (`BookSound`): the orders not yet met are the only
ones the new order can still cross, and each round keeps the money together.  That a fill
honours both limits is arithmetic: `DivDown` and `MatchTrades` bound the rounding,
`RatiosChain` compares prices by cross-multiplication.

**Transactions.**  `SyncBroadcastProofs`, for any transactions with any needs,
conflicts and expirations, any block size, depth and number of fork switches, and any
clients, without a hypothesis: `PoolAlwaysSound`, `PromisesAlwaysAlive` and
`NothingEverLost` (an action property).  That what is pending applies is nearly
inductive; that nothing comes twice is not, because the index of known
transactions forgets.  `Remembers` says what the state of a chain still tells of
its blocks: what was applied is what popping them all gives, each once and after
what it needs, and what the index forgot has expired, so that it is refused for
that reason.  `Upright` says it of every prefix, since `pop_block()` gets back to
those.  The loop that pushes transactions again is dealt with once, in `TriedSays`:
what it took would be taken again as it stands, and what it refused stays refused
at the end of the list, if each transaction comes after those it needs.  For the
list of `pending_transactions_restorer` that is so because the popped transactions
come first, in the order of the chain; the proof does not go through in the
opposite order, which is the mutant `RestoredPendingFirst`.  `SyncInv`: a callback
belongs to a running call that sent this transaction and whose promise is unset.

**Shares and votes.**  `VestingProofs`, for every finite set of accounts, every depth of
the proxies, all amounts, periods and rewards, and any number of blocks, without a
hypothesis: `SharesAlwaysSound`, `VotesAlwaysSound`, `WithdrawalsAlwaysExact` and
`SharesAlwaysKeepValue` (an action property).  At first a share is worth one GBC;
the price is free from then on.  `IInv` adds to the properties what they rest on:
withdrawals have run in whole instalments (`InInstalments`), without which the
remainder `to_withdraw % rate` of the last one would not be what is left; an account's
routes share out 100 % at most (`RoutesInv`), so that the rest is never negative; an
account with a proxy has no votes of its own (`ProxiesSilent`); there is no share
without GBC behind it; the null account, whose stake is burned without a word to the
tallies, has neither proxy, votes, delegations nor a withdrawal (`Rights`,
`SharesInv`).

The argument about the tallies has three parts.  What lies `i` proxies below an
account (`Below`) changes, when one stake does, exactly at the accounts on its chain
(`TalliedStake`).  To take an account out of its chain is to subtract all that
lies below it (`TalliedCut`), and this leaves the chains of the account's own voters
as they were; to put it below another proxy is the same backwards (`TalliedLink`),
for which `NoLoop` must have excluded that the new proxy is among those voters.  And
where a chain ends within the depth, the sum passed on to the witnesses is what
its end gains in weight (`Shifted`).  That each share has one place in the tallies
follows from the recount (`AllAccounted`): it is counted at the end of its chain, or
where the chain gets too long.

During a withdrawal the shares routed on are counted twice until the sender's
votes go down, so the steps of a block keep `Good(st, extra, liquid)`, soundness but
for `extra` shares and `liquid` GBC under way.  The loops over routes, accounts and
requests are dealt with once: what a loop's step keeps holds after any part of the
loop (`FoldHolds`), and two loops that take the same steps give the same (`FoldSame`).
Sums are sums over finite sets, proved not to depend on the order from the
definition of `SumFunctionOnSet`; induction is on the cardinality, with a set of
numbers in place of an operator parameter (`Counting`).  The value of a share is
compared by cross-multiplication, from step to step (`ValueChain`).

The attempt showed that `SharesKeepValue` as it was first stated, for every step with
a share left, was too strong: the exception of the null account, which no behaviour
of the run meets, is now part of it.

**Production and schedule.**  `ProductionProofs`, for every set of witnesses,
votes, slots and events: `LapsAlwaysKept` and `AlwaysSignsAgainOnlyAtOnce` without a hypothesis;
`OwnBlocksAlwaysApply` if the node's own witnesses run a binary that knows the
hardfork (another binary refuses blocks after it, which is intended);
`ScheduleAlwaysSound` if early confirm messages are followed by their blocks
(`Orderly`).  `Inv` says of the state at the head and of the one before it, which a
fork switch goes back to, that both are sound: laps (`Laps`), the participation
count against the window (`Slots`), votes behind a hardfork (`Backed`), a round
without repetitions (`Round`); and of the producing task (`Producing`, `Signatures`) what its locals
are at each step, that what it signed was for the rounded time of the call, that later
calls come later, and that a block it signed is at the head's time or before unless it
was refused or a switch has come since.  `Idlers` adds that only
idle witnesses lost their key, and that nobody but the producer of the announced
block has confirmed ahead of the head.  The attempt to prove it showed that `Orderly` did not say what it
was meant to: with more than one event, two early messages, or a fork switch
after one, still led to the wrap-around.  The run, with one event, could not see
that; both are now part of `Orderly`.

Only model-checked:

* `ChainDatabase`, `SyncAnswers` and `BlockSync`;
* liveness under fairness, and whether an action is enabled, which the prover
  does not treat.

No module uses a RECURSIVE operator.

## Not modelled

Left out of the modelled components:

* evaluators for comments, rewards of content, account authorities, recovery, custom
  operations and nonfungible funds; `reclaim_account_creation_delegations()`;
* TaPoS and signatures of transactions, the size assertion of `_generate_block()`;
* of the schedule: miners (`GAMEBANK_MAX_MINER_WITNESSES` is 0), `total_missed`,
  `last_aslot`, the medians of the other properties;
* of the network node: broadcast inventory, hello, address and firewall messages,
  bandwidth, hard fork checks of peers, `item_not_available` (which leaves
  `_active_sync_requests` as it is, `node.cpp:2886`), the limit on the number of
  offered blocks; of `BlockSync`'s own chain, irreversibility;
* the rotation of write locks (`chainbase.hpp:1021`): what a reader sees of memory
  that is written at the same time has no useful abstraction here.

Whole components, with reasons in `PROJECT.json`: contracts (a contract is a Lua
program, the interpreter is vendored), protocol types, read-only APIs, JSON-RPC,
state-tracking plugins, statistics, wallet and programs: data conversion, derived
indexes and I/O.  `fc`, `rocksdb` and Lua are vendored.

## Plan

What is left is proofs, in this order:

1. `BlockSync`: `RequestsSound` and `InOrder` for any number of peers and blocks.
2. `ChainDatabase`: `LoggedIsBacked` and `StackIsChain`.  `ChainSound` and
   `FailedPushKeepsHead` are not true of all trees (Cases the runs leave out); a
   theorem needs a hypothesis that describes the trees of which they are.
