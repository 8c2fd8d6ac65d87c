# Verification of the taiyi node

TLA+ modules, TLC configurations and TLAPS proofs about the node of the taiyi
blockchain (`src/libraries`, `src/programs/taiyin`). The subject is the state a
node keeps, how it survives forks, refused blocks, concurrent requests, crashes
and restarts, who makes blocks and when they are final, how the blocks of peers are
fetched, and the book-keeping of qi. Paths below are relative to `src/libraries/`
unless they start with another directory.

Run a check with `tlc -workers 2 -config MCChainDatabase.cfg MCChainDatabase.tla`,
a proof with `tlapm ChainDatabaseProofs.tla`. PROJECT.json lists the components,
the runs with their properties, which lines of the code every definition stands
for, the mutants that show that each property can fail, the hazards and the
theorems.

## 1. The system

A node is one process. Its plugins (`appbase`, `plugins/*`) run on three kinds of
threads: the main thread (timers of the block producer), the p2p thread, and the
pool of the webserver. All of them read the chain state under a shared lock; all
writes go through one queue to one write thread of the chain plugin, which calls
`chain::database`. The database keeps the state in chainbase indexes, recent
blocks in a fork database and irreversible blocks in a block log.

```
 webserver threads   p2p thread   main thread (siming plugin)
        \                |                /
         +-- write_queue (chain plugin) -+          readers: with_read_lock
                         |
                   write thread  --with_write_lock-->  chain::database
                                                        |     |      |
                                              fork_database  state  block_log
                                                              |
                                            chainbase indexes with undo stacks
```

| component | state | operations | hard behaviour | what makes it correct |
|---|---|---|---|---|
| chainbase index (`chainbase/chainbase.hpp`) | objects, next id, stack of undo states (differences), revision | emplace, modify, remove; start, undo, squash, commit of sessions | differences are merged case by case; unique keys while old values are written back | undo brings back exactly what was there; nested sessions behave like a stack of copies |
| fork database (`chain/fork_database.cpp`) | recent blocks by id, weak parent pointers, head, size | push, pop, remove, set_head, set_max_size, branches of two heads, block by number | items that are forgotten while others point to them; head taken out of its own index | agrees with the state about the head; finds the block of the own branch |
| block acceptance (`chain/database.cpp`) | state, undo stack, last irreversible block | push_block with fork switch, pop_block, apply_block, migrate_irreversible_state, open, close, reindex | a switch that fails half way; a block that fails after it was migrated; a crash at any point | longest valid chain; what is in the log is never undone; state, log and undo stack fit together |
| block log (`chain/block_log.cpp`) | block file, index file, buffered streams, head | append, flush, read, open, close | both files cut anywhere by a crash, index stale or missing | index rebuilt right; flushed blocks survive; numbers and positions agree |
| write queue and shutdown (`plugins/chain/chain_plugin.cpp`, `appbase/application.cpp`) | queue of pointers to stacks of waiting threads, write thread, lock, plugins stopped so far | accept_block, accept_transaction, generate_block, readers, the write loop, shutdown | request against shutdown, hold time of the lock, order of plugins | no dangling pointer; every caller gets an answer; nobody uses a closed database; shutdown ends |
| pending transactions and block production (`chain/db_with.hpp`, `plugins/siming/block_producer.cpp`) | pending list, pending session, popped transactions | push_transaction, re-application around every block, block builder | 200 ms limit that postpones; session and list out of step | no transaction lost or twice in a block; state without session is the state of the head |
| siming schedule, last irreversible block (`chain/siming_schedule.cpp`, `chain/database.cpp:2046-2189`) | simings with keys, adores and last confirmations; the round; slots | register, resign, adore; missed slots, shutdown; schedule update, update_last_irreversible_block | a round replaced while confirmations are old; keys cleared while slots stay assigned | what is irreversible has its quorum and stays so; it follows the head; somebody can always make the next block |
| qi, adores, rewards (`chain/database.cpp:888-1290`, evaluators) | balances, qi, feigang, delegations and their expirations, proxies, proxied adores per level, routes, totals | transfers, conversion, withdrawal in parts, routes, proxies, adores, claims, what every block pays | rounding, proxy chains, cached sums that every operation updates by a difference | conservation; sums equal their parts; a block is never refused by its own maintenance |
| account authority and recovery | authorities, history, requests | change of owner authority, recovery within 30 days, expiry | order of request, expiry, change | only a recent owner with the agreed partner recovers |
| proposals | proposals, subscriptions | subscribe, expire, bounded removal | removal spread over blocks | no subscription outlives its proposal |
| synchronous broadcast (`plugins/baiyujing_api`) | callbacks by transaction id and by expiry | broadcast, block applied, expiry | duplicates, failure after registration, shutdown | everyone who waits is answered once |
| p2p sync and network node (`plugins/p2p`, `net`) | per peer: list of ids, what was asked of it, what is being processed, who needs blocks; received blocks, blocks being handled, three loops and their triggers | ask for ids and blocks, receive them in any order, hand them on, advertise, lose and end connections | reordering, loss, duplicates, peers on forks, a trigger that is missing | each block is asked of one peer at a time, handed on in order; honest peers are kept; sync reaches the peer's chain |
| contracts, actors, NFAs, zones, cultivation | Lua state and objects | contract calls, heartbeats, cultivation | bounded work, partial failure of scripts | the script decides; cultivation conserves qi |
| history and read APIs, debug node, wallets, protocol formats, vendored Lua and RocksDB | indexes that follow the chain, formats | | | outside the state machine |

PROJECT.json gives the status of every one of them and, under `hazards`, the
places in the code at which they go wrong. The first seven rows, the qi and the
exchange of blocks with peers are modelled.

## 2. Modules

| module | models | used by |
|---|---|---|
| `SnapshotStack` | abstract: a table with a stack of full copies | refined by `ChainbaseIndex` |
| `ChainbaseIndex` | `generic_index` with its undo states | `ChainbaseIndexProofs`, `MCChainbaseIndex` |
| `FinalChain` | abstract: a chain with a final part that only grows | refined by `ChainDatabase` |
| `ForkDatabase` | the fork database, as values and operators | `ChainDatabase` |
| `ChainDatabase` | block acceptance, restarts; composes fork database, state, undo stack and log | `ChainDatabaseProofs`, `MCChainDatabase` |
| `BlockLog` | the two files of the log | `BlockLogProofs`, `MCBlockLog` |
| `PendingTransactions` | pending list and session, block builder | `PendingTransactionsProofs`, `MCPendingTransactions` |
| `WriteQueue` | threads, queue, lock, shutdown | `WriteQueueProofs`, `MCWriteQueue` |
| `SimingSchedule` | rounds, slots, the last irreversible block | `SimingScheduleProofs`, `MCSimingSchedule` |
| `QiLedger` | the economy: evaluators and block maintenance | `QiLedgerProofs`, `MCQiLedger` |
| `NodeSync` | how blocks are fetched from peers | `NodeSyncProofs`, `MCNodeSync` |

**ChainbaseIndex.** `objs` is the container, `stack` the undo states with their
`old`, `removed` and `new` parts, `nextId` and `revision` the members of those
names. Each member function is an action; `on_create`, `on_modify`, `on_remove`,
`Restored` (undo) and `Merged` (the 4 x 4 matrix of squash) are the functions they
call. A table is a function on ids with `None` where there is no entry, so the
three maps of an undo state have the same shape. The container is outside
`src/libraries/chainbase`; what it does when a unique key is taken is modelled from
its use and its tests (`UniqueKeys`, `AfterModify`, marked external). A throw in
`undo()` leaves a destructor and ends the process: `broken`. `snaps` is a history
variable, a copy of the index per open session.

**ForkDatabase, ChainDatabase.** A block id commits to all ancestors, so a block is
its path from genesis: number, parent and ancestors are operators on sequences.
What a block does to the state is abstracted to what the properties tell apart:
whether `_apply_block` refuses it, whether `validate_invariants` refuses it after it
was migrated, and which last irreversible number it leads to. These are given by a
`world`, chosen in `Init`, because applying a block is deterministic. The world also
says whether blocks are pushed again when they are known (`again`) and before their
parents (`early`). The state is its `head`; `base` is the lowest block the undo stack
can go back to; `log` the block log; `fork` the fork database, whose weak pointers
are explicit (`linked`, `headLinked`) because branches are walked along them. The head
of the fork database is kept alive by `_head` alone once it has left the index: when
another item takes its place it is gone, and pointers to it end (`Pushed`). One push is one step, except a fork switch: every `pop_block` and every `apply_block` of
it is a step (`pc` = pop, apply, unwind, restore), since it may fail and the process
may die between them. `close()` has two steps for the same reason: `undo_all()`
rewinds one index after the other (`disk = "torn"`).

**BlockLog.** A file is the sequence of its complete records, with a flag for a tail
that ends inside a record, a buffer, and the direction of the stream. The position
of block n is the number n. `crash` leaves any beginning of each buffer.

**PendingTransactions.** `pending`, `popped` and `session` are `_pending_tx`,
`_popped_tx` and `_pending_tx_session`; the session is given by the transactions that
were applied in it. What a transaction does is abstracted to what the order of
transactions can change: which transactions it needs in the state (`Needs`), which it
cannot follow (`Conflicts`), and when it expires. `push_block` moves the list away,
any blocks are then popped and applied (`ChainDatabase` says which), and the restorer
goes through what was popped and what was pending, one transaction per step; the
moment at which its 200 ms are over is left open, as is which transactions the block
builder postpones for their size. The loops stay on one thread, but the head, the list
and the session are seen by the next request. `owed` is a history variable. Time
counts block intervals.

**WriteQueue.** `caller` is where each thread is between its entry and its return;
`queue` and `current` hold the pointers to their stacks; `writer` is the position of
the write thread in its loop (`test` of `running`, outer pop, lock, visit, inner
pop). `quitting`, `begun`, `stopped` are the shutdown by the main thread.
`ShutdownOrder` is a constant because the order in which plugins start, and stop in
reverse, follows the configuration: without `plugin =` lines the webserver stops
first and the chain plugin last (`programs/taiyin/main.cpp:87-99`); under
`plugin = webserver p2p json_rpc ...` (`contrib/fullnode.config.ini:19`) the
webserver, which requires json_rpc only, starts first, and stops last.

**SimingSchedule.** One node applies one chain. `chain` is the producer of every block,
`aslot` is `current_aslot`, `schedule` the used part of `current_shuffled_simings`,
`key`, `adores` and `confirmed` the columns of `siming_object` (`key` says why it is
null, if it is). `Produce` takes the number of missed slots; the siming whose slot
comes next makes the block, as `validate_block_header` asks. `Apply` is the part of
`_apply_block` that concerns simings, in its order: what the transactions changed,
keys cleared for missed slots (`Overdue`), the confirmation, the last irreversible
block over the old round, then the new round. The shuffle is computed from the head
time: any permutation. `Elected` is all of `update_siming_schedule4` that decides who
is scheduled: the virtual time gives seats that are left, and none is, because
`max_adored_simings` is initialised to `TAIYI_MAX_SIMINGS` (`siming_objects.hpp:174`)
and never changed; who has a key and is not elected finds the round full.
(`config.hpp:85` and the comment at `siming_objects.hpp:93` still speak of a seat for
those whose turn it is.) Simings that never make a block are chosen in `Init`
(`silent`); others may slip. `steady` is a history variable: for how many blocks the
network has worked as well as the threshold demands: no more members are absent than it
tolerates, nobody else misses a slot, and nobody comes back within a round.

**QiLedger.** `db` is a record with a function per column of the tables
(`account_object`, `siming_object`, `siming_adore_object`, routes, delegations and
their expirations, the global properties), so that a handler is the composition of
the calls it makes, as in the code: `AdjustProxied` is
`adjust_proxied_siming_adores`, which climbs the proxies, and ends in
`AdjustSimings`. An `FC_ASSERT` makes `db.ok` false and the whole transaction or
block void. `Maintained` is the order of `_apply_block`: funds, qi created for the
siming, withdrawals, declined rights, delegations that return. Amounts are integers
with the code's truncating divisions. A conversion of a withdrawal to YANG takes the
qi and pays for whole units; what the division drops stays in `current_supply` and is
nobody's. `db.lost` adds it up: a history field that no action reads, with which
`SupplyAccounted` is an equation. `validate_invariants` (`database.cpp:2752`) asserts
the equation without it, and `MCQiLedgerSupply.cfg` shows that one withdrawal breaks
that (genesis divides once as well, but there both sides do). `reward_yang` and `reward_qi` of accounts are never raised by
the code, so a claim is one of feigang. `pay_reward_funds` modifies a copy of the
global properties by their reference (`database.cpp:1191`), which updates the object.
`claimed` and `looped` (the accounts with a route that deposits qi back to themselves,
now or since their withdrawal began) are history variables.

**NodeSync.** `node` is a record of the fields of `node_impl` and, per peer, of
`peer_connection`: `toGet` = `ids_of_items_to_get`, `processing` =
`ids_of_items_being_processed`, `unfetched` = `number_of_unfetched_item_ids`, `asked`
= `item_ids_requested_from_peer`, `requested` = `sync_items_requested_from_peer`,
`fetched` = `items_requested_from_peer`, `offered` =
`inventory_peer_advertised_to_us`, `seen` = `last_block_delegate_has_seen`,
`weNeed`/`theyNeed`; `out` are the requests the peer has not answered, in order.
`active`, `fresh`, `received`, `calls` are `_active_sync_requests`,
`_new_received_sync_items`, `_received_sync_items` and
`_handle_message_calls_in_progress`. `fetch`, `refetch` and `backlog` say that
`fetch_sync_items_loop`, `fetch_items_loop` and `process_backlog_of_sync_blocks` were
triggered. All of it runs in fibers of one thread and the calls of the delegate block
it (`node.cpp:5427` switches the other variant off), so a handler, a turn of a loop
and a task of `send_sync_block_to_node_delegate` are each one action, and every order
between them is possible. Chains are trees of blocks; `Synopsis` and `Reply` compute
the summary of a chain (half of the rest each time) and the answer to it as both
sides do. The chain below accepts a block that builds on one it has and is not in
`world.refused`. Peers are honest nodes that run the same code: they answer in order
and may get new blocks (`Grow`), which they advertise when they think us in sync.
A connection that breaks is `Lose`; one that is ended because of a request that waits
too long is `TimeOut`, one that is ended as stalled `EndStalled`. `twice` is a history
variable: the ids of the peer were asked for again before it answered, which
`start_synchronizing_with_peer` does whenever synchronizing is started again
(`node.cpp:3887`); no action reads it. All chains begin with the same block
(`OneFirstBlock`): `get_block_ids` answers a summary it shares no block with as it answers
one of a node that lacks nothing (`p2p_plugin.cpp:275-327`), so with a chain of another
first block `InSyncHasAll` would be false.

## 3. What the runs check

Passing runs.

| run | instance | properties |
|---|---|---|
| `index` | 3 ids, 2 keys, 2 data values, 3 nested sessions | types; `undo()` never meets a taken key; differences reproduce every copy exactly; refinement of `SnapshotStack` |
| `chain` | every tree of 5 blocks with at most one refused, and every tree of 4 with one refused and one refused late, in any order of delivery; crashes, restarts, replays | types; the log is the own chain; the undo stack reaches exactly to the log; an orderly close can be opened again; refinement of `FinalChain` |
| `forks` | the same trees, blocks pushed again and again, fairness | fork head = head and no known block is higher; a failed switch comes back to the old branch, unless it had made a block above the common parent irreversible; convergence to the longest branch when no block is refused |
| `block_log` | a log of 2 blocks that grows to 5, killed at any byte | index and head match the log; flushed blocks survive |
| `pending` | 4 transactions (two exclude each other and need a third; two expire early), chains of 3 blocks at times up to 4, 3 waiting | types; no transaction twice on a chain and its session; every transaction of the session applies where it stands and is pending in that order; no transaction that is still valid is lost |
| `siming_schedule` | 6 simings, 4 scheduled, 16 blocks with up to 3 slots missed in a row, 3 changes that concern several simings, nobody, one or all but one silent | types, nobody twice in a round; what becomes irreversible has three quarters of the round behind it and stays irreversible; the last irreversible block follows the head at a fixed distance while members are on time; somebody scheduled has a key |
| `qi_ledger` | 3 users, treasury, one siming; a chain of 3 proxies; 3 operations of any kind and 3 blocks | types; the totals are those of the accounts, and the supply is what all hold but for the remainders that conversions dropped; incremental adores equal a recount; delegations balance; withdrawals pay what was asked; maintenance refuses no block while no feigang was claimed and no route deposits qi |
| `node_sync` | 2 peers, 4 blocks with a fork; four worlds: a peer with a refused block, a connection that breaks or times out, a new block that both advertise, a new block that is refused | types; a block is asked of one peer at a time; blocks are handed on in order; a peer with which nothing is going on has none we lack; a peer that answers each request before the next is given up only if a refused block is on its chain; synchronizing ends unless a loop is not woken |
| `write_queue` | 2 API threads, p2p, main thread; default order of shutdown | whoever waits has a valid pointer and a thread that serves it; closed database and deleted node unused; every caller is told; shutdown ends |

Runs that show the code to differ from what it says of itself (the `findings` of
PROJECT.json quote the lines).

| run | what it shows |
|---|---|
| `stale_fork_head` | a refused block leaves the index of the fork database and stays its `_head`; the node then ignores a valid branch as high and cannot link a longer one: it stops following the longest valid chain; in the trace a known block also comes a second time |
| `qi_adores` | a claim of feigang adjusts the adores twice: after one by an account with a proxy the sum of the weights is no longer the qi there is, which `validate_invariants` asserts |
| `sync_stall` | two honest peers and no fault: a received block that was accepted in the meantime ends the turn over the received blocks, and the next one, first on every list, stays there for ever |

Configurations that are kept beside these and show more of the same kind; TLC finds
the violation in each.

| configuration | what it shows |
|---|---|
| `MCChainbaseIndexKeys.cfg` | two objects that exchange unique keys in a session: `undo()` writes old values back one by one and throws (`chainbase.hpp:376`) |
| `MCChainDatabaseRedelivery.cfg` | a known block pushed again is applied on the wrong head, refused, and erased from the fork database although it is part of the chain (`database.cpp:667`, as in `stale_fork_head`); a block of another branch is then written to the log as irreversible |
| `MCChainDatabaseTorn.cfg` | killed inside `close()`, a half rewound state passes the comparison of `open()` (`database.cpp:92`) |
| `MCChainDatabaseSelfFinal.cfg` | a block that is irreversible by itself: `migrate_irreversible_state` asks the fork database for its number on the main branch, while the head of the fork database is another block of that number, and writes that one to the log |
| `MCChainDatabaseRestarted.cfg` | `HeadIsForkChoice` after a restart: the fork database begins again at the last irreversible block, and a first block of a branch that was given up is taken as if it linked to something (`fork_database.cpp` asks for the parent from block 2 on); its child becomes the head of the fork database and the state cannot follow. It needs an irreversible block below 1024 |
| `MCChainDatabaseStranded.cfg` | `PartialChangesUnwound`, as `database.cpp:524` has it: descendants of a refused block stay in the fork database and can keep its head on their branch, so that a good branch is only applied when it is higher by several blocks; one of them makes its ancestors irreversible, a later one is refused, and the way back is cut off: the state stays on the new branch, with the head of the fork database below it |
| `MCQiLedgerSelfRoute.cfg` | an account whose route deposits qi back to itself: an interval that pays less than the rate does not end the withdrawal, and the last one pays `to_withdraw % rate` again, more than was asked for (`database.cpp:1020, 1100`) |
| `MCQiLedgerSupply.cfg` | `SupplyMatches`, the assertion `gpo.current_supply == total_supply` of `validate_invariants` (`database.cpp:2752`): a withdrawal of an odd amount at a price of 2 drops the remainder (`database.cpp:1066, 1091`), which no account gets and no line takes out of the supply |
| `MCBlockLogFirst.cfg` | the index of a log of exactly one block is rebuilt empty (`block_log.cpp:336`) |
| `MCWriteQueueFullnode.cfg` | under the full node's plugin order a request queued after the write thread was joined waits for ever, and so does the shutdown (`chain_plugin.cpp:275`) |
| `MCNodeSyncDropped.cfg` | synchronizing is started again while a request for ids is out (`node.cpp:3887`): the answer to the first request is judged by the summary of the second and an honest peer is disconnected (`HonestNotDropped`), although `node.cpp:2406` says what a valid response is |

**Bounds.** Five blocks give every shape in which a branch of two is overtaken by one
of three, with a common parent that is or is not genesis; six are used in
`stale_fork_head`, which needs a branch to grow past a refused one. `DefaultMaxSize`
is 5 instead of 1024: it only acts before the first migration. `Lags` 0, 1, 2 and the
"jump" functions of `MCChainDatabase!LibOf` place the last irreversible block at the
head, behind it, and let it jump over several blocks at once, which is what makes the
log part longer than one. Worlds are restricted by `Agreeing` (two valid branches
never have conflicting irreversible blocks: the two thirds behind one do not confirm
another) and, in `forks`, by `MinorityStaysLow`. Without these a node may be told to
undo irreversible blocks and no property of this kind can hold. Three ids and three
sessions let an object be new, changed, removed in each of three nested sessions
beside another one. In `pending` a transaction can be postponed, popped and produced
while another it depends on, or that excludes it, is in another place, and blocks of
two carry both. `OwedIsKept` speaks of transactions that nothing can make invalid
before they expire, and that expire within `MaxAhead` of genesis: when a switch to a
longer branch moves the head time back, one that is farther ahead is refused and
dropped. Two API threads suffice for the order of two requests from one pool; the p2p
and main threads are one each in the code.

In `siming_schedule` four seats and six simings let a round be replaced as a whole, by
half, or by simings that have confirmed nothing yet; with a threshold of three of four
one may be absent, as five of 21 are. A day has 5 blocks instead of 28800, so that
keys are cleared within two rounds, and the undo history 12 instead of 10000, more than
twice the distance that `FinalityLag` allows; sixteen blocks are four rounds, the first
of them before adoring starts. In the code the undo history is shorter than a day: when
too many are absent after adoring has started, blocks are refused before the keys of
the absent are cleared. The small instance has them the other way round so that both
happen; the proved properties hold for any two numbers.

In `qi_ledger` three operations set up any pair of interacting ones (a route and a
withdrawal, a delegation taken back and given again) with a third in between; amounts
are chosen so that every division leaves a remainder; four levels of proxies become
two, and the initial chain a <- b <- c is as long as they, so that one more proxy
exceeds it. In `node_sync` blocks can arrive out of order, twice, from two peers, in
one world after the peer that was asked went away. The prefetch limits are 1 and 2
instead of 200 to 10000, so that every limit is reached: requests are suspended, a
list is fetched in two parts, a peer is asked for one block at a time. In the worlds
of the run a peer is asked for ids once at a time and the node has the first block, so
that the liveness is about peers that stay connected (`MCNodeSyncDropped.cfg` is the other
case, and with an empty chain a summary is empty, and a peer with a single block is told
that we are in sync without advertising the next one); the proofs are about any number of
requests and any chain.

**Fairness.** `ChainDatabase!FairSpec`: a handler that began goes on (one thread, no
waiting inside), and peers that hold a block offer it again (`push_block` weakly fair
for each block that stays pushable). `stale_fork_head` uses strong fairness, so its
counterexample is not one of a scheduler that passes a block over. `WriteQueue!FairSpec`:
threads are scheduled, readers and requests end (they are bounded and readers time out
after a second), and the main thread goes on with the shutdown. Nothing is assumed of
peers, of new requests or of the moment of the shutdown. `NodeSync!Fairness`: the
loops and tasks of the thread run when they were triggered, peers answer (one that
does not is timed out, and counts as lost), connections that were given up end and
new ones are made (`p2p_network_connect_loop`), a stalled connection is ended. Nothing
makes peers get blocks or ask for ours. Under it synchronizing need not end
(`sync_stall`); `HeldUp` names the three places where a trigger is missing: a received
block that is first on a list (`node.cpp:3275`), a wanted item that was left because
the peer that has it was busy with synchronizing (`node.cpp:3533`), and a peer whose
list was not looked at while it was busy with such an item (`node.cpp:3513`).
`SyncCompletesUnlessHeldUp` shows that the four worlds of `node_sync` have no other; it says
nothing of more peers or longer chains.

**Deadlock.** It is checked for `index` and `block_log`. `ChainDatabase` has none to
look for, as a node to which nothing is left to be pushed, or that can neither be
opened nor replayed, stops; `WriteQueue` ends when the node is shut down; in `pending`,
`qi_ledger` and `siming_schedule` the bounds on time and blocks end a run (the chain of
`siming_schedule` also stops when everybody has resigned, when all that are scheduled
are silent, or at the end of the undo history, as the code does), and a node in sync with its peers
(`node_sync`) has nothing to do. What must not stop there is stated as liveness.

## 4. What is proved

For every value of the constants, by TLAPS; the properties are those of the runs.

**ChainbaseIndexProofs** (for any keys, data, number of ids, nesting and revision;
`SafeUndo` and `Refinement` with `KeysMutable = FALSE`, `TypeCorrect` without). The invariant `UndoInv` has a
part per open session: `LayerOK` says of the difference kept by a session, of the copy
below it and of the table above it that every id is in exactly one of the classes
new, modified, removed, untouched, and what the values are in each. `UndoIsExact`
alone is not inductive: the step of `squash()` needs the classes of two neighbouring
layers, the one of `undo()` needs to know that no object of the session holds a key
that an old value needs. Steps: creation, modification and removal keep the top layer
(`TopLayer` gives it), `SquashKeepsLayer` composes two layers, undo restores the lower
copy. Results: `TypeCorrect`, `UndoInvariant`, `ExactUndo`, `SafeUndo`, `Refinement`.

**ChainDatabaseProofs** (for any set of worlds: any tree of blocks, any refused, any
last irreversible blocks, any order of delivery). `ChainInv` adds to types and
`UndoReachesLog` what a fork switch in progress needs: both branches end above the
common parent, and the state is below the end of the branch it is moving to
(`SwitchOK`); otherwise the next block of the branch might not exist. `ApplyStep` is
the core: however `apply_block` ends, log, undo stack and head fit together again.
Results: `TypeCorrect`, `UndoMeetsLog` (with crashes, restarts and replays), and
`Refinement`: without restarts a node implements `FinalChain`, whatever is refused or
redelivered.

With restarts refinement needs that the log is the own chain, and that is proved for an
`OrderlyWorld`, in which no block is pushed again when it is known and none makes itself
irreversible. Both conditions are needed: `MCChainDatabaseRedelivery.cfg` and
`MCChainDatabaseSelfFinal.cfg` violate `LogIsOwnChain` without the one or the other. The
first is what `chain` checks as well (`again = FALSE`). The second is a fact of the
schedule: the last irreversible block is the confirmation that a quarter of the scheduled
simings are below (`database.cpp:2046-2189`), so with two or more of them it is not the one
of the head's own producer.
`OrderlyInv` adds to `LogIsOwnChain`: every block of the state's chain above `base` is in
the index of the fork database (`ReversibleIndexed`; what was migrated is found by the log,
what is above it is found by id when its branch is walked); during a switch the state
is on the path of one of the two branches, not below their common parent (`SwitchPath`), and
both branches are in the index from there on (`BranchesIndexed`), so that a failed switch can
go back (except where the old branch only continues the state's head and is refused again,
`OldRefused`: restoring it throws as well); a rewound state is at the end of the log (`CleanIsRewound`). `LogIsOwnChain` alone is
not inductive: a migration writes what the fork database has under a number, and that
it is the ancestor of the head follows from the index and from the head of the fork
database being above. Results: `OrderlyInvariant`, `LogStaysOnChain`, `CloseThenOpen`,
`RestartRefinement`.

`ForkChoice` states `HeadIsForkChoice` for a node that is not restarted, in a
`MajorityWorld`: no block is refused, none is pushed before its parent, and a block that is as
high as another shares its last irreversible block. Known blocks may be pushed again, in
any order, and a block may make itself irreversible. The last condition is what `MinorityStaysLow`
of the runs says when no block is refused: those who do not confirm a block cannot build as
high a branch without it. Without it, and with restarts (`MCChainDatabaseRestarted.cfg`), the
theorem is false. The invariant `Choice`: the branches of all known blocks can be followed by
id and by their links down to `base` (`Traced`); every block, known or not, that is at least
as high as the head shares `base` with it (`BaseIsShared`), so that the common parent of two
branches is never below what can be undone; and in a switch the head of the fork database
stays one block above the state on the new branch while both step back (`PopChoice`), and
then follows it (`SwitchChoice`). It yields that no switch begins with a branch that cannot be
followed, and that none fails (`GoesThrough`: `migrate_irreversible_state` finds every block it
writes). That two branches of any length have a common parent at all is an induction,
done by the least element of a set of numbers (`Least`, `CommonParentExists`).

`SwitchRestores` states `FailedSwitchRestores` in an `OrderlyWorld`, with crashes, restarts and
blocks that are refused early or late. On top of `OrderlyInv`, `RestorableInv` says that no
block of the state's chain is refused and what each of them makes irreversible is so already
(`AppliedTo(base, head)`), and the same of the old branch while a switch is in progress:
re-applying the old branch is not refused, and finds no irreversible block to write that
the fork database has lost in the meantime. The way back to the common parent needs that the
links of the new branch are alive although the block that was refused, and with it the link
of its child, is gone from the index (`NewLinked`), and that both heads step back together
(`UnwindsTogether`). That holds as long as `base` has not passed the common parent. The
exception in the property is real: `MCChainDatabaseStranded.cfg` is a run of the program
in which a switch makes blocks of the new branch irreversible before it fails, and the
comment at `database.cpp:524` does not hold.
Results: `RestorableInvariant`, `SwitchRestores`.

**QiLedgerProofs** (for any users, simings, amounts, shares, levels of proxies, prices and
rates, and any number of operations and blocks). `QiInv` says of the tables what
`TypeOK`, `SupplyAccounted` (`Accounted`) and `DelegationsBalance` (`Balanced`) say, and of
every withdrawal that runs that its rate is the one of what was asked for, that something is
left, and that full intervals were paid so far, `withdrawn = k * rate`, unless the account is
in `looped` (`WithdrawalOK`). `WithdrawalsBounded` alone is not inductive: the last interval
pays `to_withdraw % rate`, which is what is left only if the ones before paid
the full rate. `Accounted` has the totals in place of the sums, so that a handler is followed
by what it adds to them: `Worth`, what the tables hold with what conversions dropped, in
YANG, is the supply. A conversion of `x` qi takes `AsYang(x) * QiPerYang` out of what is
divided there and puts `AsYang(x)` beside it (`AsYangRest`, `WorthMoved`), and so `Worth` stays
the same, along any routes. `MCQiLedgerSelfRoute.cfg` shows that the exception for `looped` is needed. A handler is followed call by call: `Ledger` is the set of tables
that occur inside a handler, where an amount may be negative and an assertion may have
failed, and `Sound` says of the result that it satisfies the invariant unless it failed.
Two facts carry what concerns amounts: adjusting adores touches none, and a
change of one entry of a column changes its sum by the difference (`SumStep`). The
loops over routes, delegations that return and withdrawals that are due are folds over sets;
`FoldKeeps` proves that a set that every step keeps to is not left.

The part of `QiInv` about adores is `Counted`. `WeightsRecount` compares a level `i` with the
accounts that are `i + 1` proxies below, and it is not inductive: nothing in it keeps a chain
from being a loop, or an account with a proxy from adoring. `Counted` says it
of neighbours: a level is the sum of what the accounts right below pass on
(`LevelOver` is 0), the adores of a siming are the weights of its adorers (`AdoreOver` is 0), only
accounts without a proxy adore (`RootsAdore`), and no chain comes back to where it
started within `MaxProxyDepth` proxies (`Loopless`). One `adjust_proxied_siming_adores()` changes the levels
along a whole chain, but it puts out of balance only the proxy, or the simings, of the
account it starts from (`LevelsBalance`, `AdoresBalance`), by what the caller has just changed
of that account: its qi (`QiMoves`), or its proxy together with all that hangs below it
(`ProxyMoves`, `LeftCounted`, `JoinedCounted`). A claim adjusts twice: from then on the
differences are only not negative (`Fits`). `account_siming_proxy_evaluator` looks for
loops in the chain of the new proxy as it is before the move; `CutLoopless` and `HungLoopless` show
that this is enough. `CountedLevels` returns from neighbours to chains by
induction over the levels. `BlockNotRefused` uses `Counted` in each of the states in which `adjust_siming_adore` asserts
during the maintenance of a block: as the chains below two accounts without a proxy are
disjoint (`OneRoot`), the adores of a siming are qi of different accounts and at most the total
(`AdoresFit`); `Kept` carries this through the four calls. It needs the total to be
raised before the adores are (the mutant `CreateQiLate` does it the other way round), and no
route that deposits qi: such a deposit is adored before the withdrawal it comes from is taken
out of the adores, and the total stays.
`NoProxyLoop` assumes of the proxies set so far that they are no loop, which the evaluator
that set them sees to. Results: `QiInvariant`, `TypeCorrect`, `SupplyIsAccounted`,
`DelegationsAlwaysBalance`, `WithdrawalsStayBounded`, `WeightsAlwaysRecount`,
`BlocksAreNotRefused`. `AdoresAccountForQi` is not a property of the code (section 3, `qi_adores`).

**WriteQueueProofs** (for any number of API threads). `QueueInv` joins types, the
pointers and `ShutdownInOrder` (plugins stop in order; what was joined is idle), for
every order. Results: `ValidPointers` for every order of the shutdown;
`ServedWaiters` and `UnusedWhenStopped` (from `NoneLeftBehind`, `UnusedWhenClosed`,
`NodeWhenBroadcast`) when the webserver and the p2p plugin stop before the chain
plugin, an assumption `MCWriteQueueFullnode.cfg` shows
to be needed.

**SimingScheduleProofs** (for any simings, seats, orders of the rounds, adores, silent
simings and start of adoring). `ScheduleInv` is types, `ConfirmedIsOwn` (the last
confirmation of a siming is the number of a block it made) and `EarlyLag` (how far the
last irreversible block is before adoring starts, which makes the switch of rules
monotonic). `IrreversibleHasQuorum` is then a count: fewer than `Offset + 1` of a round
confirm less than the number of rank `Offset`, so the rest, at least the threshold of
the whole, confirm it or more, and by `ConfirmedIsOwn` each of them made that block or
one on it. `SomeoneCanSign` holds because the producer of a block keeps its key when
keys are cleared, and a new round is made of simings with keys. Results: `TypeCorrect`,
`QuorumConfirms`, `KeysRemain`.

`LagIsBounded` states `FinalityLag`. With `N` members and `Needed(N) = N - Tolerated(N)`, the
invariant `LagInv` says of a round in which everybody was on time: of two slots of the last
turn through the schedule whoever has the later one has made the later block, or is absent
(`InTurn`); so a siming makes its next block only after all others who are not absent have
made one, and the last `Needed(N)` blocks of the round are by different members (`LastOnes`).
The confirmation of the deciding rank is then one of these (`RankIsLate`, a count), and the
last irreversible block less than `Needed(N)` behind (`RoundLag`). A new round starts from there
(`StartLag`) and reaches it again after `Needed` blocks of its own, whoever is elected; `Elected`
never has more than `MaxSimings` members (`ElectedFew`), and `Needed` grows with `N`. The bound
of `FinalityLag`, twice `Needed(MaxSimings) - 1`, is reached in the run. Two conditions are
in the property because it is false without: the first `MaxSimings` blocks of adoring are left
out, in which the number still is where the rule of the first blocks put it; and `steady`
begins again when somebody who was absent takes a key within a round. With eight seats two
members can resign just before their slots, come back after them, and two others do the same,
so that never more than two are absent and four of the eight never make a block: with 21
seats and five absentees it takes five at a time. The number then stays where it is until they stop or
the undo history is used up.

**BlockLogProofs** (for any set of blocks, any installed log, any capacity). `LogInv`
says that what was flushed begins the block file, and of the index that what it has is
right, also while the log is closed and a crash has cut it: a short index is completed by
`open()`, a wrong entry would not be found. Results: `TypeCorrect`, `FlushedSurvives`,
and, for a log that was installed with two blocks or more (`LongEnough`),
`IndexMatches`; `MCBlockLogFirst.cfg` shows that the assumption is needed.

**PendingTransactionsProofs** (for any transactions, whatever they need, exclude and
when they expire, and any bounds). `PendingInv` says what is where in each phase
of a request (`PhaseInv`), that times of blocks grow, that blocks and session are
disjoint, that the session follows the list also while the restorer is at work
(`SessionInv`), and where what is owed can be (`OwedInv`: the chain or one of the three
lists). `NoTwice` alone is not inductive, as the index forgets: by `AppliesOnce` a
transaction it has forgotten has expired at the head and does not apply either.
`FreeApplies` is the other direction: a transaction that depends on nothing and is not
known applies until it expires, so the restorer drops none; `TimesGrow` keeps it from
expiring when blocks are popped. Results:
`TypeCorrect`, `AppliedOnce`, `SessionFollowsList`, `OwedNotLost`.

**NodeSyncProofs** (for any finite set of peers, tree of blocks, chains that peers begin
and end with, refused blocks and limits, and any number of requests out at a time).
`SyncInv` says of every peer (`PeerOK`) that a closed connection keeps nothing, that its
list and what it was asked for are blocks it has, and `OwesEachOnce`: every block on its
way from it was asked of it, and is on its way once; and of the node `Owned`, which is
`RequestsAreOwned`. `Owned` alone is not inductive: a block that arrives is taken off the
requests of whoever sent it, and if it was on its way twice, or from a peer whose requests
were taken over by another, the second answer would take it off `_active_sync_requests`
while somebody else was asked for it. `on_connection_closed` drops what is on its way with the
connection, which is why a peer that was given up (`closing`) keeps its requests until
then. That the requests of one round are disjoint needs the check of the loop against what
it has scheduled already (`node.cpp:1001`): no list is assumed to be free of duplicates. The
loops are followed as folds: over a list of ids (`ItemsOf`), over the peers in any order
(`AllRequestsOK`), over the turns of the backlog (`BacklogOK`). Results: `SyncInvariant`,
`TypeCorrect`, `RequestsOwned`.

`Good` strengthens it to what the lists mean, and gives `HandedInOrder` and
`InSyncHasAll`. A block is settled when it and all before it are in the chain, were
handed to it, or will never be taken. The list of a peer goes on where settled blocks
end, each block on the one before (`PlaceOK`), so that a block that is first on a list
may be handed on: the check of `process_backlog_of_sync_blocks` looks at that place
only. This must survive the answer to a summary (`SummaryOK`: the summary has only
settled blocks and blocks of the list, and one that its peer knows, so that the answer
goes on where the list ends), a second request while the first is out (`OnceOK`: an
answer is the one to the last question unless the peer was asked twice), a peer whose
blocks are taken off its list because another one gave them, and a connection that ends
with part of the list asked for. `IdleOK` says what a late answer can contain: nothing
new. Three statements turned out too strong on the way. `HandedInOrder` named as excuse
for a block only that the one it builds on was refused; with three calls to the chain at
a time, the descendants of a refused block are on their way before the refusal is known,
so the excuse is any refused ancestor (`Doomed`). `InSyncHasAll` said it of every peer
we need no blocks from; it holds of one with which nothing is going on (`Idle`) and that
takes us to be in sync, and a peer with which nothing is going on does, unless it was
asked twice, or asked by a node without a block. `HonestNotDropped` is the third.
Results: `OrderInvariant`, `BlocksHandedInOrder`, `NothingIsMissed`.

`Honest` is about blame, and gives `BlamedForCause`: a block that is handed on, in
process, offered or sent by a peer is on the chain of that peer (`Shown`), chains of
peers only grow, and no call adds anything to what is on its way but blocks of the list
of the peer it comes from (`NoMore`). The peers that `send_sync_block_to_node_delegate`
disconnects because a block was refused are some that have it in process, so the refused
block is on their chain. A peer is also given up for an answer that does not fit its
summary; of a peer that answers each request before the next, no answer does (`OnceOK`).
Result: `BlameIsJust`.

Assumptions on constants are the named ASSUMEs of the modules; TLC evaluates them in
the runs. `ChainsAssumption` of `NodeSync` says that blocks have ancestors up to a block 1
and that a peer keeps the blocks it begins with, `OneFirstBlock` that there is one block 1.

**Only model-checked.** All liveness (`Converges...`, `EveryCallerTold`, `ShutdownEnds`,
`SyncCompletesUnlessHeldUp`): fairness and ENABLED are out of the prover's reach. Every
safety property of a passing run is the conclusion of a theorem. `HonestNotDropped` is
false (`MCNodeSyncDropped.cfg`); `BlamedForCause` is what holds of it. The library's
induction theorems take an operator as a parameter, which the provers cannot
instantiate. Where a proof needs induction over sets, numbers or the ancestors of a
block it is done in terms of sets (`SubsetInduction` and `Inductive` in
`QiLedgerProofs`, `Induct` and `PathIsPath` in `NodeSyncProofs`, from the least element
of a well-founded relation). No module with a theorem has a RECURSIVE operator.

## 5. Not modelled

- What transactions do to the state (the world abstracts it, in `PendingTransactions`
  `Needs` and `Conflicts` do); authority, TaPoS, notifications, hardforks, checkpoints
  (only that one may refuse a produced block) and skip flags, which may turn off the
  duplicate and expiry checks.
- What a node should do with a longer branch that forks off below the last irreversible
  block. `undo()` of an empty stack does nothing there, so the switch steps the fork
  database back and leaves the state where it is. It occurs in `chain` and the safety
  properties hold; `MinorityStaysLow` keeps it out of `forks`, as such a branch cannot
  be followed.
- The cache of unlinked blocks of the fork database: the insertion follows a throw and
  never happens.
- Errors of disks, short reads and the format of blocks; a block file cut inside a
  block makes `open()` throw for good (`HeadIsReadable`), which the model shows as an
  open() that is not enabled.
- Of the economy: account and siming creation (their fees move qi as `PayFee` does),
  NFAs, materials, cultivation and what contracts do beyond their fees. Three remarks:
  a withdrawal of an account that deposits part of it back to itself may never end: with less
  left than the rate and `to_withdraw % rate = 0` every interval pays nothing
  (`database.cpp:1020`), until a new request replaces it; the producing node skips `validate_invariants` (`siming_plugin.cpp:73`), so what
  `qi_adores` and `MCQiLedgerSupply.cfg` show stops only a node that checks; `account_siming_proxy` walks the
  chain of proxies through a pointer to a variable of the loop body
  (`taiyi_evaluator.cpp:498`), modelled as the account it was meant to point to.
- Of the network node: handshakes, addresses, firewall checks, bandwidth, transactions
  and their cache, the two minutes after which an advertisement is forgotten, items
  that recently failed, the disconnections at hardforks and for implausible numbers
  of blocks. `inhibit_fetching_sync_blocks` is never set by what the chain throws
  here. `item_not_available_message` would leave the block in `_active_sync_requests`
  (`node.cpp:2766-2798`), but it is never sent: `get_item` of the delegate asserts.
- Of the simings: the medians of their properties, the versions and hardforks they vote
  for, the participation counters and `total_missed`, which nothing modelled reads; the
  observers told of irreversible blocks.
- HTTP, WebSocket, JSON, statistics, dumps of the state, the lock's own implementation.
- The data race on `running` in the chain plugin and the unsynchronised reads of the
  siming plugin: listed as hazards.

## 6. Plan

Order of importance; every module with an MC module, runs and, where marked, proofs.

1. *done* `ChainbaseIndex` (refines `SnapshotStack`; proofs), `ChainDatabase` over
   `ForkDatabase` (refines `FinalChain`; proofs), `BlockLog` and `WriteQueue` (proofs).
2. *done* `PendingTransactions` (proofs). The comment at
   `database.cpp:2245` promises to keep a transaction for two forking windows after it
   expired, the code removes it at once; `NoTwice` shows that the duplicate check does
   not need the longer time.
3. `SyncBroadcast`: callbacks of `broadcast_transaction_synchronous` against blocks,
   expiry and shutdown (`baiyujing_api.cpp:697-753, 1433-1473`); composed with
   `WriteQueue`. Property: every waiter is answered once.
4. *done* `SimingSchedule`: rounds, slots and the last irreversible block (proofs). Left:
   that the quorums of two branches meet in a siming that made blocks on both, across
   changes of the round, which discharges `Agreeing` of section 3; votes for versions
   and hardforks.
5. *done* `QiLedger` (proofs of all its invariants). Left: account creation, NFAs and
   materials.
6. `AccountRecovery`, `Proposals` (bounded removal), `Cultivation`: smaller protocols
   with expiry.
7. *done* `NodeSync` (proofs of all its safety properties). Left: transactions and the
   message cache; composition with a peer that is a `NodeSync` itself.
8. *done* `FailedSwitchRestores` on top of `OrderlyInv`. More proofs: `FailedSwitchRestores` and
   `LogIsOwnChain` in worlds in which blocks of other branches, but not of the own, are
   pushed again.
