# A TLA+ verification of the go-ethereum fork of evm-code-study

The repository is a copy of go-ethereum (`src/go-ethereum`, 1.15.12-unstable) to
which a proof-of-authority reward was added, with study notes around it
(`src/poa-reward`, `src/poa-pos`, `src/poaToPos.md`, `src/go-ethereum/w_doc`).
This directory models the parts of it whose correctness is a matter of many
steps and several actors, checks them with TLC on small instances, and proves
the central facts about six of them with TLAPS for every value of the
constants.

`PROJECT.json` lists the components, the runs, the source lines every definition
stands for, the mutants that show each property can fail, the hazards, the
findings and the theorems. Paths below are relative to `src/go-ethereum`.

To repeat a run or a proof:

    tlc -workers 2 -config MCStorage.cfg MCStorage
    tlapm LegacyPoolProofs.tla

## 1. The system and the modules

| Part | Source | Modules | Run |
| --- | --- | --- | --- |
| Voting snapshot | `consensus/clique/snapshot.go` | `CliqueSnapshot`, `CliqueVoting`, `CliqueVotingProofs` | `clique` |
| Clique engine | `consensus/clique/clique.go` | `CliqueEngine` | `clique` |
| Clique rewards | `clique.go`, `rewards.go`, `reward_snapshot.go` | `CliqueRewards` | `clique` |
| State database | `core/state` | `StateDB`, `StateStack` | `clique` |
| Event feed | `event/feed.go` | `FeedState`, `Feed`, `FeedPromise`, `FeedProofs` | `txpool` |
| Pool coordinator | `core/txpool/txpool.go` | `TxPoolLoop`, `TxPoolLoopProofs` | `txpool` |
| Transaction fetcher | `eth/fetcher/tx_fetcher.go` | `TxFetcherState`, `TxFetcher`, `TxFetcherProofs` | `txpool` |
| Legacy pool, contents | `core/txpool/legacypool`, `reserver.go`, `validation.go` | `LegacyPool`, `PendingLevel`, `LegacyPoolProofs`, `LegacyLimitsProofs`, `LegacyGapsProofs` | `legacy_pool` |
| Legacy pool, goroutines | `core/txpool/legacypool/legacypool.go` | `LegacyReorgState`, `LegacyReorg`, `LegacyReorgProofs` | `legacy_pool` |
| `truncatePending` | the same file | `TruncatePending`, `PendingLevel` | `legacy_pool` |
| Skeleton sync | `eth/downloader/skeleton.go`, `beaconsync.go` | `Skeleton` | `legacy_pool` |
| Blockchain and freezing | `core/blockchain.go`, `headerchain.go`, `rawdb/chain_freezer.go` | `BlockChain` | `storage` |
| Freezer table | `core/rawdb/freezer_table.go` | `FreezerTable` | `storage` |
| Path database | `triedb/pathdb` | `PathDB` | `storage` |

How the parts meet. The chain verifies headers with the engine, executes blocks
on the state database, writes them, and announces the new head on a feed. The
coordinator takes the head from the feed and calls `Reset` of each subpool from
one goroutine; the legacy pool's `Reset` is a request to its own loop, which
merges requests and runs one `runReorg` at a time; subpools share the account
reservations. The fetcher brings transactions into the pool. A thread of the
chain moves old blocks into the freezer, and the path database keeps the states.
A node that fell behind follows its consensus client through the skeleton.

The models meet at these interfaces: `CliqueVoting` and `CliqueEngine` share the
function `apply`; `TxPoolLoop` assumes of the feed what `FeedPromise` says, and
`Feed` is proved to implement it; `TxPoolLoop` takes `Reset` of a subpool as one
step, and `LegacyReorg` shows that it returns with the pool at the head;
`LegacyPool` takes the effect of `runReorg` as one step under the lock, and
`LegacyReorg` shows which runs there are; `LegacyPool` uses `PendingLevel` for
`truncatePending`, and `TruncatePending` shows that the loops compute it;
`BlockChain` reduces the state store to its disk layer and its layers, which is
what `PathDB` provides, and takes a freezer that keeps what was synced, which is
what `FreezerTable` provides.

### How the modules are laid out

A component is one module with its constants, its state, one action per
operation and its properties. A run may check several components that share no
state: its MC module then has a variable `part`, chosen once and for all at the
start, that says which component moves, and the properties speak of the
component that does. The components are extended or instantiated by the MC
module; where a property is both checked there and proved, its definition and
the variables it speaks of are in a module that both sides extend (`FeedState`,
`TxFetcherState`, `LegacyReorgState`). The theorems of a component are in a module of their own, with
the suffix `Proofs`.

An operator whose name carries a suffix (`Shorten_Early`, `Oldest_Next`) and
whose comment says "Mutant" is a deliberately wrong version of the one that
follows it; nothing uses it but the mutants of `PROJECT.json`.

### What is not modelled

`PROJECT.json` names every part with the reason. With behaviour worth a model:
the blob pool and its limbo, the local transaction tracker, the Engine API
itself (its calls appear as the steps of `BlockChain` and `Skeleton`), the
downloader's queue between headers and imports, snap sync, payload building, the
dial scheduler and the server loop, discovery, the node's lifecycle, the
transaction indexer, filter maps. The EVM's instruction set, encodings and
cryptography, tries as data structures, command-line tools, RPC plumbing,
tracers, metrics and key-value adapters are left out for good: their correctness
is a matter of data and not of protocol.

## 2. The models

### CliqueSnapshot, CliqueVoting

`snap` is Go's `Snapshot` with `Signers` a set, `Recents` a function on block
numbers, `Votes` a set (a block carries at most one vote, so `Block` gives the
order of the list) and `Tally` a total function whose default is Go's zero value.
`apply` is the composition of the stages of the loop body, in the order of the
code: `AtCheckpoint`, `Shifted`, the two refusals of `ApplyError`,
`RecordSigner`, `DiscardPrevious`, `CastVote`, `Passed`. `CliqueVoting` has one
action, the header of any account with any ballot; `chain` and `history` are kept
only so that properties can look back.

`TallyIsRecount` compares the incremental tally with a recount from the headers
alone; `MajorityDecides` and `SigningIsSpaced` say what voting and the window are
for. `SomeoneMaySign` says that the spacing rule never stops the chain; it
excludes the one way to lose every signer, the last one voting itself out, after
which `inturn` divides by zero (`snapshot.go:310`).

Instance: the zero address, three signers and one candidate; ballots to admit the
candidate, to drop and to keep signer 1, and none; an epoch of 4 and chains of up
to 6 blocks, so that an admission, a drop with a shrinking window and a
checkpoint with votes in flight all happen.

### CliqueEngine

A block is the sequence of headers that leads to it, so hashes are injective by
construction. `Snapshot` is the lookup: the newest ancestor that is cached,
stored or trusted, then `applyAll` of the rest, with the writes to cache and
disk. `VerifyNext` is one turn of the goroutine of `VerifyHeaders`; `InsertNext`
consumes its results in order, as `insertChain` does; a bad result ends the
batch. A good block becomes the head unless it is already canonical, the choice
the beacon-era `writeBlockAndSetHead` makes. `Restart` empties the cache and
drops the batch; `NewBlockChain` then verifies the head. `Reinit` is a database
set up anew from the freezer, the case for which checkpoints are trusted.
`Arriving` offers headers of every account with every ballot, one with the wrong
difficulty and one with a wrong signer list. Time, gas and fork fields of a
header are left out: they are checked against the parent only and change nothing.
`number - limit` keeps its wrap-around.

Two instances in `clique`. The first: two signers and a candidate, epoch 3, snapshots
stored every 2 blocks, two cache entries, up to 4 blocks on any tree of height 3,
two headers verified ahead; the genesis block and a checkpoint are inside,
evictions and forks with different signers too. The second (`Reinit`): one
signer, whose vote is enough, so sibling chains have different signers; threshold
2 and chains of 6 blocks, so that a checkpoint becomes trusted while a fork is
verified.

### CliqueRewards

The state root is the state. `FinalizeAndAssemble` computes the root for the
header as it is at that moment, without a signature, so `Author` fails and the
zero address is credited; `Import` finalizes with the signer. The sum of weights
is modulo `Uint64Mod`, balances and parts modulo `Uint256Mod`, and division by
zero gives zero, as in the `uint256` library. `Spec` starts from the map `New`
makes, which nothing fills; `ConfiguredInit` from any map with a weight for every
receiver, which is what `Finalize` is written for. `RewardConserved` holds while
the uint64 sum does not wrap; the small modulus (8, with weights up to 3 and
three receivers) lets both cases occur. `ProcessRewardEvents` has no caller, and
the map it would write to is never made, so it is no operation of the program.

### StateDB, StateStack

`s` is the `StateDB` with its live objects, its journal, its access list,
transient storage and logs, and the database under it; an action is one call of
the EVM or of the block processor, from `CreateAccount` to `Commit`. An account
has one storage slot. `StateStack` is the promise: accounts and per-transaction
data with a stack of saved versions, where a revert restores a version exactly.
`ImplementsStack` is the refinement, under a mapping that reads the accounts
through `getStateObject`; `saved` is the history it needs. `DatabaseAgrees`
compares the two ways in which `Commit` writes storage, from `uncommittedStorage`
into the tries and from `pendingStorage` into the flat state.

Instance: a contract that is on the disk and an address that is not, three calls
in all, spread over up to three transactions, two nested revisions.

### Feed, FeedPromise, FeedState

The inbox, the list of cases of `Send`, the prefix of it that is still to be
served, and the position of the fast path; a goroutine at every blocking
operation has its own control point, and the token of `sendLock` is a variable.
`SelectRemove` is the case of a `Send` that is blocked in `reflect.Select` and is
asked to drop a channel. `FeedPromise` is what the users of a feed rely on:
counters of subscriptions and of deliveries due, without locks or lists. Two
senders and two subscriptions on two channels with one place of buffer.

### TxPoolLoop

`loop` is the control point of the event loop; every receive of its select is an
action, and so is each deferred call when it ends. Channels are unbuffered and a
send with its receive is one step. A subpool is the head it was last reset to;
`Reset` of a subpool is one step, and `New` may fail between two subpools.
`StateAt` may fail at every reset. `covers` in a reset goroutine and `covered`
are history, for `SyncRanReset`. Two subpools, two heads after the first, one
`Sync` caller that calls again and again, one `Close`.

### TxFetcher, TxFetcherState

One action per case of the loop's select, each the whole case with its
`scheduleFetches` and the rescheduling of both timers: announcements, the wait
timer, the timeout timer, replies, broadcasts and dropped peers. Times are
abstracted to order: a timer names the entry it was set for, any number of the
oldest entries may be due when it fires, and a timer that fires for an entry that
is gone does what the code does. Requests that are on the wire may be answered
late, after the timeout or after another peer delivered. Two peers, two hashes,
one of them of a blob transaction, two outstanding announcements per peer.

### LegacyPool, PendingLevel, TruncatePending

The pool's lock makes each operation one action. What happens outside the lock is
split off: `ValidateTxBasics` before it (`inflight`), and the promotion that an
addition asks for after it (`dirty`), run later or merged into a reset.
`runReorg` is the whole function: reset, reinjection through `add`, promotion,
demotion, `setAll`, both truncations.

Abstractions: a list is a set of transactions; the two price heaps may discard any
set that makes just enough room; any account may be the inactive one, and the
queue is truncated in any order of accounts (heartbeats); fee cap and tip are one
price; set-code authorities and the gas-limit filter are left out; a reset offers
any set of transactions for nonces the new head gave back, instead of walking the
blocks, or returns early. Each of these allows more than the code does, except
the omissions.

`PendingLevel` defines what truncation comes to: one level for all long lists.
`TruncatePending` has one action per turn of each loop and shows that every
result is that level, that the counter is exact and that the loops end, from all
lengths up to 6 of four accounts.

Instance: two accounts, seven transactions (a replacement that meets the price
bump and one that does not, an expensive one, one of two slots), five heads on
which accounts have advanced, fallen back or become poor, two tips, and limits of
1 and 2, so that every limit is hit. `legacy_churn` uses `PlainSpec`, in which no
transaction is reinjected.

### LegacyReorg

`done` channels are numbered, `closed` is the set of the closed ones; `curDone`,
`nextDone`, `launchNextRun`, `reset`, `dirtyAccounts` and `queuedEvents` are the
variables of `scheduleReorgLoop`. `queueTxEvent` waits for the loop with the lock
held. `runReorg` takes the lock, works, releases it, announces and closes its
channel. The contents are reduced to which accounts still wait for a promotion
and to the head. `DoneMeansDone` is what a synchronous `Add` and `Reset` promise.
Instance: a synchronous and an asynchronous `Add`, one `Reset`, one `Close`.

### Skeleton

The loop of the skeleton with its subchains, scratch space, tasks, requests and
idle peers; the backfiller from `findBeaconAncestor` to its imports in full sync;
payloads and heads of the client, which may overtake it. Each batch written to
the database is one step, so `Crash` falls between any two. `ShorterHeads` says
whether the client may name a head that is lower than the local one or than the
last one it named; in `legacy_pool` it may not, so a client that goes back is
explored in `skeleton_heads` only (see section 5). Instance: two branches
that part at number 4, chains of 5 blocks, requests of 2 headers in a scratch
space of 4, two peers; three heads and one thing that goes wrong (a peer that
leaves, fails or lies, a payload, a shutdown, a crash).

### BlockChain

A block is a number and a fork; header, body and receipts are written and deleted
together. The key-value store applies a batch atomically and does not sync it, so
a crash falls back to any store since the last `SyncKeyValue`, and the freezer
keeps what `SyncAncient` covered. A call that holds `chainmu` is the sequence of
worlds (store and freezer) it passes through: it ends in the last one, or the
process dies in any of them. The freezing thread is five actions, between which
the chain goes on. `Opened` is `NewDatabaseWithFreezer` and `NewBlockChain` with
everything they repair. The network does not give up what is finalized, nor
reorganise deeper than the threshold below the highest head (`fixed`); the
threshold of the code (90,000 blocks) is there for that.

Every call may come between any two steps of the freezing thread, `SetHead`
included; for the thread a call is one step, and `freezeRange` reads its blocks
in one step. The history variable `crossed` records whether a call has stored or
removed one of the canonical blocks the thread was about to delete, or changed
their canonical hashes. `ChainComplete` fails in behaviours with such a call,
which is what the run `chain_freeze` shows; `storage` checks it, and that the
database reopens, in all the others. `FreezerIsFinal` is checked in all.

One switch names a behaviour that the passing run leaves out. `TornReorg`: a
crash may separate the last batch of `reorg` from the batch of the new head; the
run `chain_reorg` shows what follows.

Three instances in `storage`: a chain of three blocks with a crash, two of them
frozen in one go; two blocks with a fork at the tip, a crash and a `SetHead`; three
blocks with a fork of length two, a deeper threshold and a `SetHead`, without a
crash.

### FreezerTable

The index file, the data files and the metadata file of one table, each with the
content the process sees and the content that is known to be on the disk. An
operation is the sequence of disks it goes through, one per system call whose
loss can be told apart, and a crash may fall between any two, in the recovery
too; of what is not synced, a crash keeps any part. Up to five items are
appended, two to a file, with two crashes.

### PathDB

A root is the state it commits to: the value of every key. A tree of diff layers
on one disk layer with its write buffer, the state histories in a freezer, the
journal of a clean shutdown, `Recover`, `Disable` and `Enable`, and the generator
that rebuilds the flat states key by key. Store, freezer and crashes are as in
`BlockChain`. `Loss` says what a crash may lose. Four instances in `storage`:
histories are all kept, four blocks, two crashes and journals, and the store
loses writes; two keys are generated while blocks arrive, with a state sync, and
the freezer loses appends; the tail is pruned; the tree forks.

## 3. Runs

| Run | Expected | What it shows |
| --- | --- | --- |
| `clique` | pass | votes, tally, window and signers stay consistent, a majority decides, signers pause and the chain can go on; every cached or stored snapshot is the one of the block's own history, and what verifies can be built on; trusted checkpoints have the right signers and votes, on forks too; a block creates exactly the reward; reverts restore, and both paths to the database agree (644,360 states) |
| `txpool` | pass | resets are contiguous, `Sync` means a whole reset, heads arrive, everybody returns; the feed implements its promise and its callers return; the fetcher's indexes agree and no hash is stuck (14,086 states) |
| `legacy_pool` | pass | the structures of the pool agree, limits hold, only a reinjection leaves holes; one run at a time, done means done, nobody is left waiting; the loops of `truncatePending` cut all long lists at one level and end; the subchains of the skeleton stay sound, it works for the last head, and that head is reached (150,048 states) |
| `storage` | pass | no canonical block is lost between store and freezer and what a crash leaves can be opened, unless a call crossed the freezing thread; the freezer only takes final blocks; a table returns what was stored; the path database answers rightly or refuses, and recent states can be rolled back to (346,599 states) |
| `clique_window` | violation | with four signers, `number - limit` wraps in the first blocks (`clique.go:492`) |
| `clique_sealed` | violation | a block of `FinalizeAndAssemble` is refused once it is sealed |
| `txpool_sync` | violation | of two `Sync` callers one may wait for ever |
| `legacy_churn` | violation | a future transaction may cost the pool a pending one |
| `skeleton_heads` | violation | a lower head is taken for a repeated one and not followed |
| `chain_reorg` | violation | a crash in a reorganisation right above the freezer leaves a database that does not open |
| `chain_freeze` | violation | a call that falls between the steps of the freezing thread costs a canonical block |
| `pathdb_prune` | violation | a crash after the tail was pruned leaves a state store that does not open |

Deadlock is checked in `legacy_churn` only: the other systems may stop, with a
chain at its length bound, a loop that has ended, or callers that have all
returned; that they do not stop too early is what the liveness properties say.

Every property of a passing run has a mutant in `PROJECT.json`: a plausible slip
in the code under which TLC finds the property violated on the same instance.

### Fairness

* `TxPoolLoop`: weak for every goroutine that can go on; strong for the cases of
  the select, because Go picks among ready cases at random and each turn of the
  loop offers them again. None for the chain and for callers of `Sync` and `Close`.
* `Feed`: weak for a `Send` and an `Unsubscribe` that can go on, and for
  subscribers, which read until they unsubscribe; that is what the feed asks of
  them. Nobody has to subscribe or send.
* `TxFetcher`: weak for the two timers. No peer has to answer.
* `LegacyReorg`: weak, for goroutines that are not calls from outside. Every caller
  acts a bounded number of times, so weak fairness of the lock and of the select is
  all that is needed.
* `Skeleton`: weak for `Work`, the loop, the backfiller, peers that answer and
  come back, and a client that names its head again. The last two are assumptions
  about the outside: without an honest peer nothing can be fetched, and a head
  that is never named again may be forgotten in a crash.

## 4. Proofs

Every theorem is proved for all values of the constants that satisfy the named
assumptions; TLC evaluates the assumptions in the runs.

| Module | Theorem | States |
| --- | --- | --- |
| `CliqueVotingProofs` | `SnapshotStaysConsistent` | votes of current signers, at most one per account, exact tally, no recent block outside the window |
| | `ChainCanGrow` | while there is a signer, one of them may sign the next block |
| | `SigningStaysSpaced` | two blocks of a signer are as far apart as the smallest window since the first of them |
| | `TallyStaysRecount` | the tally is what a recount of the headers since the last checkpoint gives |
| | `MajorityAlwaysDecides` | only a majority of the signers then in force changes the status of an account |
| `TxPoolLoopProofs` | `ResetsStaySound` | resets are contiguous, the state is not behind, `Sync` means a whole reset |
| `LegacyReorgProofs` | `RunsStaySound` | one run at a time, done means done, quiet after `Close` |
| `FeedProofs` | `SubsStayListed` | every live subscription is in exactly one list |
| | `FeedKeepsItsPromise` | `Feed` implements `FeedPromise` |
| `TxFetcherProofs` | `FetcherStaysConsistent` | a hash is in one stage, what is requested is exactly what is marked as in flight, a hash in a peer's queue is indexed under that peer |
| `LegacyPoolProofs` | `ContentsAlwaysAgree` | lookup, lists and reservations agree, the front of every pending list is executable |
| `LegacyLimitsProofs` | `LimitsAlwaysHold` | the slots in use and the executable transactions stay within the configured limits |
| `LegacyGapsProofs` | `GapsOnlyByReinjection` | a step that takes nothing in but what `Add` brings keeps the pending lists free of holes |

`TypeCorrect` is proved for `CliqueVoting`, `TxPoolLoop` and `LegacyReorg`; for the
others typing is part of the inductive invariant.

**Voting.** The assumptions: accounts are a finite set of numbers that contains
zero, the epoch is positive, genesis has a signer, ballots are pairs of an
account and a direction. None of the invariants is inductive alone. The tally is
only decremented rightly if every vote on an account points in the direction the
tally has, which follows from the votes being valid for the present signers; the
votes stay valid only if a change of status removes all votes on the account and
a drop all votes by it; that removal is right for the tally only if the tally was
exact. `Good(s)` is their conjunction with the facts on `Recents`, and `IInv` is
`TypeOK` with `Good(snap)`. One lemma per stage of `apply` says what the stage
keeps; between the change of status and `ForgetAccount` only the weaker
`SoundExcept` holds. `ChainCanGrow` is a counting argument: after the shift the
window holds at most `Limit - 1` blocks, fewer than there are signers.

`HInv` adds what ties the snapshot to the headers behind it: `RecentsExact`, the
recent signers are exactly the signers of the blocks that every window since has
kept, and `VotesExact`, the list of votes is what the headers since the
checkpoint leave standing. `SigningIsSpaced` itself is one of its conjuncts.

**Coordinator.** There is a subpool and the last head is a natural number. The
heart of `IInv` is `OneReset`: the marker is in `resetBusy` exactly while a reset
goroutine exists, so there is never a second one. `HeadsOrdered` says that heads
only move forward from the chain to `newHead` to `oldHead`, `StateFollows` that
the state was advanced before the subpools, `WaiterServed` that whoever is the
waiter is covered by the reset under way or has a forced one to come.
`SyncRanReset` holds for any number of callers: what `txpool_sync` shows is that
a caller may not return, not that one returns too early.

**Legacy pool, goroutines.** The callers that wait are callers of `Add`, the
caller of `Reset` is another, nil is none of the values it stands beside.
`Channels` orders the done channels: every closed one is older than the next,
until the loop stops. `Replying` ties the loop to the one client it owes an
answer. `AddersServed` and `ResetServed` follow a request on its way: asked for,
collected for the next run under the channel that was handed out, in the run with
that channel, done. They are about a pool that is not shut down; `Close` may cut
any of them short.

**Feed.** Subscriptions are finitely many and each has a channel. `FInv` says who
holds the token (`LockHeld`), that the prefix of active cases is within the list
(`PrefixServed`), and that a subscription whose removal is under way is in the
list that the removal will search (`RemovingListed`). Lists are sequences in
which a channel may occur more than once, so everything is a matter of counting:
`Balanced` says that the occurrences of a channel in both lists are as many as its
live subscriptions, and lemmas on `Count` say what swapping, cutting, deleting
and appending do to it. For the refinement, `owed` is the count within the active
prefix; each action maps to a step of `FeedPromise` or to a stutter, one lemma
each.

**Fetcher.** The marks for an absent peer and an absent request are neither;
hashes are finitely many. `TInv` is about the indexes as arguments
(`Indexed`, `Waits`), because `scheduleFetches` is called at the end of most cases
with indexes that the case has just changed: one lemma says that it keeps
`Indexed`, whatever it is given, and one lemma per case that what it hands over
is indexed.

**Legacy pool, contents.** The limits are positive, heads give every account a
nonce and a balance, transactions have their type. The accounts are finitely many,
as addresses of 20 bytes are; transactions and heads need not be. `Good(p, K)` says of a pool in the middle of an
operation that lookup and lists agree and that it holds exactly the accounts it
tracks, but for those in `K`, which are reserved before their first transaction
arrives (`add`) and released after their last has gone. `Fits(p, s)` is
`FrontExecutable` with one more fact without which it is not inductive: an
account without pending transactions has a virtual nonce that is not above the
state's, so that what `promoteExecutables` takes for the next nonce is. There is a
lemma for every function of the code and one for every action; `OutcomesExist`
and `ReinjectGood` carry the facts through the reinjection of any number of
transactions. Induction is replaced by a least counterexample throughout.

`LegacyLimitsProofs` adds `Within`: the slots of the lookup are within the total, and
the pending lists are `Bounded`. The slots are a sum over a set that the model
takes with a fold; the lemmas up to `SlotsSplit` say what it is for any finite set,
by the least set for which it is not. `VictimsSuffice` then says that whatever set
is discarded makes room for the new transaction, `SwapBounded` that a replacement
changes no list's length, and `TruncateBounds` that the level of `truncatePending`
(`LevelChosen`) brings the total within `GlobalSlots` unless it is `AccountSlots`.

`LegacyGapsProofs` proves the action property. `Exact` is `PendingExecutable` for one
account. A removal keeps it because everything behind a removed transaction goes
and the virtual nonce falls to the first removed one (`RemovalCutsBack`);
`promoteExecutables` because the run it finds starts at the virtual nonce, as every
nonce below is taken by a pending transaction (`PromoteExtends`). A reset moves the
nonce `Exact` counts from. When an account's nonce does not fall, its list is still
`Unbroken` from the new nonce on, whatever is discarded while others' transactions
come back, and `demoteUnexecutables` with `setAll` make it `Exact` again. When it
falls, the strengthening `Floor` is needed: no transaction in the pool has a nonce
that the head has used. Then the front of the list would have to be a transaction
that came back, so the list is empty (`ResetEmpties`).

### What is only model-checked

* Liveness, which is out of the prover's reach: `HeadsReachSubpools`,
  `EveryoneReturns`, `FeedCallersReturn`, `FetcherProgress`, `EventuallyReached`.
* What is about `BlockChain`, `PathDB` and `Skeleton`: their calls walk chains with
  recursive operators, which the prover does not take.
* `EngineCachesCoherent` and `EngineHeadersAgree`: they hold on chains shorter than
  the threshold after which a checkpoint is trusted, and the second only while the
  window does not wrap (`clique_window`), both facts about the instance.
  `CheckpointsSound`, which compares with a fold over the whole chain.
* `RewardsConserved`, modular arithmetic with division, which is not linear.
* `StateImplementsStack`, `StateDatabaseAgrees` and `TableSurvivesCrash`: the
  journal and the files are sequences that are folded, and the induction over them
  is the whole argument. `TruncateIsFair` likewise.

## 5. What the violations show, and what was seen on the way

* `clique_window`. `verifySeal` decides who signed recently by
  `seen > number-limit`. While `number < limit` the unsigned difference is huge
  and nobody counts as recent; `Snapshot.apply` refuses the same header, so the
  block is accepted and nothing can be built on it. It needs at least four
  signers, which is why the engine in `clique`, with up to three, passes.
* `clique_sealed`. `Finalize` asks for the author before there is a signature,
  drops the error and credits the zero address. The importing node credits the
  signer and finds another root.
* `txpool_sync`. `resetWaiter` is one variable; a second request overwrites it.
* `legacy_churn`. `isGapped` looks at the pool before the victims leave it. If a
  victim is the predecessor of the new transaction, the new one ends up a future
  transaction.
* `skeleton_heads`. A head below a subchain of one header is ignored when the
  database has that header at its number, even when an older subchain left it.
* `chain_reorg`. The canonical hashes above the common block are deleted in one
  batch and the new head is written in the next.
* `chain_freeze`. The freezing thread appends a batch to the freezer and then
  deletes the blocks from the store by the hashes it read before, with no lock in
  between. In the run `SetHead(0)` truncates the appended block again, the block
  is imported anew, and the thread deletes it: it is in neither database. With
  `MaxRewind = 0` in the same configuration the property fails on a longer way.
  After a crash the head is below block 1, which was finalized before; the thread
  freezes and deletes block 1; `SetCanonical` of block 2 finds no state of block
  1, executes it and stores it again (`recoverAncestors`); the thread then takes
  that copy for a side block and block 2, the head, for dangling.
* `pathdb_prune`. States are flushed before their histories are pruned, but the
  store is not synced in between.

Seen while modelling, without a run of its own:

* With `ShorterHeads`, `SubchainsSound` and `EventuallyReached` of `Skeleton` fail
  too: in the branch of `cleanStales` for a fill beyond the head the trimmed
  subchain and its headers are written apart.
* `reorg` returns its two errors of a corrupt database while it holds
  `txLookupLock` (`core/blockchain.go:2339-2395`).
* A `forkchoiceUpdated` for a block that is still canonical above a repaired head
  is answered as valid and ignored (`eth/catalyst/api.go:318-330`).
* A dropped peer is removed from `announced` but not from `alternates` of hashes
  that others fetch (`eth/fetcher/tx_fetcher.go:813`), where line 776 says "remove
  all traces of it"; beyond the limit, `want-maxTxAnnounces` announcements are
  kept and not the ones that fit (line 442).
* In `triedb/pathdb`, `Journal` does not sync the freezer before it writes, and
  `Enable` resets the freezer before the store is synced. The model excludes
  adding a root again that is already in the tree.
* A resume of the backfiller is ignored while a cancelled fill has not ended.
* The comment in `Finalize` (`clique.go:581`) says that the state remains as it
  is; the lines below it credit a reward. The comment of `CalcDifficulty`
  (`clique.go:646-647`) swaps the two values.
* The last signer may vote itself out; `inturn` then takes a remainder by zero.
* A reset that gives back only some of an account's transactions leaves a hole
  behind the front of its pending list; `demoteUnexecutables` looks for a gap in
  front only. `OnlyReinjectionLeavesGaps` shows that this is the only way.
* A promotion request merged into a reset is served with the virtual nonces just
  set back to the state's: the transaction after the pending ones stays queued,
  with no request outstanding.
* The tip is compared before the lock is taken and not again under it.
* `New` of the coordinator reads the head before the loop subscribes; a head
  announced in between is noticed with the next one only.
* Nothing fills `rewardSnapshots` or `proposals`.
