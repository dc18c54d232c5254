# Shifupool: models, checks and proofs

Shifupool is a mining pool in two programs: an Elixir application that accepts
miners, counts their shares and pays them (`src/shifupool`), and a C++ backend
that hashes and signs for it (`src/c++/src/miningproblem`), built on the core
library of a node of the chain, whose server code is in the repository too
(`src/c++/src/core`, `src/c++/src/server`). This directory holds TLA+ modules of
it, TLC configurations and proofs. `PROJECT.json` lists the components, the runs,
the source lines of every definition, the hazards and the theorems.

## Inventory

| component | state | operations | correct when |
| --- | --- | --- | --- |
| `Poolstate.Mining` | current round, height, unprocessed round, share total, set of known proofs, block hash | `new_height`, `check_pow`, `add_valid_share`, `notify_processed_block`, `transaction_data`, timers | rounds follow one another without gaps left open; a share is counted once, for the round and block it was made for |
| `Poolstate.DB` | SQLite tables `rounds`, `payouts`, `owner_payouts` inside one open transaction | calls and casts, a flush every 10 s | what a payout relies on is committed; totals agree with the rows |
| `Payout.Genserver`, `Payout.Task` | the running task and its round | `notify`, the task's steps, `payout_done` | every closed round is paid, nobody twice, never more than was mined |
| `Nodes.GenServer`, `Nodes.Agent`, `Nodes.HashrateTask`, `Requests` | longest chain, good nodes, cached hash rate | poll `/mine`, submit blocks, balances | each new height is announced once and in order |
| `Users.*` | one process per connection, registries, bans, wallets per IP, rate limiters | initialize, submit, ping, work dispatch | limits hold; a connection's state is always one its handlers accept |
| `Backend`, `Work`, C++ backend | one global block | problem, add transactions, hash, submit, sign | a submitted block is the one the nonce was found for |
| `HistoryChart`, `ApiData`, `TruncatedLog`, web | statistics | timers, queries | not about money; left aside |
| node: `BlockChain`, `Executor`, `Ledger`, `TxStore`, `BlockStore` | chain, balances, transactions on disk | add, pop, sync, rollback | rollback undoes execution, a restart finds a consistent chain |
| node: `MemPool`, `RequestManager`, `RateLimiter` | pending transactions and outstanding amounts | add, finish block, sync | outstanding amounts are the sums of what is queued, and nothing queued is in the chain; no deadlock of the locks but the two known ones |
| node: `HostManager`, `HeaderChain` | peers, their headers and work | ping, sample, sync | the best peer is chosen from consistent headers |
| node: `MerkleTree`, `Worker`, `Block`, `Transaction` | trees, jobs, data | proofs, mining loop, formats | proofs verify, a given up job stops |

The build (`src/c++/src/meson.build`) makes the backend from the core library
without `header_chain.cpp`; it lists neither the host manager, the worker nor the
server. The node's code is modelled from its source all the same, except the
worker, which calls `mineHash` with parameters it no longer has.

Interaction in the pool: nodes are polled by `Nodes.GenServer`, which casts
`new_height` to Mining when the chain grows. Mining closes and opens rounds in the
database, asks the backend for work, dispatches it to the connections, and casts
`notify` to the payout process when the oldest closed round is deep enough.
Connections call Mining to credit shares, and Mining calls the database. A payout
task calls and casts to the database, asks nodes and backend, broadcasts, and its
end is cast back to Mining. What is hard in it: the casts are asynchronous, the
database commits on a timer, processes restart alone or in groups
(`rest_for_one`), Mining caches what the database knows, and nodes may not answer.

Interaction in the node: request threads hand transactions to the pool of
transactions and blocks to the chain; a thread of the chain compares it every ten
seconds with the best peer's headers, which one thread per peer downloads; the
chain executes blocks on ledger and transaction store, writes the block store and
tells the pool of transactions. The host manager keeps the peers, their headers and
the network's time, which the chain asks for. What is hard in it: two locks taken in
both orders, exceptions between lock and unlock, questions answered at different
moments, three databases written one key after the other, and readers that take no
lock.

`PROJECT.json` lists these hazards at their lines; those without a property carry
a note that says why.

## Modules

The pool:

* `PayoutMath` is the arithmetic of `Payout.Task.work`: fee, divisor, payouts, the
  owner's part. `Computations` applies it to every distribution of shares and every
  balance, compares it with the exact contributions, and the two counts of zero bits
  (`ProofOfWork`) for every hash.
* `PoolRounds` is the core of the pool: Mining, the database, the payout process and
  its task, with their failures.
* `PayoutLedger` is what the pool promises of payments, without processes: a row
  gets one transaction for good, only saved transactions are sent.
* `ShareCredit` is the other half of the pool's work: connections that submit
  proofs, Mining's handlers of new work and of shares, and the request threads of
  the C++ backend on its one block. `MCShareCredit` adds the symmetry of
  connections.

The node:

* `Executor` is the ledger and what executing and undoing transactions does to it;
  `BlockExecution` runs one block through it, transaction by transaction.
* `Headers` and `Difficulty` are what blocks and their difficulties are; `ChainCore`
  has every operation of a `BlockChain` object as an operator on a record of its
  memory and its databases. Three modules use these operators: `BlockChain` (one step
  per operation, restarts, crashes between two writes), `Node` (threads and locks) and
  `ChainSync` (`startChainSync` over the peers of `HeaderChain`).
* `LinkedChain` is what a chain promises its readers: linked blocks, no transaction in
  two of them, nobody pays what he does not have. `BlockChain` implements it.
* `BlockStore` is the block database, key by key, with a reader without the lock.
* `HeaderChain` is what a node knows of each peer's chain, `HostManager` the peers
  themselves, `RateLimiter` the limit of requests per address.
* `MerkleTree` and `ProofOfWork` are pure computations.

For TLC: `MCBlockChain`, `MCNode`, `MCChainSync` give blocks and transactions;
`MCAlgorithms` enumerates the inputs of the pure computations; `MCParts` puts the parts
that share no state into one run, in which the variable `running` says which of them
runs. Proofs are in `PoolRoundsProofs` (with `Computations`), `ShareCreditProofs`,
`BlockExecutionProofs` (with `BlockStore`), `BlockChainProofs`, `NodeProofs` and
`PeerProofs` (`HeaderChain`, `ChainSync`, `RateLimiter`, `HostManager`); `ChainCoreProofs` holds the lemmas on the executor and on
the operations of one `BlockChain` object, `SumLemmas` those on sums, remainders, least
and greatest elements. The chain's properties stand in `BlockChain` itself, so that runs
and theorems state the same ones.

Lines beginning with `\* Mutant:` introduce definitions that are plausible
mistakes. No specification uses them; each shows that a property notices one.

### PoolRounds

State of `PoolRounds` and the code: `db` is what Poolstate.DB's connection reads,
`disk` what is committed, `dbq` the payout task's casts in its mailbox. `mining`
holds Mining's fields; its `pc` is `"wallet"` while `new_height` is between
`setend_round` and the answer of `create_wallet`. `task.pc` names the next call or
cast of `Payout.Task.work`, line by line. `notify` and `done` are casts not yet
handled. `signed` and `broadcast` are histories.

A GenServer call is one step of caller and callee, because the caller waits. A cast
is a step of its own, followed by a step of the receiver. Erlang keeps the order
of messages between two processes: a task's call is answered after its own earlier
casts (`CanCall`). `new_height` and the report that causes it are one step while
Mining is idle, and a height reported while Mining is down is lost (`HeightLost`);
a height queued behind a busy Mining is one reported a little later. A failing
Mining falls back to nothing and is rebuilt from the database by `MiningInit`; a
failing database takes Mining with it, and uncommitted rows are rolled back.

Abstractions: a row of `payouts` is named by round and address, not by its ROWID.
Wallet keys, `unpaid` (written, never read), hash rates, block hashes and powsets
are left out. A signed transaction is the number of the signature made for its row.
The float divisor is the rational one rounded, which agrees for share totals below
2^53 / 100. A balance is any member of `Balances`; `0` stands too for the answer of
a node that does not know the wallet.

### ShareCredit

| variable | code |
| --- | --- |
| `mining` | Mining's `blockhash`, `powset`, whether a difficulty is set and a round exists; `pc` tells for which answer of the backend it waits |
| `calls`, `txdata` | Mining's mailbox: `add_valid_share` calls and `transaction_data` casts |
| `db` | `pool_shares` of the round and the rows by connection |
| `backend` | `globalBlock`: header (`root`), transactions (`body`), nonce, and the block a thread is writing |
| `conn[c]` | the process of a connection: `pc` is the next step of `process_submit`, `work` the last hash sent, `seen` the hash read from Mining, `pow` the proof, `accepted` the connection's own count, `out` what `/submit_pufferfish` has copied so far |
| `inbox[c]` | the casts `send_work` and `close` not yet handled |
| `epoch`, `credited` | histories: how often the powset was emptied, what was credited |

Mining's `new_height` and `transaction_data` are a start and an end each, because
Mining waits for the backend while connections go on. In between, the backend's
thread has written one part of the block: C++ assigns member after member and the
submitting threads see the mixture, since none of the threads takes a lock. Mining
asks for one thing at a time; only a Mining that fails while it waits leaves a thread
of `/problem` or `/add_transactions` behind, and the model assumes that this thread
ends before a restarted Mining, which reads the database and waits for the nodes'
next height, asks again (`BackendQuiet`). `/submit_pufferfish` is four steps (`SetNonce`,
`VerifyNonce`, `SerializeHeader`, `CopyTransactions`), the accesses to the block
that other threads can come between. A call to Mining that is answered from its
state is one step when Mining is idle; `add_valid_share` is queued in `calls`, so
that it can be handled after its caller has given up (`CallTimesOut`).

Abstractions: a block is `<<job, batches>>`, which stands for its hash; a proof is
made for one hash and has share value 1 (difficulties of 60 and more, for which
Mining does not look at the powset, are left out); `Solving` are the nonces that
reach the network's difficulty; a closed connection does not come back, another
one takes its place; rate limits, bans and addresses are left out; the round is
the one `PoolRounds` models, here only whether there is one.

### The chain of a node

`ChainCore`'s record `chain` holds `ledger`, `txdb`, `blocks`, `count` and `work`,
which are on disk, and `numBlocks`, `totalWork`, `difficulty` and `lastHash`, which are
in memory. A block is a name that stands for its hash, `BlockBody` gives its contents;
whether its nonce and its Merkle root are right is part of them, and so is a
transaction's signature in `TxBody`. `AddBlock` has the checks of `addBlock` in
their order and `Execution` those of `ExecuteBlock`; a removed block is undone by
`RollbackBlock`, which is other code than the undoing of a failed one.
`BlockChain`'s `CrashAdding` and `CrashPopping` stop an addition or a removal after any of its writes
(`AddWrites`, `PopWrites`) and rebuild the memory with `InitChain`. Amounts wrap around at `AmountLimit`.

`BlockExecution` cuts the same operators into steps, with the ledgers in between as a
history. It leaves out wallets that appear in the ledger with no money: `SameMoney`
compares values.

`BlockStore` has the writes of each operation as a list (`todo`) that is done one by
one. Its rows are named by the block they were written for, so that a torn read or
a half overwritten block is seen.

### Node

| variable | code |
| --- | --- |
| `chain`, `stable` | the `BlockChain` object; history: what it was when the lock was taken |
| `chainLock`, `poolLock` | the mutexes of `BlockChain` and `MemPool` and who holds them |
| `adder[a]` | a thread in `MemPool::addTransaction`: it waits for the pool (`"pool"`), for the chain (`"chain"`), it puts the transaction into the queue (`"queue"`), it has thrown with the pool's lock still taken (`"threw"`) |
| `writer[w]` | a thread in `submitProofOfWork` or `startChainSync`: lock, remove, execute, undo, finish, commit, release |
| `queue`, `outgoing`, `toSend`, `sent` | the pool's set, its outstanding amounts, what the sending thread has to send and has sent |
| `early` | history: transactions of blocks added before `setMemPool` |

`startChainSync` is here any number of removals followed by any blocks, all under one
hold of the lock; `ChainSync` says which. A thread that threw does nothing more, but the
starter does: the constructor of the request manager catches the exception of its own
transaction (`request_manager.cpp:22`) and goes on to `SetMemPool`.

### ChainSync, HeaderChain, HostManager, RateLimiter

`HeaderChain`'s `load()` is cut wherever it writes a member that other threads read
(`Load`, `Fetch`, `CheckHeader`, `NextBatch`), since none of them takes a lock: `Publish`
writes length, work and failure one after the other, and a failed download notes the
failure (`Fail`) before `Reset` takes it back and throws away work, length and hashes; what a peer answers is `peer`, which changes at any time. `ChainSync` asks for
best host, length, work and hashes in separate steps between which the headers move; a
question about all peers is one step. `calm` is a history: what was known of the peers
agreed with them when the round began and did not change.

`HostManager` handles an `add_peer` request in steps because the host is asked for its
name in between. Time is counted in ping periods. Hosts that send on another's request
give their own time. The parsing of answers, the list's file and the version check are
left out (a request of another version does nothing). Differences of clocks are cut to
`int32_t` where the code stores them and where it adds two of them; `Int32Limit` stands
for 2^31, and an overflowing addition is taken to wrap. `ahead` is a history: how far
ahead the clock was that a host's delta was taken from.

`RateLimiter` has several threads, because `limit()` takes no lock: a request looks its
address up, inserts it, or compares its time point with the clock and then writes the new
one (`LookUp`, `Insert`, `Compare`, `Move`). The point is read once, by `Compare`, as a
compiler may keep it; the code names it twice, and the repository has no build of the
server that would tell. Two insertions at once are undefined for `std::map`; the model
has the outcomes in which the map survives and one of them wins.

## Runs

| run | module, bounds | shows |
| --- | --- | --- |
| `parts` | `MCParts`: 3 participants of 6 shares and 40 leaves; difficulties at both ends, -3 to 400 seconds; blocks of 5 transactions for trees, of 3 for execution; 3 stored blocks, 2 crashes; 2 threads in a limiter of 2 requests over 3 s, for 4 s; one peer, 3 changes; 2 or 3 hosts, 3 periods | `RoundCovered`, `DifficultyFits`, `RootFixesTransactions`, `ZerosAgree`, `DeltasExplain`, `Restored`, `BlocksWhole`, `RateBounded`, `RacesBounded`, `KeepsPingers`, `NetworkTimeMirrored`, `HashesLinked`, `NeverShrinks` |
| `rounds` | `PoolRounds`: 4 heights, 1 address, 1 share in each round, any 2 faults of payout, Mining, nodes, database process or the pool, fair | `TypeOK`, `RoundAmounts`, `RoundsSettled`, `BroadcastSaved`, `OnlyLastRoundOpen`, `PaidOnce`, `SharesFrozen`, refinement of `PayoutLedger`, `RoundsGetPaid` |
| `shares` | `MCShareCredit`: 2 heights, 1 batch, 2 credits, Mining fails or a call times out once | `CreditedOnce`, `MiningKnowsBlock`, `NoStaleWork` |
| `shares_live` | 1 height, 1 batch, 1 credit that solves the block, any one fault, fair | `AcceptedIsCredited`, `SubmissionsEnd` |
| `chain` | `MCBlockChain`: a chain of seven blocks with a retarget and three changes of the fee, two forks, a block for every check, 1 crash | `ChainLinked`, `WorkOfChain`, `StateOfChain`, `VerdictsAgree`, refinement of `LinkedChain` |
| `node` | `MCNode`: 2 request threads, one submitting and one synchronising thread; 3 requests, 2 submissions, 1 round; 3 blocks, 4 transactions | `StuckOnlyKnown`, `PoolAgrees`, refinement of `BlockChain` |
| `node_live` | the same with 2 blocks, 2 requests, 1 submission, fair | `RequestsEnd` |
| `chain_sync` | `MCChainSync`: 2 peers with one of three chains, 1 change of a peer, 1 submission | `KeepsTrusted`, `RoundGains` |
| `chain_sync_live` | 1 peer, 1 change, 1 submission, 1 restart, fair | `NodeFollows` |
| `shares_submit_lock` | 1 height, 2 credits that solve the block, no faults | a block is sent to the nodes with a nonce that was not verified |
| `rate_limiter_doc` | `RateLimiter`: 30 requests over 5 s | the 31st request is accepted in the first period |
| `loss_doc` | `Computations`: 2 participants of 20 shares and 8 leaves | a participant loses more than the leaf the document allows |

`CHECK_DEADLOCK FALSE` is set where the bounds stop the environment: heights, shares,
requests, times. `chain`, `chain_sync` and `chain_sync_live` do check for deadlocks.

### Bounds

In `rounds` rounds have 1 block, the payout delay is 1, shares have value 1, the fee is 4
percent, at most one notification waits. With four heights there are rounds that start
at blocks 1, 2 and 3; the first two are closed and due one after the other, and the second
can wait while the first is paid, is paid again or fails: the shortest chain on which
rounds can overtake each other. Two faults of any kinds let a failure hit the recovery of
another. One address is enough because each statement handles all the rows of a round
together; how a balance is distributed over several is `RoundCovered`'s question. The
balance of 6 pays one share and its fee. Shares are not credited to rounds that the last
height leaves no time to pay.

In the runs of `ShareCredit` two connections have one nonce: the same proof may come
from both, the first is credited and the second a duplicate. Two heights let shares,
work and transactions of one height arrive in the next; one batch changes a block
without a new height; two credits are enough for a proof to be credited in each of two
epochs. No nonce solves the block in `shares`: a solution touches Mining's and the
connections' bookkeeping only at its end (`Accept`); the last step of a submission
and all its failures are in `shares_live`.

The blocks of `chain` are those a node can be sent: for every check of `addBlock` and
`ExecuteBlock` one that fails it and passes the ones before, a retarget after each second
block (with one that the elapsed time changes), a median over two blocks. One crash
already hits every write of an addition and of a removal. In `node` the submitted
blocks hold queued transactions, transactions never queued, and one whose execution
fails half way; three requests let two threads meet in the pool while a third
transaction is in a block. In `chain_sync` the chains fork at the second and the
fourth block, with a retarget between; a block with a wrong Merkle root may be submitted;
two peers are enough for answers of two. In `parts` a limiter of 2 requests over 3
seconds has a share that is a rounded quotient, in ticks of half a second, and one move
of its time point may be undone (`MaxUndone`); clocks are up to 3 units off and
differences have three bits, so that some differences and some sums do not fit; blocks of three transactions let sender, receiver and miner be one
wallet and the miner's reward stand anywhere; three stored blocks are the fewest of
which one is replaced and another kept.

### Fairness

`RoundsGetPaid` assumes weak fairness of the pool as a whole (`PoolGoesOn`): while a
GenServer has a message, a supervisor a child to restart, a task a next line, or the nodes
a higher chain to report, some of this is done. No process needs to be preferred. Only
the nodes' balance needs more, that they do not fail to report it for ever (strong
fairness of `TaskBalance`, because a silent network ends the task and the next one asks
again). The chain grows past the payout delay; the last height that the bound allows is
not counted on. The property speaks of states in which all faults have happened; a
behaviour without faults is among these too, because restarting the nodes' process before
the first height changes nothing.

`SubmissionsEnd` assumes weak fairness of each action of Mining, connections and supervisor, and that a
request of Mining to the backend is answered or fails (HTTPoison has a timeout).

`RequestsEnd` assumes that every thread goes on and that a free lock is taken by one
that waits; the numbers of requests and rounds are finite. It excepts the two states
the node never leaves: `LockCycle`, in which a request holds the pool's lock and waits for
the chain's while the chain's thread waits for the pool's (`mempool.cpp:67`,
`blockchain.cpp` calling `finishBlock`), and `LockLost`, after an exception between
`lock()` and `unlock()` (`mempool.cpp:76`).

`NodeFollows` assumes that `chain_sync` and each header chain's thread go on for ever;
both loop with a sleep of ten seconds. It excepts a node that forgot the difficulty of
the next block (`blockchain.cpp:66`, `:281`) and a header chain that is no shorter than
its peer's and another one, which `load()` never looks at again.

### What the properties do not say

* `RoundsSettled`, `SharesFrozen` and the half of `RoundAmounts` that is about a payout
  (`PayoutsCovered`) hold until a payout, running or notified, outlives the database
  process (`faults.outlived`). When that process alone restarts in the middle of one, casts
  of the still running task are lost and the round may be processed without its
  transactions. `stratum-protocol.md:83` promises nothing for that case.
* `CreditedOnce` counts within an epoch. A proof that was hashed before a new height
  and handled after it is credited, though its block is old, and may be credited again
  by the same race: the powset has been emptied. The check of the hash happens before
  the backend's hash request (`worker_connection.ex:127`), not when the share is
  credited.
* `StateOfChain`, the second half of `VerdictsAgree` (`SameVerdict`) and the refinement hold
  until a crash. After one the ledger may hold a part of a block; `ChainLinked`,
  `WorkOfChain` (each crash costs at most one block's work) and `BlocksWhole` say what is
  left.
* Amounts wrap around, and the code checks no sum of them. Balances are therefore those
  of the blocks modulo `AmountLimit`; that none is below zero, that they add up to what
  was minted, and the refinement, are for chains whose sums stay below it (`Moderate`).
* `SameVerdict` excepts what the code gets wrong or leaves open: the difficulty after a
  full period, which a restart or a removal forgets, and transfers of nothing from a
  wallet that only one of the two ledgers has.
* `BlocksWhole` lets a reader see parts of two blocks when a block was removed while it
  read.
* `RacesBounded` allows a host as many times more, and peers as many too many, as
  requests are handled at once beyond the first.
* `RateBounded` does not count a request whose move of the time point another thread's
  write undid; nothing bounds those. Without overlapping requests there are none
  (`OneByOneIsBounded`).
* `NetworkTimeMirrored` says where the code puts the network's time: on the other side of
  the node's own clock than the majority's clocks, as far away as they are. It does not
  say that this is right (see below).
* `KeepsTrusted` and `RoundGains` are about rounds in `calm`. When headers are thrown away
  or exchanged between the questions of a round, the best peer's length, work and hashes
  may belong to different chains; what a round does then is in the model and judged by no
  property.
* `ChainLinked`, `VerdictsAgree` and `NodeFollows` know the forgotten difficulty
  (`blockchain.cpp:66`, `:281`) and except it; `StuckOnlyKnown` and `RequestsEnd` except
  `LockCycle` and `LockLost`. The defects themselves are described, not excluded: the
  properties say that there are no others of their kind.

### Divergences

Shown by a run: `main.cpp:225` was meant to lock and declares a function, so two
solutions submitted at once mix (`shares_submit_lock`); the limiter's cost of a request
is 0 for more requests than seconds (`rate_limiter_doc`), which is how the node
constructs it; `stratum-protocol.md:87` bounds the loss by rounding by one leaf, but the
code's divisor and the leaf it holds back cost more (`loss_doc`: one share and two mined
leaves, of which nothing is paid). With few shares the loss grows with the balance; with
at least as many shares as leaves it stays below four (`LossIsBounded`).

Found while translating, without a run of their own:

* `stratum-protocol.md:88` says transactions carry no fee; `task.ex:27` sets it to 1.
* `stratum-protocol.md:26` says work carries the hash of the mining problem; before the
  first height after a start of Mining it is empty.
* `blockchain.cpp:196` says the ledger is rolled back to its original state; a wallet
  that a verified transaction pays for the first time stays in it with no money.
* `header_chain.cpp:86` looks the checkpoint up by the number of the batch's first
  block, not of the header it checks; checkpoint 2 is looked at only when a batch
  begins there.
* `host_manager.cpp:287` stores own time minus theirs, and `getNetworkTimestamp` adds the
  median (`:157`, `:160`): where most peers' clocks are ahead, the network's time, which
  decides which blocks are in the future (`blockchain.cpp:297`), is behind the own clock
  by as much. `NetworkTimeMirrored` says so of the code; no document says otherwise.
* `host_manager.cpp:143` and `:427` speak of the last hour; `HOST_MIN_FRESHNESS` is
  three.

## Proofs

TLAPS proves, for all values of the constants that the modules' assumptions admit, the
theorems below. Each rests on an inductive invariant that TLC has checked first.

About `PoolRounds`, under `ConfigAssumption` and `FeeAssumption`:

* `TypeCorrect`: `TypeOK`, strengthened by `WaitsAndRuns` (a Mining that waits for
  a wallet knows the height, a running task its round).
* `RoundsClosedInOrder`: `OnlyLastRoundOpen`. By itself it is not inductive: a
  restart reads `disk` and Mining inserts after what it remembers, so `RoundsInv`
  adds that Mining's round is the newest one, that a waiting Mining has closed it
  and is about to insert a later one, and that nothing uncommitted survives a
  failed database (`DownIsDisk`).
* `PaymentsCorrect`, and from it `BroadcastIsSaved`, `NobodyPaidTwice` and
  `ImplementsLedger`. `PaidOnce` speaks of broadcasts only; what makes it inductive
  is that at most one insert cast exists and it meets rows without a transaction
  (`InsertsFree`: a task reads the rows only when its casts, and those of a failed
  predecessor, are handled), that the open SQL transaction never replaces a
  committed payment (`CommittedKept`), and that a task asks for its transactions
  behind its own flush (`FlushedFirst`).
* `TotalIsSum`: Mining's share total is the sum of the round's rows, after every crash
  too. `SumsInv` says it of the totals of all rounds, of those read and those committed.

The next three assume `Deployment`, that the payout delay is not 0, and hold until a payout
outlives the database process. The pool runs with a delay of 150 (`runtime.exs:64`); with
0 a restarted `Nodes.GenServer` may have Mining credit shares to a round that is due.

* `StartedRoundsFrozen`: `SharesFrozen`, an action property. `SettleInv` says that what
  is processed, notified, or in a cast or a task is a round with a later one, that a
  round about to be paid has no unprocessed one before it, and that Mining's round has
  not ended at Mining's height.
* `RoundAmountsCorrect`: `RoundAmounts`. `CoverInv` adds that a task has the total of its
  round from when it read it on, which `SettleInv` keeps from changing.
* `RoundsSettledInOrder`: `RoundsSettled`. `PaidInv` follows the mark of a round: in the
  mailbox of the database it stands behind the inserts of everything the round owes.

The amounts are sums over the addresses, so these theorems assume finitely many
addresses (`FiniteAssumption`).

About `ShareCredit`, under `ShareAssumption`:

* `SharesTypeCorrect`: `TypeOK`, strengthened by `SubmitsPow` (a connection that
  submits has a proof, which Mining and backend are handed).
* `SharesCountOnce`: `CreditedOnce`. The total counts the shares credited only if each
  one credited is new; `PowsetKnows` says why: what was credited in this epoch is in
  the powset, and a step that empties the powset opens another epoch.
* `MiningAndBackendAgree`: `MiningKnowsBlock` when the backend answers. A failing
  Mining leaves a thread writing, so the invariant (`BlockInv`) adds that Mining waits
  only while a thread writes, and that nothing is written while an idle Mining has a
  hash; a restarted one has none until the next answer.
* `CountsAgree`: `AcceptedIsCredited`. `OneCallEach` says that a connection has at most one
  call in Mining's mailbox, and only while it waits or when it has ended; meanwhile the
  credit may be one ahead of the connection's count.
* `MinersGetNewWork`: `NoStaleWork`. `WorkInv` says that a registered connection has
  Mining's hash as the last work in its mailbox, or sent and nothing later in the mailbox,
  or is still to be initialised; and that nothing is sent to the others.

About `BlockExecution`, under `ExecutorAssumption` and `BlockExecutionAssumption`, for
every list of transactions, ledger and width of the amounts: `DeltasExplainBalances`,
`UndoingRetraces` and `BlocksAreUndone` (`Restored`). The invariant says that the deltas are the
difference to the first ledger at every step of an execution, and that every step back
meets the ledger of the step forward (`past`); it rests on lemmas about sums modulo
`AmountLimit`, in which the order of deposits and withdrawals does not matter, also
where two of the three wallets are one.

About `BlockStore`, under `BlockStoreAssumption`: `StoredBlocksWhole` (`BlocksWhole`), for
blocks of any size and any number of crashes. `WriterInv` names the phases of the writer
(an addition, a removal, a reset, each with the number of writes done) and what is on
disk in each; `ReaderInv` says what a reader has while nothing was removed under it.

About `BlockChain`, under `ChainAssumption`, `GenesisAssumption` and `WorkAssumption`:
`BlocksStayLinked` (`ChainLinked`) and `WorkIsSum` (`WorkOfChain`). `ChainInv` has two parts:
`Sound` says that blocks, count, work and last hash of memory and disk agree, that the
blocks are linked and which difficulties may follow; and the distance of the work from
that of the blocks (`Off`) is at most `MostWork` for each crash. Both are shown of the operators of `ChainCore`, so that `Node` and `ChainSync`
use the same lemmas. `WorkAssumption`, that a power of two is a natural number, is stated
because the provers do not know the operator `^`; TLC evaluates it for every block of the
runs. That the transactions of a block can be put into the order of their hashes is a
lemma (`SetIsSorted`, `OrderedIsSeq`).

Until a crash more is true, and is proved with finitely many wallets (they are arrays of
25 bytes):

* `StateIsOfChain` (`StateOfChain`): balances and transaction store are what the blocks say.
  The balances of the blocks are sums of integers over all their transactions, the ledger
  is changed by wrapping additions one at a time, in another order when a block is undone,
  and not at all when a block is refused half way. `StateInv` is `ChainInv` with what keeps
  the two together: ids count the blocks and every block pays a miner (so that
  each fee has a receiver), each balance is the sum modulo `AmountLimit`, the store has the
  transactions of the blocks with their ids, and (`PaidOf`) every part of the chain from the
  first block on that is moderate has no balance below zero. That last part is about all
  shorter chains because a removal must know it of the one it returns to.
* `ChainImplementsLinkedChain` (`ImplementsLinkedChain`): an accepted block follows in the
  sense of `LinkedChain`, a removal cuts, and nothing else moves the history. The check of a
  sender's balance is made with wrapped values while the block executes; that it implies
  the balance of integers after the block needs `PaidOf` before it.
* `JudgesAgree` (`VerdictsAgree`): the ledger of a node with another past may hold wallets
  with no money, so two nodes do not have equal ledgers; the proof shows that executing a
  block keeps them alike (`ExecutedAlike`) as long as no transfer of nothing occurs.

About `Node`, under `NodeAssumption` and those of `ChainCore`:

* `OnlyKnownDeadlocks` (`StuckOnlyKnown`), for any number of threads. `LockInv` says who
  holds which lock at which place; a waiting set without the two known shapes would
  need a holder that waits.
* `LocksMakeAtomic` (`ImplementsBlockChain`): what the threads do under the locks is, seen
  from outside, one step of `BlockChain` or none. `ChainPart` says what each
  holder of the lock has made of the object it found (`stable`); a step without the lock
  leaves it alone.
* `PoolFollowsChain` (`PoolAgrees`), for any transactions and any width of the amounts.
  `PoolInv` adds that the outstanding amounts are sums modulo `AmountLimit` of what is queued
  in every state, also while a block is under way; that a transaction in the queue and in
  the chain is one of the block that the holder of the lock has added and not yet handed to
  the pool; and where the holder of the pool's lock may stand. The proof found a mistake
  of the model: subtracting from `mempoolOutgoing` creates an entry where there was none.

About `HeaderChain`, under `HeaderAssumption` and `HeaderChainAssumption`:
`HashesAreOneChain` (`HashesLinked`) and `WorkNeverShrinks` (`NeverShrinks`). `HeaderInv` adds
what `load()` remembers while it runs: `last` is the last hash held, `sum` no less than
what was published.

About `ChainSync`, under these assumptions, those of `ChainCore` and
`ChainSyncAssumption`:

* `TrustedBlocksStay` (`KeepsTrusted`): what a round in calm keeps of the chain. `RoundInv`
  says at each step of a round what is known of the best peer (`RoundKnows`), and that the
  blocks up to some `m` are the old ones: all of them, or those up to the last one in
  common with a peer of more work (`KeptUpTo`).
* `RoundsGainWork` (`RoundGains`): a round in calm that succeeds, and is not cut off by a
  restart, leaves the node with no less work than before and than the best peer. It adds
  that the blocks above `m` are the peer's (`FetchedFrom`), that those to come reach its
  length (`Reaches`), and that the work of a header chain is that of its hashes
  (`HeadersSummed`). Its hypothesis `SameOrigin` says that the peers' chains begin with
  `Genesis` and hold the trusted blocks themselves, as those of the run do: the code
  compares works, not first blocks, and never replaces its own first block.

About `RateLimiter`, under `RateLimiterAssumption`, for any number of threads:
`RateIsBounded`, `RefusalIsBrief` (nobody waits longer than one share) and
`MoreThanSecondsNeverRefuses`, the general form of the divergence above; and
`OneByOneIsBounded`, where one thread handles the requests, in which case none of the
accepted ones is left out. `Account` is the invariant: each accepted request, but for
those undone, has moved the time point on by a share, from a period before the first one.

About `HostManager`, under `HostAssumption`, for any number of hosts and of request
threads:

* `HostRacesBounded` (`RacesBounded`). `Counted` counts a request between the look into the
  list and the insertion as if it had inserted already, and one between the insertion and
  the one into the peers likewise: with those, a host is in the list no more often than
  there are threads. Without them no count is inductive.
* `PingersStayFresh` (`KeepsPingers`). `HeardKept` says that a host's own requests come one by
  one, that the first one may have inserted it without a ping time, and that the second
  one therefore found it in the list and noted the time. `HostAssumption` has that a
  ping period (`PingPeriod`) is shorter than a host counts as fresh, as five minutes are
  than three hours.
* `NetworkTimeIsMirrored` (`NetworkTimeMirrored`): the network's time against the clocks
  themselves, not the deltas made of them. More than half of the entries of a sorted list
  reach over its middle (`MiddleBetween`), and those of a majority within half of what
  an `int32_t` holds are neither cut nor wrapped when two are added, whatever the others
  became.

About `Computations`, under `FeeAssumption` and `ComputationsAssumption`:

* `PayoutsStayCovered` (`RoundCovered`) and `LossIsBounded` (`LossBounded`, the bound that
  holds instead of the document's), for any number of participants, any shares and any balance. The quotient of a product by the divisor is
  compared with the exact contribution by bounds on the divisor (`DivisorClose`).
* `ZerosAlwaysAgree` (`ZerosAgree`), for hashes of any length.

Sums are folds over finite sets. That a fold does not depend on the order, and what
adding, changing and removing an element does to it, is proved in `SumLemmas` by an
induction over the naturals that is itself drawn from well founded order
(`SetInduction`), because the library's induction theorem takes an operator.

Only model-checked:

* `DifficultyFits` and `RootFixesTransactions`, about pure computations whose definitions are
  recursive: what a loop halves or a tree joins is known by induction over the data only.
* All liveness, which is out of the prover's reach: `RoundsGetPaid`, `SubmissionsEnd`,
  `RequestsEnd`, `NodeFollows`.

## Not modelled

* The acceptor, the registry and bans of addresses, wallets per address, pings, the
  pool's own rate limiter and the set of good nodes: state of the pool beside shares
  and payments. They are the next candidates (`Connections`, `RateLimiters`, `Nodes`).
* Keys of the rounds' wallets, the table `unpaid`, hash rates, statistics, the
  truncated log, web pages.
* The refreshing of host lists beyond the start, and the requests of a node that only
  read and format.
* The worker, which is not built; vendored libraries, cryptography, serialisation.

## Plan

1. `Connections`: acceptor, registry, bans and a connection's states, for the limit of
   connections per address (`acceptor.ex:133`) and the value that `initialize` leaves
   as state (`worker_connection.ex:328`).
2. `RateLimiters`: the pool's two cell rate limiters against a count in a window.
3. `Nodes`: good nodes and submitted blocks, composed with `PoolRounds`.
4. ROWIDs and wallet keys in `PoolRounds`, for a database process that restarts alone.
5. Proofs: the invariants of the modules of 1 to 4.
