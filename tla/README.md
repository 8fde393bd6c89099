# Moola: verification of the lending pool, its recovery and the chain simulators

This directory holds TLA+ specifications of the contracts under
`src/test/contracts` and of the concurrent parts of the two chain simulators in
the repository, the TLC configurations that model-check them on small instances,
and theorems checked by TLAPS for every value of the parameters.

The program is Moola, an Aave-v2 lending pool on Celo, together with
`MoolaFix`, a contract that runs once, in a single transaction, to repair the
pool after an exploit: it upgrades the pool, collects tokens, repays and
writes off bad debt, passes the remaining loss on to the suppliers, and leaves
the pool paused in a *grace period*.  `ganache-7.4.4` and
`ethereumjs-monorepo--ethereumjs-vm-5.9.3`, the bulk of the repository by size,
are the simulators its tests run on.  Of these the parts that keep state across
asynchronous calls are modelled: ganache's transaction pool, miner, block saving
and snapshots (`evm_revert` is how a test gets back to its starting point), the
block store and VM execution of ethereumjs, and the block fetcher of its client.
Paths below are shortened: `ethereum/` is
`ganache-7.4.4/src/chains/ethereum/ethereum/src/`, `blockchain/`, `vm/` and
`client/` are packages of the monorepo.

## 1. Inventory

| component | state | operations | what makes it correct |
|---|---|---|---|
| `LendingPool` | reserves, user configurations, paused flag | deposit, withdraw, borrow, repay, swapBorrowRateMode, rebalanceStableBorrowRate, setUserUseReserveAsCollateral, liquidationCall, flashLoan, finalizeTransfer, setPause | no debt escapes the health factor; no user operation makes an account unhealthy; what suppliers are owed is backed |
| `AToken`, `VariableDebtToken`, `StableDebtToken` | scaled balances and supplies; stable balances with a rate | mint, burn, transfer, mintToTreasury | balances and totals stay natural; a reported balance can be closed exactly |
| `ReserveLogic` | indexes, rates, timestamps | updateState, cumulateToLiquidityIndex, updateInterestRates | indexes never fall below one ray; interest is paid out once |
| `ValidationLogic`, `GenericLogic` | none | health factor and the checks of each operation | the check judges the state the operation leaves |
| `LendingPoolCollateralManager` | none (delegatecall) | liquidationCall | collateral taken is paid for, at most at the bonus |
| `LendingPoolConfigurator`, `LendingPoolAddressesProvider` | risk parameters, admins, implementations | configure, freeze, upgrade | only an admin's call changes them; revisions only grow |
| `MoolaFix`, `LendingPoolWithUpdateLiquidityIndex`, `ATokenWithTransferForMoolaFix`, `ReserveLogicNoInterest` | the remaining bad debt in memory | the steps of `execute`, writeOff, updateLiquidtyIndexForLoss | the loss written off is the loss the suppliers bear; admin rights are handed back |
| `LendingPoolWithGracePeriod` | as `LendingPool` | deposit and repay; the rest reverts | nothing leaves the pool; positions only improve |
| adapters (`AutoRepay`, `Uniswap*`, `FlashLiquidationAdapter`, `LeverageBorrowAdapter`, `MoolaMigratorV1V2`) | user settings of `AutoRepay` | repay, swap and leverage inside a flash loan | the flash loan is settled, no funds stay behind |
| `MoolaOracle`, `UbeswapPriceProvider`, `AaveOracle` | price sources | getAssetPrice | a price is positive |
| ethereumjs `Blockchain` with `DBManager` | `_heads`, `_headHeaderHash`, `_headBlockHash` in memory; headers, bodies, `NumberToHash` and the saved heads in LevelDB | putBlock, putHeader, delBlock, iterator, setIteratorHead, `_init` | one linked chain, the heaviest, with every head on it, whatever the order of arrival and wherever the process dies |
| `runBlockchain`, `VMExecution` | `running`, the iterator's position | run over the iterator | every block of the chain is executed, in order; only invalid blocks are deleted |
| `Fetcher`, `BlockFetcher`, `PeerPool`, `FullSynchronizer` | two heaps of jobs, three counters, a stream; `pool` and the `idle` flags | fetch, success, failure, expire, write, ban, connect | no job lost or doubled, results stored in order, the fetch ends |
| ganache `TransactionPool`, `TransactionManager`, `Miner`, `Blockchain` | pending and queued heaps, locks, the heap by price, `latest`, the database, snapshots | eth_sendTransaction, evm_mine, evm_snapshot, evm_revert, miner_stop, miner_start, the interval timer | one chain with its receipts; a verdict is true; every request is answered; nothing is forgotten in the pool |
| the rest of the simulators: EVM, tries, encodings, devp2p, RPC, filecoin, command lines | various | various | not modelled, see section 6 |

Calls between contracts are synchronous and a failed call reverts the whole
transaction, so one external call is one atomic step; there are no messages to
lose, no threads, and no crash between two steps of a call.  What is hard is
elsewhere: long sequences of legal calls by several accounts, rounding at every
conversion between scaled and actual amounts, lazily settled interest, the
re-entrance that `flashLoan` allows by design between its two halves, health
checks that read flags and balances at the right or the wrong moment, and the
ordering of the steps of the recovery.

The simulators are the opposite: one thread, but an `await` at every step, so
that calls interleave; a database that is written in batches after memory has
changed; peers that fail; timers.  There the model's step runs from one `await`
to the next.

The list of these hazards, with the lines where they bite and the properties
that watch them, is in `PROJECT.json`.

## 2. Plan

The pool itself comes first, since everything else acts on its ledger.

| # | module | composes | state |
|---|---|---|---|
| 1 | `RayMath` | - | done, proved about |
| 2 | `LendingPool` | `RayMath` | done, proved about |
| 3 | `GracePeriod` | `LendingPool` | done, refinement proved |
| 4 | `MoolaFix` | `GracePeriod`, `LendingPool` | done, its handover proved |
| 5 | `AddressesProvider`: registered addresses, owners, proxies and tokens under upgrade | `GracePeriod` | next |
| 6 | `Configurator`: risk parameters, reserve factor and borrowing switches as state, `initReserve`, `deactivateReserve` with `_checkNoLiquidity` | `LendingPool` | next |
| 7 | `StableDebt`: the balances at their own rates against the total at the average rate | `RayMath` | done, proved about |
| 8 | `Blockchain`, `ForkChoice`: block store, VM execution, crashes | - | done, refinement proved for the client |
| 9 | `Ganache`: pool, miner, saving, snapshots | - | done, model-checked |
| 10 | `Fetcher`: block fetcher, peer pool, streams | - | done, proved about |
| 11 | `ReserveInterest`: stored and normalized indexes, timestamps, the rate strategy, the reserve factor | `RayMath` | next |
| 12 | `FlashAdapters`: AutoRepay, the Uniswap repay, swap and liquidation adapters as receivers of `FlashLoan`, with the exchange external | `LendingPool` | later |
| 13 | `CreditDelegation`: allowances, `RepayDelegationHelper`, `LeverageBorrowAdapter`, `WETHGateway` | `LendingPool` | later |
| 14 | `Skeleton`: the beacon synchronisation of the client and the reverse fetcher that fills it | `Fetcher`, `Blockchain` | later |

Abstract specifications: `LendingPool!Spec` is the one the grace-period pool
implements (proved), `ForkChoice!FSpec` the one the block store implements
(proved for the client, model-checked for a VM that deletes blocks).  For the
pool itself, a ledger of claims and debts in which an operation moves value and
never creates it is the abstraction worth stating next (`BackingKept` is its
core); for `StableDebt` and `ReserveInterest`, exact interest, of which the
contracts are an approximation within a bound; for `Fetcher`, a set of missing
blocks that only shrinks.

Theorems still worth proving: `LossBorneOnce` from the moves of `ReservesStayBacked`; the
withdrawal of blocks by a VM as a step of `ForkChoice`, for trees in which no fork
branches off a deleted block; that revisions only grow, for every proxy of
module 5.

## 3. Modules and code

**`RayMath`** is `WadRayMath` and `PercentageMath`: products divided with
half-up rounding.  `RAY`, `WAD` and `PERCENTAGE_FACTOR` are constants, even and
positive, so that small ones can be checked; the theorems hold for 10^27 too.
The overflow guards are left out: TLA+ integers are unbounded.

**`LendingPool`** has one action per external call that does not revert (a call
that reverts leaves no trace).  The action contains the whole call: validation,
`updateState` with the treasury's mint, the token calls, the flags, the
payment.  The correspondence of the state:

| variable | code |
|---|---|
| `aScaled`, `aTotal`; `vScaled`, `vTotal` | scaled balances and supply of the aToken; of the variable debt token |
| `stable`, `sTotal` | balances and supply of the stable debt token, *compounded to the current block* |
| `liquidityIndex`, `variableBorrowIndex` | `getReserveNormalizedIncome`, `getReserveNormalizedVariableDebt`: the indexes at the current block |
| `accrued` | interest whose share the treasury has not been minted yet; `updateState` settles it |
| `liquidity` | underlying in the aToken |
| `usingAsCollateral`, `borrowing` | the bits of `UserConfigurationMap` |
| `price`, `frozen`, `paused` | oracle, frozen bit, `_paused` |
| `loan` | between the two halves of `flashLoan`, while the receiver runs |

Time is the action `Accrue`: the indexes of a reserve grow by members of
`IndexSteps`, the variable one at least as much as the other, under the guards
of `_updateIndexes`.  The oracle and the admins are actions of the environment.

**`GracePeriod`** adds the proxy: which implementation it delegates to and which
revision was initialized last.  `SetLendingPoolImpl` is `upgradeToAndCall` with
the guard of `initializer`; the storage is the pool's own and is untouched.
In the grace period, the steps are those of the operations that lack
`disabledDuringGracePeriod`: deposit, repay, setUserUseReserveAsCollateral.
(The pool of revision 4 exists only within the transaction of `MoolaFix` and is
modelled there.)

**`MoolaFix`** is `execute`, a straight line of some sixty calls: `at` is the
step about to run, `k` the index of its loop, `left` the local `amountLeft`,
`mem` the debts of `struct Mem`, followed by those of `secondRoundRepay` that
are repaid in full, and `loss` the results of `writeOffBadDebt`.  A pool call is
the action of `LendingPool` on MoolaFix's account, joined with what it does to
`wallet`, the underlying MoolaFix holds.  `WriteOff` and `UpdateIndex` are the
two operations only revision 4 has; `TransferForMoolaFix` is the transfer the
upgraded aToken lets the pool admin make from anyone, health check included.
The amounts in the source are literals read off the chain.  Here every initial
state brings the amounts read off *it* (`FixInit`), the exploiter's CELO debt
with the unit `populateMem` adds "for rounding errors".

**`StableDebt`** is the stable debt token by itself, where `LendingPool` keeps
its balances compounded to the current block: `principal`, `usersStableRate` and
`timestamps` are `_balances`, `_usersStableRate` and `_timestamps`; `supply`,
`avgStableRate` and `totalSupplyTimestamp` the total's; `now` is the block's
time, advanced by `Tick`.  `Mint` and `Burn` are the token's functions, called
with amounts and rates the pool may pass (the borrower's own debt at most), and
`Rebalance` the pair of calls of `rebalanceStableBorrowRate`.
`DebtsMoveByAmount` is what justifies the abstraction in `LendingPool`.

**`Blockchain`** keeps memory (`mem`) and database (`db`) apart.  `mem` is the
record of `_heads['vm']`, `_headHeaderHash` and `_headBlockHash`; `db.known`,
`db.bodies`, `db.canon` and `db.heads` are the headers, the bodies,
`NumberToHash` and the three saved heads; `lock` is the semaphore of
`runWithLock`; `ops` the batch a put has decided on and not yet written; `exec`
the run in progress.  A put is two steps, `PutDecide` (everything
`_putBlockOrHeader` does before `dbManager.batch`, the heads in memory included)
and `PutCommit`, and a `Crash` may come between them.  `RebuiltHeads` and
`RebuiltCanon` state the effect of `_deleteCanonicalChainReferences` and
`_rebuildCanonical`: the second walks to the first block on which the index
agrees, or gives up at a parent it cannot read.  The iterator holds the lock over
a whole batch of blocks, as in the code.  Two deployments share the module:
the client, whose `VMExecution.run` takes batches until it is at the latest block
(`RunStart` to `RunRepair`), and a VM that calls `runBlockchain`, which deletes a
block that fails (`RunChain` to `RunChainEnd`).  A block is a model value;
`Parent`, `Number` and `TD` are constants, so that a module-level assumption says
what blocks there may be.

**`ForkChoice`** is what the store promises, with no lock, batch, cache or crash:
blocks arrive, a strictly heavier one becomes the head, the index is the chain
that ends in the head, and a withdrawn block takes what is above it with it.
`Blockchain` implements it under the mapping `known <- db.known`,
`index <- db.canon`, `head <- Top` (the highest entry of the index): decisions,
runs, saves of heads and crashes are stutters.

**`Ganache`** has a variable per object: `rpc` (the requests and what each waits
for), `pool` (`TransactionPool` with `executables.pending`, `origins`, the account
promises, and the verdict each transaction was finalized with), `fifo` (the
`PromiseQueue` of `TransactionManager`), `miner` (`#priced`, `#origins`,
`#pending`, `#isBusy`, `#paused`, the runtime block, the transactions with
`locked` set), `vm` (the nonces in the state trie), `chain` (every block made, the
queue of `#blockBeingSavedPromise`, `blocks.latest`, the database by number, the
receipts), `snaps` (`#snapshots` and a revert in progress), `stopped`
(`Status.paused`).  `opt` is the configuration of the node and the requests its
clients will send.  A step is a turn of the event loop; `Urgent` gives precedence
to what runs as a microtask of the turn before.  `TxMined`, `TxTooLarge` and
`TxRejected` are the three outcomes of `vm.runTx` in the loop of `#mineTxs`,
`BlockMade` is the end of that loop with the choices of `#mine`.  `RevertSaved` and
`RevertDeleted` are the two halves of `revert` after its waits.

**`Fetcher`** has the fetcher's counters and heaps in `f`, the requests in flight,
the two streams in `pipe` (read queue, writer's buffer, batch being stored), and
the peers: a *Peer object* is an id with the number of its connection, because
the code holds on to objects while the pool is keyed by id.  `Goes` ends a turn
with `next()`, which picks a random idle peer.  `Complete`, `Partial`,
`Unexpected`, `Nothing` are the ways `success` and `failure` end, `Expire` the
timeout, `Store`, `StoreUnlinked`, `StoreThrows` the writer.  `Resync` is the
synchronizer's next attempt after the fetcher has stopped.  The streams are those
of Node, modelled from how `push`, `pipe`, `write` and `drain` are used (marked
external in the map).

`MC...` modules give the constants their values, and the `.cfg` files choose
among them.  A definition whose comment begins with "Fault:" is a plausible bug
of the definition after it; no specification uses it, and `PROJECT.json` names
the property that catches it.

## 4. Runs, bounds, and what they show

| run | instance | properties |
|---|---|---|
| `pool_interest` | 2 users, CELO backing cUSD, indexes 10 and 12 with a ray of 10, half of the interest to the treasury, one amount; both rate modes | `TypeOK`, `DebtFlagged`, `ExactExit`, `MarginKept`, `BackingKept` |
| `pool_mixed` | two collaterals of different thresholds, one of them at a dust, a fair and a high price; pause | `MarginKept`, `CollateralPaidFor` |
| `pool_flash` | one reserve as its own collateral, a 20 % premium, any call inside the loan, freeze and pause | `BackingKept` |
| `grace_period` | upgrade at any moment; index doubled; cUSD freezable | `GraceTypeOK`, `DebtRepayable`, `Spec`, `NothingLeaves` |
| `fix_recovery` | 9 accounts, 3 reserves, some hundred post-exploit states | `FixTypeOK`, `LossBorneOnce`, `BadDebtGone`, `Handover`, `Completes` |
| `stable_debt` | 2 borrowers, rates of 10 % and 50 %, 3 years, 5 calls | `TypeOK`, `RatesWithinMarket`, `DebtsMoveByAmount`, `TotalMovesWithDebts` |
| `chain_reorg` | 6 blocks above the genesis block in 3 forks; a client with one crash, with and without an invalid block, and a VM fed with headers too | `TypeOK`, `CanonicalLinked`, `HeadsOnChain`, `SavedHeadsStored`, `HeaviestHead`, `ExecutedToHead`, `RunReachesHead`, `ImplementsForkChoice`, `OnlyInvalidDeleted` |
| `chain_short_reorg` | the same blocks, one of them of a high difficulty | `ExecutedToHead`, violated |
| `ganache_node` | 2 accounts, 7 transactions, 24 configurations of mode, concurrency and requests | `TypeOK`, `ChainLinked`, `ReceiptsMatchChain`, `TruthfulVerdict`, `MinerAtRest`, `Served` |
| `ganache_better_price` | 2 accounts, two prices, concurrent requests | `ExecutingIsBest`, violated |
| `fetch_blocks` | 2 peers, 4 to 7 blocks, jobs of 2 blocks, up to 2 faults | `TypeOK`, `JobsAccounted`, `InOrder`, `FetchCompletes` |
| `fetch_banned_peer` | 1 peer that does not connect again | `PoolServes`, violated |

*Bounds.* `MaxScaled`, `MaxLiquidity` and `MaxIndex` cap what would grow for
ever; a step beyond them is not taken.  They leave room for what matters:
positions of both users in both reserves at once, partial and full repayments,
liquidation with and without enough collateral, a second deposit after interest,
a loan taken inside a flash loan.  A ray of 10 makes the rounding errors a
twentieth of a unit's value and not 10^-27 of it, so whatever rounding can do,
it does within a few steps; properties that rounding disturbs state by how much
(`Dust` in `MarginKept` and `CollateralPaidFor`: a unit, half of the last digit of the
health factor, half a scaled unit of balance and debt in each reserve; `rounding` and `shared` in
`BackingKept`, `halves` and `spread` in `LossBorneOnce`).  Users are symmetric, and the symmetry is
used where no liveness property is checked.  The post-exploit states of
`MCMoolaFix` vary the supply, the exploiter's debt, the team's contribution, both
indexes and the mode of the second debtor; `Plausible` keeps those in which the
contribution suffices to withdraw what is collected and not to repay everything,
which is the situation MoolaFix was written for.

In `StableDebt` time is in years (`SECONDS_PER_YEAR = 1`), so that one step
accrues an interest that matters and three steps reach the third term of the
compounding; `MaxCalls` bounds the calls, since rounding makes ever new rates out
of repeated repayments, and time stops beyond `MaxAverage`, since the average rate
has no bound of its own.  Five calls are enough for a loan of each borrower, a
repayment in part, a clearing of the total and what follows it.

In `Blockchain` the blocks are the chains `a1 a2 a3`, `b1 b2` and `c2` above
`a1`: enough for a fork at the genesis block, one above it, a reorganisation of
two blocks, a return to the first chain, and blocks that arrive before or after
the run that executes them.  Batches of two blocks make a run take more than one.
The client's invalid block (`c2`) is off the longest chain, the VM's (`a2`) is on
it.  The client without an invalid block is the one whose iterator head can be
followed to the end; see the remark on `RunRepair`.  `chain_reorg` gives all blocks the same difficulty, as on a development
chain: `chain_short_reorg` shows what happens otherwise.  Blocks are not put twice
at the same time (the semaphore forbids it), but any block may be put again.

In `Ganache` each transaction and each request is sent once, in any order and at
any moment, within a configuration; `MaxBlocks` stops the timer.  The
configurations of `SafeConfigs` come in three groups: one request at a time and
the timer beside it (`SequentialConfigs`), the strict mode (`StrictConfigs`), and
unlimited requests (`UnlimitedConfigs`).  A node without options is eager and
unlimited (`asyncRequestProcessing` is true by default), so most of the last group
is eager.  Together they have nonces given and filled in, replacements of a first
and of a second transaction, one that the VM refuses, one too large for the rest
of a block, evm_mine beside drains and timers, reverts beside insertions, timers
and blocks being saved, nested snapshots, and the stopped miner.  `TypeOK` and
`MinerAtRest` say the same of all of them.  The other properties do not hold of
all, because the code does otherwise, and the exceptions are predicates in the
module that the properties name:

| predicate | property | what it leaves out |
|---|---|---|
| `LatestKeepsUp` | `ChainLinked`, `ReceiptsMatchChain` | three calls to mine that overlap, so that one of them may find `latest` behind; reverts outside of the strict mode, and with several concurrent calls to mine |
| `MadeTwice` | `ReceiptsMatchChain` | a refused transaction in the loop of `miner_start` |
| `PushedTwice` | `TruthfulVerdict` | a transaction that replaced one of a nonce above 0; the one it replaced stays in |
| `InsertionsCleared` | `Served` | unlimited requests with a revert |
| `Stranded` | `Served` | a heap without a loop, with concurrent requests |
| `Crowded` | `Served` | transactions that do not fit into one block, with an evm_mine or a miner_start |

Each is explained under remarks below.  The configurations in which an exception
applies are run as well, for the other properties and for the rest of this one.

In `Fetcher` `faults` bounds what peers and chain do wrong (an answer that is
short, wrong, empty or late, a departure, an error of the chain); `opt` names the
heights and the `highWaterMark` of the streams, 1 or 3 instead of 16, so that
both streams fill up.  `safeReorgDistance`, `maxPerRequest`, `maxFetcherJobs` are
1, 2 and 2, `maxQueue` is 0, which makes every job meet every limit.  The third
chain forks three blocks below the local head, deeper than the safe distance.

*Deadlock* is not checked in `fix_recovery`, where execute ends, in `stable_debt`,
which ends with `MaxCalls`, in the `chain_` runs, where a stopped runner and a
store with all blocks have nothing to do, in the `ganache_` runs, whose requests
run out, and in the `fetch_` runs, which end with the target stored.  What must
go on there is stated as liveness.

*Fairness.*  In `MoolaFix`, weakly for its next-state relation: the steps are one
transaction, whose next instruction always runs unless the current one reverts.
`Completes` is therefore the statement that nothing reverts.  The pool has no step
that must happen: users act when they please.  In `Blockchain`, weakly for the
steps that hold the lock and strongly for those that wait for it: the semaphore
(`semaphore-async-await`) serves its waiters in order, so that a put that comes
later cannot keep a run waiting for ever; no put, run or crash is owed.  In
`Ganache`, weakly for everything the event loop owes: resolved promises, batches,
timers; no client owes a request.  In `Fetcher`, `NodeFairness` says that a request
ends in an answer or its timeout, timers fire and the chain answers;
`NetworkFairness`, strong because a peer may come and go, that a peer that is
missing connects again.  `fetch_banned_peer` shows why the second is needed.

*Refinement.*  `ImplementsForkChoice` is the property that relates `Blockchain` to
`ForkChoice`; `Spec`, in `grace_period`, relates the upgradeable pool to
`LendingPool`.

*Findings.*  Three comments of the simulators say more than the code does, and
each has a run that TLC refutes (see `PROJECT.json`, `findings`).  A heavier chain
that is lower than the current one moves the iterator head to a block the VM has
not run, where the comment of `_putBlockOrHeader` promises a block of both chains
(`blockchain/src/index.ts:895`, `1018`).  A transaction that is dearer than the
one being executed enters the miner's heap, where the comment says it is kept out
(`ethereum/miner/miner.ts:566`).  A peer that returns after its ban because the
pool is empty is not idle, and nobody uses it (`client/lib/net/peerpool.ts:187`,
`client/lib/sync/fetcher/fetcher.ts:490`).

*Remarks the models led to.*  The first five are differences between a comment
and the contracts; they are no longer runs of their own.

* The grace period leaves `setUserUseReserveAsCollateral` open
  (`LendingPoolWithGracePeriod.sol:407`, against the comment at 59); `NothingLeaves`
  holds all the same.
* `MoolaFix` ends with the mcUSD of its own test deposit (`MoolaFix.sol:657`,
  against the comment at 993).
* After an index has been lowered below one ray, withdrawing the maximum may revert
  (`LendingPoolWithUpdateLiquidityIndex.sol:1028`, against the comment at 146).
* The average stable rate can leave the range of the rates it averages, by a factor
  of two and more, once total and debts have drifted apart and a repayment clears
  the total (`StableDebtToken.sol:225`, against `IStableDebtToken.sol:82`).
* A health factor can fall below one by the truncation of the average threshold
  alone.  `MarginKept` is therefore stated of the exact margin (`Margin`: collateral
  weighted by its thresholds, less the debt), not of the factor.
* The health factor has eighteen digits, and half of the last one is worth
  `debt / (2 * WAD)`: beyond a debt of `2 * WAD` an account that passes the check may be
  short of more than a unit.  `Dust` counts that, and that a scaled unit is worth more
  than a unit once an index has doubled.
* For the same reasons a transfer out of an account that is not healthy may pass: the
  average threshold after it is rounded to a hundredth of a percent, and what is left
  of a collateral of a low threshold may be large.  `CollateralPaidFor` holds of values small enough
  for that to stay within `Dust`, as in `pool_mixed`, and not of all.
* The unit added to the exploiter's CELO debt (`MoolaFix.sol:728`) is needed: without
  it a debt repaid in part and burnt with the exact remainder can disappear by
  rounding while `writeOff` sees a unit still owed, and the borrowing flag stays
  set.  The exploiter's cEUR debt has no such unit.
* `delBlock` moves the heads in memory and does not save them
  (`blockchain/src/index.ts:1212`): a process that stops before the next save
  restarts with heads that name deleted blocks.  `SavedHeadsStored` is stated of
  the client, which deletes none.
* After a block that fails, `VMExecution.run` returns with `running` still true
  (`client/lib/execution/vmexecution.ts:247`), so no later run starts, and it sets the
  iterator head to the parent whether or not that is still on the chain.  A `run`
  requested while another one is ending returns at once: the block that asked for
  it waits for the next request.
* The check of the parent reads the total difficulty of the *canonical* block one
  height below (`blockchain/src/db/manager.ts:188`): a fork that is two or more
  blocks higher than the chain, and lighter, cannot be extended.
* `delBlock` deletes what is above a block on the *canonical* chain; its comment
  (`blockchain/src/index.ts:1167`) speaks of each child block.  A fork that branches off a
  deleted block stays in the database without its parent and can, put on top
  again, leave a gap in the index.  `CanonicalLinked` is proved of the client,
  which deletes nothing, and checked of a VM whose deleted block bears no fork.
* `RunRepair` (`setIteratorHead` to the parent of the failed block) does not ask
  whether a reorganisation has taken that parent off the chain, and after a crash in
  a run that had met an invalid block the saved head is past it.  `ExecutedToHead` and
  the last part of `HeadsOnChain` say nothing of such a client.
* With headers and blocks mixed, `getLatestBlock` may be off the canonical chain.
  After a reorganisation to a lower chain, `runBlockchain` would delete a valid block
  for want of its parent's state: the difficulties of `chain_reorg` exclude it.
* In ganache, a transaction that replaces one whose nonce is one above those met so
  far in the heap is pushed a second time (`ethereum/transaction-pool.ts:278`, against
  the comment at 253, which wants it in the pool once).  It is mined, its second copy
  is refused for its nonce, and if that comes before the save the client is told of
  a rejection (`PushedTwice`).
* `mine` reads `blocks.latest` when it is called (`ethereum/blockchain.ts:598`), and
  `latest` lags behind the blocks made while saves are pending: a call in that
  window builds on an older block, and its block takes the number of another.  A
  drain or timer's call that waits for a paused miner holds the block it will build
  on, which the revert may delete (`LatestKeepsUp`).  With one request at a time it
  takes a request that is answered before its block is made: any in strict mode, a
  refused transaction in eager mode.
* A loop whose last transaction was refused carries `keepMining` over, and the same
  runtime block is finalized twice (`MadeTwice`).
* A transaction that does not fit keeps its origin among `#origins`: in a call for
  several blocks it may be left for the next drain (`Crowded`).  A one-block
  `evm_mine` that meets a drain clears the flag of the drain with the rest, and the
  heap is left without a loop (`Stranded`).
* `#updatePricedHeap` at the end of a block may take in a transaction whose insertion
  has not been drained, and the miner stays busy with a heap and no loop (`Stranded`);
  a revert that waits for the miner then waits for ever.
* In eager mode a revert may miss a block that is saved and not yet announced, and a
  snapshot's list then names it twice or not at all (`LatestKeepsUp`).
* `TransactionManager.pause` emits "idle" where it means to wait for it
  (`transaction-manager.ts:151`), so a revert does not wait for insertions in
  flight; one that arrives after `clear` enters the pool and nothing drains it, contrary
  to the comment at 122.  `Served` excludes that case (`InsertionsCleared`).
* `next` of the fetcher logs that a job is too far ahead and goes on
  (`fetcher.ts:322`, no `return`).  A missing parent in a batch lets its first peer
  rest, and sets it idle a second later even if it is busy by then.  A fetcher that
  stops and is restarted within the second of `wait` has two loops and two writers.
  `expire` bans whoever bears the peer's id by then.

## 5. What is proved

TLAPS checks every proof, for all values of the constants, from the assumptions
the modules name: in `RayMath` an even ray, wad and percentage factor; in
`LendingPool` finitely many users (a contract has no more accounts than were
created) and finitely many reserves (`_maxNumberOfReserves`), a treasury that is
not a user, positive prices, percentages of at most one hundred, loan-to-value not
above the threshold, and a mark for "no loan" that is not a loan; in `GracePeriod` which revisions may be installed; in
`StableDebt` finitely many borrowers and natural amounts; in `Blockchain` that
blocks form a tree in which height and total difficulty grow; in `Fetcher` that
limits are positive and that the peers' chain is longer than what is shared.

* `RayMath_proofs!RoundTrip`: `rayDiv(rayMul(a, i), i) = a` at every index of at
  least one ray.  `rayMul` is within half a ray of the product, and dividing by
  the index shrinks that to half a unit or less, which half-up rounding undoes.
  Below one ray it is false: there `rayDiv` of the reported balance can exceed
  the scaled balance by a unit.
* `TypeCorrect`: `Spec => []TypeOK`.  `TypeOK` is inductive as it stands because
  every subtraction in the source has its guard in the model; one lemma per
  action (`DepositTypes`, `LiquidationTypes`, ...), on lemmas for the shared
  parts (`UpdateStateTypes`, `VariableTypes`, ...).  Indexes never fall, by
  `RayMulGrows` and `CumulatedIndexGrows`.
* `DebtsAreFlagged`: `Spec => []DebtFlagged`, from `IInv == TypeOK /\
  DebtFlagged`.  Alone it is not inductive: that `repay` clears the flag only of
  an account without any debt needs the indexes to be at least one ray, so that
  a positive scaled debt is a positive debt, and that burning the whole reported
  debt burns the whole scaled one, which is `RoundTrip`.
* `ExitsAreExact`: `Spec => []ExactExit`, from `TypeCorrect` and `RoundTrip`.
* `SupplyHeld`: `Spec => []SupplyIsHeld`, the scaled supply of an aToken is the sum
  of what the accounts hold.  The sum is `SumFunction` over the accounts; the
  lemmas say how it changes with one entry, which the fold theorems of the
  library give for finite sets.  A transfer to oneself, a seizure that ends at the
  liquidator and a mint to the treasury in the same call are the cases in which
  two entries change, or the same one twice.
* `ReservesStayBacked`: `Spec => BackingKept`.  Most calls are *balanced*
  (`Balanced(r)`): cash and debts move by the amount the supply moves by, up to the
  scaled units rounding makes of it, and each of the at most two mints or burns at
  the liquidity index and one at the borrow index is half a unit out
  (`rounding`).  The interest due to the treasury moves from `accrued` to its
  balance without a change of what is owed.  The repayment of a
  flash loan is the exception: the premium raises the index, and `PremiumShared`
  bounds what the two roundings of `cumulateToLiquidityIndex` cost over the whole
  supply, which needs `SupplyIsHeld`: the index is computed from the total, the
  claims from the balances.
* `MarginIsKept`: `Spec => MarginKept`, an account that passes the health check has its
  debt covered, up to `Dust`, after any user operation, flash loan or liquidation.
  The checks of the pool speak of rounded averages; the margin is exact.  The two
  meet in `HealthCovers` (a health factor of at least one, computed from the truncated
  average, means that the exact margin is not below the slack of its own rounding),
  and likewise `DecreaseCovered` for what `balanceDecreaseAllowed` grants and
  `BorrowCovered` for what `validateBorrow` grants, where loan-to-value is at most the
  threshold.  Then one lemma per action (`WithdrawMargin`, `ExecuteBorrowMargin`, ...): a
  step moves the sums over the reserves by what it moves one entry by
  (`SumCompare`), a mint or a burn misses its amount by half a scaled unit at most, and
  an account whose collateral does not fall and whose debt does not rise keeps its
  margin whatever it was (`KeptUntouched`).  A liquidation takes only from accounts that are
  not healthy, so that the implication is about the others it touches, the
  liquidator among them.  `DebtFlagged` is needed so that a debt counts
  before and after a loan adds to it, `RoundTrip` so that a transfer
  of the whole balance, which clears the collateral flag, leaves nothing behind.
* `GraceImplementsPool`: `GraceSpec => Spec`, the pool behind its proxy
  implements `LendingPool` under the identity mapping: every step of the grace
  period is a user's step, an upgrade is a stutter.  The theorems above carry
  over (`GraceDebtsAreFlagged`, `GraceReservesStayBacked`, `GraceMarginIsKept`).
* `GraceTypeCorrect`: the proxy runs the implementation initialized last.
* `NothingLeavesGrace`: the action property, from `TypeOK` in both states.  Its
  core is `Kept`, which deposit, repay and the switch of collateral satisfy.
* `MoolaFix_proofs!HandoverComplete`: `FixSpec => []Handover`, from the invariant
  `Rights` (who is admin and which aTokens are in place at each step) and `Closed`
  (from its tenth test on MOO is frozen, from its fourteenth the pool is in its grace
  period).  It is independent of the amounts: whatever state the recovery starts
  from, it hands everything back or reverts.
* `StableDebt_proofs`: `TypeCorrect`, `CallsMoveByAmount` and `CallsMoveTotal`.  The
  compounded interest never falls below one ray and grows with time
  (`CompoundedGrows`, a polynomial whose terms are products of growing factors);
  a call settles the balance first, so that the compounding after it starts from
  one, and `mint` and `burn` add and subtract exactly (`MintLeaves`, `BurnLeaves`).
  Nothing relates total and debts beyond that, and nothing could: see the remark
  on the average rate.
* `Blockchain_proofs!TypeCorrect`: `TypeInv` strengthens `TypeOK` by what the types
  rest on: the index, and the batch about to change it, name blocks only at their
  own heights; a run that iterates holds the lock; the block that failed is not the
  genesis block, so that it has a parent to go back to.
* `ForkChoice_proofs`: `ChainInv` says that the stored blocks are connected, that the
  index *spells* the lineage of the saved head, and what the batch of a put in
  progress will add.  The core is `WalkRebuilds` and `RebuiltSpells`: the walk of
  `_rebuildCanonical` stops at the first block on which the index agrees, and
  because the index spells a lineage, it agrees on everything below.  From it
  follow `ClientLinked`, `RestartFindsHeads`, `HeadIsHeaviest` and, step by step,
  `ClientImplementsForkChoice`.  `ExecutedInv` adds the iterator: every block up to
  the head in memory, and up to the saved one, has been run; the run in progress
  continues where its head stands (`NoBlockSkipped`, `HeadsStayOnChain`).  That
  needs `HeavierIsHigher`, no block outweighs a higher one, which is exactly what
  `chain_short_reorg` violates.  All of it is for a store that deletes nothing.
  `Lineage` is a recursive function; induction over the height of a block is the
  theorem of the library that a set of naturals has a least element, applied to
  the blocks for which a statement fails (`BlockInduction`).
* `Fetcher_proofs`: `TypeCorrect` and `JobsAreAccounted`, from `Inv`.  `Accounted` says of
  a running fetcher that queue, active requests, done heap and streams hold jobs of
  different indexes, all below `total` (`Apart`), and that with the finished ones they
  number `total` (`Counted`); of a stopped one that it has no job left.  A step moves
  one job (`AskAccounted`, `RequeueAccounted`, `DoneAccounted`), some of them
  (`SentAccounted`, `FinishedAccounted`, `AgainAccounted`) or cuts new ones
  (`NextTasksAccounted`).  Because a turn of the event loop is several of these in a
  row, the lemmas speak of a state record and of the *line* of jobs on their way to
  the writer, which `Pushed` and `Flow` lengthen at the end and never reorder
  (`PushedFacts`, `FlowFacts`).
  `ResultsInOrder` adds `OrderInv`, under the condition of `InOrder` that the chains
  agree up to the block before the first one asked for.  The stored blocks are then
  `0..h`; a running fetcher has started at some `s <= h + 1`; its job of index `k`
  starts at `s + k * maxPerRequest` and is full unless it ends at the target
  (`Placed`); the line of the writer bears the indexes from `finished` on, one after
  the other, and nothing off the line bears a lower one (`Ordered`).  `dequeue` keeps that
  because it takes `out` by index and only while the indexes follow `processed`
  (`NextBatchFacts`, `SentOrdered`).  So the job that the writer is at starts at most
  at `h + 1`: its parent is stored, `StoreUnlinked` is never enabled, and the bound
  holds of the next job, since the one stored was full or ended the fetch
  (`StoreSorted`).  The bound survives a `Resync` because `Start` is computed from the
  greater of the local height and the blocks stored meanwhile (`StartReach`).

Only model-checked: `CollateralPaidFor`, which holds of small values only (see the
remark above); `DebtRepayable` (`ENABLED`); `Completes`,
`RunReachesHead`, `Served`, `FetchCompletes` (liveness); `FixTypeOK`, `LossBorneOnce`
and `BadDebtGone`, which hold of states like those the recovery was written for
and not of every state (a loss as large as the supply lowers the index to zero);
`RatesWithinMarket`, which for small debts and long times is false; of
`Blockchain`, what a VM that deletes blocks does, `OnlyInvalidDeleted` among it,
which depends on the difficulties; and `Ganache`: its heaps are sequences folded
out of sets, so that its types are already an induction over data, and its other
invariants are checked of the configurations in `SafeConfigs`, with the exceptions
that they name, and not claimed of any number of concurrent requests.

## 6. What is not modelled

* Rates: what the strategy computes.  `Accrue` allows any growth in `IndexSteps`,
  the same for stable and variable debts; `RebalanceStableBorrowRate` leaves its
  condition on rates open, as does `Rebalance` of `StableDebt`.
* The decimals of an asset: a price is that of one smallest unit.  The source divides
  by `tokenUnit` after multiplying, and truncates; here a value is exact.
* Credit delegation: a borrower stands for the account that owes.
* Flash loans of several assets, or nested ones.
* Configuration changes: risk parameters and the reserve factor are constants of
  an instance.  Step 19 of the recovery and the zeroing of the reserve factor
  around it are therefore absent; `fix_recovery` runs with no reserve factor, and
  without interest within the transaction there is nothing to share.
* In `execute`: cREAL and cEUR (they are treated as cUSD and CELO are),
  `sync()` of the exchange pair, the calls that must fail (only the reason they
  fail is stated), the closing bounds on totals and balances, `rootCall` and
  `returnTokenToOwnedWallet`.
* Overflow: the source guards each product, and an overflow is a revert.
* Of the block store: clique (its snapshots after a reorganisation among them),
  hardforks, the validation of a block beyond the existence of its parent, the
  caches of `DBManager`, `getBlocks`, `selectNeededHashes`.
* Of ganache: fork mode, gas prices after London (a transaction has one price, and a
  replacement must exceed it), balances and the intrinsic gas of a transaction
  (its gas is at least `TxGas`), `Capacity.Empty`, the order of a heap of more than
  three transactions, time.  One revert runs at a time, though the code would let a second
  one in, and what `removeBest` does when `ExecutingIsBest` has been violated is not
  followed.
* Of the client: `enqueueByNumberList`, the reverse, header and skeleton fetchers,
  `destroyWhenDone`, a target height that grows during the fetch, several pools, a
  request that is rejected after its job has expired (a timeout is no rejection).  The
  loop condition of `VMExecution.run` takes the lock twice; `RunCheck` is one step.
* Everything listed as `not_modelled` under `components`, with its reason:
  adapters, gateway, data providers, deployment helpers, and of the simulators the
  EVM, the tries, encodings, networking, RPC, filecoin and the command lines.
