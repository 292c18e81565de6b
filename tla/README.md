# A verification project for lpbot

TLA+ modules for the core of `lpbot`, a bot that provides liquidity to pools of
decentralised exchanges: TLC model-checks them on small instances, and TLAPS
proves all their safety properties for every value of the constants. All
paths are relative to the repository; a module is a file of this directory.

## The system

`cmd/lpbot/main.go` reads a configuration, opens a SQLite database, wires the
components and runs two workers, one for the scanner and one for the strategies,
until a signal arrives. The components under `internal/core` talk to the outside
through the interfaces of `internal/ports`; `internal/adapters` implements those.

| component | state | operations | what is hard, and what makes it right |
|---|---|---|---|
| Kill switch, `core/risk/types.go`, `gate.go`, `sqlite/risk_repo.go` | the level in memory, one row in `kill_switch_state`, the table of risk events | `CheckVaR`, `CheckDrawdown`, `CheckExposure`, `RaiseKill`, `LowerWarn`, `Allow`, `IsBlocked`, `RecordRiskEvent` | two copies of one fact, an encoding between them, restarts, a database that does not answer. A raised level must block and must not get lost |
| Main loop, `core/loop/loop.go` | counters | `EvaluatePool`: gate, limit, simulation, approval, order | the gate is asked once and may change before the order. A block must stop the opening, a failure must show |
| Allocation limits, `core/risk/alloc.go`, `sqlite/position_repo.go` | the table of positions | the two limits, `Save`, `UpdateStatus` and the queries | check, then save. What a pool and what all pools hold stays within limits |
| Nonce manager, `core/execution/noncemanager.go` | the counter, the pending nonces | `GetNextNonce`, `AcknowledgeNonce`, `ClearPending`, `InitializeNonce`, `IsNonceAvailable` | callers interleave, the node may lag behind. No nonce twice and no hole |
| Replace-by-fee manager, `core/execution/rbf.go` | per hash a nonce and the attempts | `AttemptRBF`, `AttemptRBFWithOriginal`, `RecordAttempt`, `ClearAttempts` | retries by two methods over a shared counter. Bounded, and never at the cost of another transaction |
| Reorg handler, `core/execution/reorg.go` | the tracked transactions with their state objects | `HandleReorg`, `TrackTransaction`, `UntrackTransaction` | the lock is given up before the database, the nonce manager and the network. A rebroadcast is counted, and made only of what was reorged |
| Transaction repository, `sqlite/tx_repo.go` | the table of transactions | `UpsertTx`, `UpdateTxStatus`, `IncrementRFBAttempts`, the lists | read, check and write in separate statements. A status has its past |
| Order manager, `core/execution/execution.go` | the stored intents of positions | `Open`, `Close`, `Rebalance`, `CollectFees` | a check, an unlocked simulation, a write. Closed once, and what a success says is in the table |
| Approval tracker, `core/execution/approve.go` | approvals per token and spender; the allowances on chain | `Acquire`, `Release`, `AuditAll` | two facts that change in two steps, either of which may fail. No allowance is forgotten |
| Event bus, `adapters/bus/inproc/bus.go` | subscriptions with a channel and a pump each, the dedup | `Publish`, `Subscribe`, `Unsubscribe` | sends race with the closing of a channel, full buffers drop, handlers hang. At most once, in order, and no Publish waits for a handler |
| PnL tracker and ledger, `core/pnl`, `sqlite/ledger_repo.go` | tracked positions, append-only entries | `TrackPosition`, `AddFees`, `RecordRealizedPnL`, the sums | several appends without a transaction or a common lock, ids from a clock. The sums hold what was reported, and beyond it only what broke off |
| Watchdog, `core/watchdog` | a flag, a channel | `Run`, `Stop` | Run and Stop from several goroutines, a field read without the lock. No double close, and Stop stops |
| Process and store, `main.go`, `sqlite/store.go`, the loop of `core/scanner` | phases of start and shutdown, workers, the schema | start, failures, migration, signal, shutdown | a crash in the middle of a migration, databases of older versions, the order of shutdown, nested loops. A running process has its tables, and a signal ends it |
| Submission and broadcast, `adapters/mev`, `adapters/broadcast` | four counters, a call count | `Submit`, `SubmitBundle`, `Send`, `Broadcast` with the wait for confirmations | an answer may be lost after the request was taken, a fallback makes public what was private, receipts disappear. Strict stays private, counters account for every call, a confirmation is final |
| RPC round robin, `adapters/rpc` | an index, the shared client | the reads, `SendTransaction` and its like, `nextEndpoint` | callers move the client under one another. A read ends up at an endpoint that answers |
| Scanner and strategies, `core/scanner`, `core/strategy`, `domain/score.go`, `tier.go` | none of their own | `scanOnce`, `Score`, `EvaluatePool`, `SelectCandidates`, the range calculators, `ShouldRebalance`, `ShouldRotate` | decisions are taken from a scan that is getting old; ranges move by four rules, at ticks that end. What is entered can be carried out, a range never turns around, rotations do not go in circles |
| Transaction building and wallets, `core/execution/txbuilder.go`, `adapters/wallet` | the key, what the wallet can ask | the builders, `SetNonce`, `Open`, `Sign`, `ApproveExact`, `Revoke`, `Close` | `Sign` asks the node between two looks at a key that `Close` takes away. Nothing is signed after that, nonces have no hole, a minimum is never nothing |
| Simulation, `core/simulation`, `adapters/simulator` | a process and a port | `Simulate`, `SimulateSequence`, and both with checks | all Anvil processes share a port, sequences break off. A result is that of the right fork, what is admitted was simulated to its end |
| Audit log, `inproc/auditlog.go` | a file and its predecessors | `handleEvent`, `Rotate`, `Close` | a rotation is several operations on a directory. What is kept is in order and without a gap |
| Data sources, `adapters/datasource` | none | discovery, metadata, prices, swaps, health | services fail in several ways. An outage is not an empty market |
| Backtest, `cmd/lpbot-backtest`, `scripts/aggregate-verdict` | a cache in SQLite, three files for each pool | a run; the aggregate over the files | runs leave rows and files to one another and may end anywhere, also within a file. No swap is lost or comes twice, and whole files agree |

The interactions that are modelled: the main loop asks the kill switch and the
limits (`MainLoop`); the replace-by-fee manager and the reorg handler draw from
the nonce manager, and the reorg handler writes the transaction table
(`RBFManager`, `Reorg`); the gate writes its table (`KillSwitch`); the process
runs the scanner and owns the store (`App`). The others share no state in the
program as it is wired: an order manager asks neither limits nor approvals, and
no component of the core publishes on the bus.

Nothing in `main.go` calls `EvaluatePool`, the order manager or the managers
under `core/execution` yet (its adapters are placeholders), and its gate has no
repository. The modules take the components for what their methods promise to
any caller; where the wiring decides, it is a constant (`HasRepo`).

## The modules

| module | models |
|---|---|
| `KillSwitch` | the risk gate over its table: one action per check, `RaiseKill`, `LowerWarn`, risk events, restarts, and a database that comes and goes |
| `MainLoop` | extends `KillSwitch`: evaluators take the stages of `EvaluatePool` one by one while the gate changes |
| `Allocation` | candidates go through the two limits and are saved; statuses change at any time |
| `NonceManager` | all methods of the nonce manager and the node behind `PendingNonceAt` |
| `RBFManager` | extends `NonceManager`: both kinds of attempts, the recorded ones, clearing |
| `TxRepo` | the repository, one action per SQL statement |
| `Reorg` | extends `NonceManager` and `TxRepo`: `HandleReorg` call by call |
| `OrderManager` | each call in its steps: the lookup under the lock, the check of the status after it, the simulation, the write |
| `ApproveTracker` | `Acquire` under its lock, `Release` in two halves, the audit, a wallet that may fail |
| `BusContract` | what `ports/bus.go` promises: lossy, at most once, in the order of each publisher |
| `EventBus` | the bus: locks, channels with their capacity, pumps, patterns, dedup; it refines `BusContract` |
| `PnLTracker` | positions, fees and losses, one INSERT for each entry, whose id is a millisecond and a position, and which may collide, fail or never come |
| `Watchdog` | the loop: the flag, the channel, the select, and `Stop` |
| `Sending` | the relays with their fallback and counters, the live broadcaster waiting for confirmations, the disabled one that panics, a chain that reorganises |
| `RoundRobin` | the shared client over endpoints that fail, and what each kind of method does after an error |
| `App` | the process: start-up, migration by statement over new and old databases, workers, the nested loop of the scanner, signal, shutdown, restart |
| `Strategy` | the scan with its scores, the intent, the range and the rotation of a position, over a market that moves between them |
| `Signing` | the builders and the three wallets; `Sign` of the keystore wallet in its four steps, `SignMessage`, `Close` in two with a key half wiped between them |
| `Simulators` | the core's simulation over the Anvil adapter with its processes and their port, one that a killed bot left there among them, the Solana adapter, and another simulator |
| `AuditLog` | the log and its rotation, one action per operation on the directory, over restarts and lines torn by a short write |
| `Sources` | what each of four adapters answers under each state of its service; pure functions of what the service holds, and one action per method of the port |
| `Backtest` | a run in its steps over the cache and the files, killed or failing anywhere, within a file as well, and the aggregate |
| `Execution` | orders, approvals, the table of transactions, limits, ledger and sending, which share no state: a variable `part` says which one moves |
| `Lifecycle` | watchdog, process and round robin, likewise |
| `Adapters` | backtest, signing, strategy, simulators, audit log and data sources, likewise |
| `MCMainLoop`, `MCRBFManager`, `MCReorg`, `MCEventBus`, `MCExecution`, `MCLifecycle`, `MCAdapters` | values of the constants for TLC |
| `MainLoop_proofs`, `RBFManager_proofs`, `Reorg_proofs`, `EventBus_proofs`, `Execution_proofs`, `Lifecycle_proofs`, `Adapters_proofs`, `SumTheorems` | the theorems |

How state and actions correspond to the code. Variables are fields and tables:
`level` is `RiskGate.state.Level`, `row` the `switch_type` of the only row,
`pending` the map of the nonce manager, `txs` that of the RBF manager, `rows`
the table of transactions, `chan` the Go channels, `stopCh` the field of that
name (a channel is the number of the `Run` that made it). An action is what runs
under one holding of a mutex, or one SQL statement, or one external call; where
the code gives up the mutex the model has two actions, and a record (`call`,
`pc`, `asking`, `pub`) keeps what the goroutine carries over. Variables whose
comment begins with "history" are not in the program: they record what a
property speaks of, and no guard reads them. `PROJECT.json` gives, for each
definition, the lines it stands for. Operators marked as mutants are not part
of the models: each is one definition as a plausible mistake would have written
it, and shows that a property can fail.

What is abstracted: money and prices are small integers, where only comparisons
matter they are compared across products instead of quotients; hashes, topics
and ids are members of small sets; fees of transactions, logging and times are
left out, except the clock of the ledger, whose milliseconds are its ids. In
`Strategy` scores are thousandths of a point, rounded down where the code has
a float, prices of positions stand for ticks as in the code, and carrying out a
decision is external: nothing in the program does it yet. In `Backtest` seconds
are shrunk, and a fee is a swap that was in range. In
`EventBus` topics are sequences of tokens, for the matching of patterns is
modelled as it is written. In `App` a table is named by what follows its prefix.

## The runs

`PROJECT.json` lists the invariants and properties of each run; here is what
each run asks, with its bounds. Passing runs visit all states of their instance.

| run | instance | what it shows |
|---|---|---|
| `kill_switch` | the thresholds of the default configuration; ten amounts that put each ratio below, on and above each threshold; two evaluators, three evaluations, one tier without a limit. 64,460 states | `TableFollowsMemory`, `RaisedGateBlocks`: every write path keeps the level and the row together as long as no write is lost and no restart happened, so that a raised gate blocks. `BlockStopsOpens`: a block lets through only what had passed the gate. `EvaluationsAccountedFor`: every evaluation is counted once |
| `rbf` | two transactions, nonces 0 to 2, two attempts each, two attempts by `RecordAttempt`. 402,336 states | `GrantedIsAnInterval`: the nonces between two reads of the chain. `NoForeignNonce`, `OriginalNonceSticks`: what replacing does with them |
| `reorg` | one signed transaction and one record without a hash, two interchangeable handlers, one worker that follows the chain, two attempts, two state objects, a database and a relay that fail, also after the relay has taken the transaction. States behind a counter that `InitializeNonce` has set back are reached and not left (`NotSetBack`); `Reorg_proofs` goes on. 1,164,956 states up to symmetry | `RebroadcastsAreSound`: they are bounded by the counted attempts (`RebroadcastsArePaidFor`), never share a nonce unless the counter was set back (`RebroadcastNoncesDistinct`) and are only of what the table called reorged (`OnlyReorgedIsRebroadcast`), though both handlers work on one state object without a lock |
| `bus` | two publishers, two subscriptions with buffers of one and two events, one id, three publications. 153,554 states | `UnsubscribeIsSafe` (`NoSendOnClosedChannel` and `DeliveredIsAccountedFor`), `KeepsContract` (the refinement of `BusContract`), `PublishNeverWaits` (liveness): a Publish ends though handlers hang and buffers are full |
| `execution` | orders: two callers, two positions, two openings of each. approvals: two callers, two keys, two amounts. records: two workers on one row, new records and finished ones, three bumps. limits: two callers, three positions in two pools. pnl: two positions, three milliseconds, INSERTs that interleave, collide, fail or never come. sending: two callers, two transactions, two calls, all configurations a build allows, one confirmation, three blocks. 979,241 states up to symmetry of callers and positions | of each part, that what holds between its steps survives the steps of the other caller, or under which condition; the history variables tell on which positions, keys and pools calls overlapped. `ClosesAreBounded`: one close per opening, and with overlapping calls no more than callers. `SuccessesAreStored`: what an answer of success calls the status is in the table. `RowsHaveTheirPast`: a status and the bumps of a row. `LimitsHold`: of a pool and of all. `LedgerHoldsReports`: the ledger holds what was reported and, beyond it, only fees of records that broke off. `SendingIsAccountedFor` (`LiveStaysPrivate`, `CountersAgree`, `ConfirmedStays`): the ways of sending |
| `lifecycle` | the process over new databases, old ones without the added columns, and ones altered by hand; a watchdog with two goroutines and three runs; two endpoints with a reader, a caller of the other methods and three calls. 25,932 states | `StoreIsUsable`: a running process has its tables whatever statement an earlier one was stopped at (`RunningHasTables`), and its store outlives its workers (`StoreOutlivesWorkers`). The columns added to an old table never come: see `lifecycle_migration`. `StopsAndSignalsEnd`, `ReadFindsHealthyEndpoint` (liveness). `StopsAreSafe` (`NoDoubleClose`, `OlderLoopsWereStopped`) |
| `adapters` | backtest: two pools, two runs over six windows (one within another, one across another, empty, reversed), blocks of one to three swaps, ticks in and out of range, a pool state every other block, files that are torn. signing: two signers, two amounts, three slippages from nothing to the whole, a node that accepts one nonce and may lag. strategy: two pools, three profiles at both ends of the ticks and at zero. simulators: two callers on one port, two blocks, sequences of two, a bot that is killed, a node to fork from (`MCForks`: without one the calls with a hash only fail). audit: five events, files of one, two kept. sources: up to two pools of three kinds, trades at two times, some of which do not parse, and the states of a service. 1,147,036 states | `CacheAndFilesAgree`, `FeesCountEverySwap`: what a backtest leaves to the next and to its reader. `SignedIsSound`, `ClosedWalletSignsNothing`: nonces, minima and the key. `RangesAreSound`, `RotationsNeverReturn`: what is entered and held. `SimulationsAreSound`: a call beside which nothing else held the port is answered by its own fork, and nothing broken off is admitted. `AuditKeepsOrder`: the files hold the events in order and lose only the oldest of those that got a line. `SourcesAnswerHonestly`: which failures are answered with an error, and what an answer holds |

Where one named property of a run stands for several of a module, the module
states each of them, and the harness joins those that ask the same question.

The bounds are small, and enough for the cases that matter: every property has a
mutant of the code that breaks it within them. Two callers show any
interference of a check with a write, and the history variables tell where it
occurred; a third evaluation makes one that begins after the block; three
nonces let a grant, a replacement and another's grant differ; three runs let a
loop outlive two others; a buffer of one event is full at the second. Conditions
such as "unless calls overlapped" are needed: without them TLC finds the
interleavings that are listed below as divergences.

`CHECK_DEADLOCK FALSE` is set where callers have used up a bound (publications,
openings, nonces, runs), and so stop; in `adapters` because a panic, and the two
runs of a backtest, end all.

Five runs end in a violation on purpose: each states what a comment of the code
says, and the code does not do. More of these are listed below without a run.

| run | property | what happens |
|---|---|---|
| `kill_unlock` | `KillNeedsUnlock` | the gate of a new process starts at ok without reading the table (`types.go:104`), and its first check above a warning threshold writes warn over the persisted kill (`:166`). The property also fails where a check of a running gate steps from kill to warn, and where the table cannot be read (`risk_repo.go:122`) |
| `rbf_nonce` | `ReplacementKeepsNonce` | the first `AttemptRBF` of a hash takes a new nonce (`rbf.go:191`): the transaction is sent a second time instead of being replaced |
| `reorg_recorded` | `RebroadcastIsRecorded` | the status after a rebroadcast is written to the empty hash (`reorg.go:246`) |
| `sending_error` | `BothFailedIsNotSent` | the answer of a relay that took the transaction is lost, and `Submit` returns an error (`flashbots-protect/mev.go:146`) |
| `lifecycle_migration` | `MigrationFindsTables` | the altered tables lack the underscore of the created ones (`store.go:223`): on every database the program has made, new or old, the start fails |

### Fairness

`bus`: the steps of a publisher within a `Publish` are weakly fair, for
goroutines that can run do run in Go. Nothing is assumed of pumps and handlers,
nor of the calls of `Publish`, `Subscribe` and `Unsubscribe`.

`lifecycle`: the main goroutine, the return of a scan and of an evaluation,
the steps of a call over the endpoints (an endpoint answers, if with an error), and
the way of the watchdog into its select are weakly fair. The ends of loops (by
cancellation, or by the closed channel) are strongly fair: Go's `select` chooses
among the ready cases at random, so a case that is ready again and again is
taken at some time. Ticks, signals and restarts are not fair, and neither are
`Run` and `Stop`.

## The proofs

Every invariant and every action property that a passing run checks is also a
theorem, for every value of the constants. Eight modules hold the proofs:

| module | what is proved of |
|---|---|
| `MainLoop_proofs` | `KillSwitch` and `MainLoop`: `TypeCorrect`, `TableFollows`, `GateBlocks`; `AllTypesCorrect`, `BlocksStopOpens`, `EvaluationsCounted`, and `LoopKeepsGate` with what follows from it (`LoopGateBlocks`, `LoopTableFollows`) |
| `RBFManager_proofs` | `NonceManager` and `RBFManager`: `TypeCorrect`, `GrantsFormAnInterval`, `OffersUngranted`, `GrantsAreFresh`, `AttemptsBounded`, `NoncesStayApart`, `OriginalNonceKept` |
| `Reorg_proofs` | `Reorg`: `TypeCorrect`, `RebroadcastsSound` |
| `EventBus_proofs` | `EventBus`: `TypeCorrect`, `UnsubscribeSafe`, and `BusKeepsContract`, the refinement of `BusContract` |
| `Execution_proofs` | `Execution`: `TypeCorrect`, `ClosesBounded`, `SuccessesStored`, `AllowanceTracked`, `RowsKeepTheirPast`, `LimitsAreKept`, `LedgerAddsUp`, `SendingAccounted` |
| `Lifecycle_proofs` | `Lifecycle`: `TypeCorrect`, `LoopsStopSafely`, `StoreSafe` |
| `Adapters_proofs` | `Adapters`: `TypeCorrect`, `CacheAndFilesSound`, `EverySwapIsCounted`, `SignaturesSound`, `ClosedSignsNothing`, `SimulationsSound`, `RangesSound`, `NoRotationReturns`, `AuditSound`, `SourcesSound` |
| `SumTheorems` | sums over finite sets: what changes when an element or a value does |

### Assumptions

They stand with the constants, and TLC evaluates them in every run.

- Sets of goroutines, subscriptions, position ids and pools of a backtest are
  finite, since they are counted or summed over; nothing else is.
- Thresholds, amounts, limits and capacities are natural numbers, and amounts
  that may be losses are integers, as the types of the configuration have it.
- Bounds of the models are natural numbers, and the values that start a
  component lie within them.
- A provider of endpoints has at least one (`NewRoundRobinProvider` refuses none),
  a replacement has at least one attempt, and a log that rotates keeps a file.
- A caller of the table of transactions may upsert any status with any count of
  bumps, as `UpsertTx` does; what a row was upserted with counts as its past.
- The tick of a pool lies within those of the chain, and the address of a pool
  is not the hash of a block, which `cacheSwaps` and `cachePoolStates` mix up in
  one column.
- Marks for "nobody" and "not acknowledged" are not among the names they mark.

### The inductive invariants

A composition (`Execution`, `Lifecycle`, `Adapters`) moves one part at a time.
`StepOfParts` shows that its step is a step of each part or leaves it alone, so
that each part is proved with an invariant of its own.

**Kill switch.** `TypeOK /\ TableFollowsMemory`. `RaisedGateBlocks` is not
inductive by itself: that the gate blocks follows from the row, and that the row
says so is what `TableFollowsMemory` carries from step to step. No more is proved
of a kill, for no more is true of it: `kill_unlock`.

**Main loop.** While the gate blocks, an evaluation that opens turns from one
under way into a late one: the sum of both is bounded by the number of
evaluators, which is inductive, while the bound on the late ones alone is not.
`EvaluationsCounted` needs that a step moves one unit between the evaluations
under way, the opened ones and exactly one summand of the counters
(`CounterSum`). `LoopKeepsGate` shows that the loop leaves the gate a behaviour
of `KillSwitch`, so that the theorems there hold here as well.

**Nonces and replacing.** The invariant adds to the types what the nonce manager
keeps (`NonceInv`: the grants since the last read of the chain are exactly the
nonces from the one that was read to the counter), the bound on the attempts,
and, as long as `clean` holds, that every nonce in use lies below the counter:
without it nothing would stop a new grant from meeting an old replacement.

**Reorgs.** `RebroadcastsArePaidFor` counts, for a state object, the nonces sent
and the handlers that may still send (`Coming`): each attempt that was counted
pays for one of the two. That nonces differ needs `SentIsBehind`: until
`InitializeNonce` has set the counter back, what was sent, and what a handler is
about to send, lies below it. `CallsMatch` ties the statement under way at the table to the place
of the handler, so that a row it leaves behind is marked before it sends. Every
action is first reduced to whether it moves a handler, a state object or neither
(`ObjectFacts`, `HandlerFacts`), and the three cases are lemmas.

**Bus.** `Ordered` says of each subscription and publisher that what was handed
over comes before what is buffered, both before the event of a `Publish` that
has yet to reach this subscription, and no number is above that of the last call
of its publisher. The mapping
to `BusContract` takes `handled` for what was got: a step of a pump appends to
it an event that `Ordered` has put behind the others, and every other step is a
publication or a stutter.

**Orders.** Two calls at one position have been noticed (`OverlapsAreKnown`). Of
the positions on which no calls overlapped: what a call has checked is still so
when it writes (`ChecksStillHold`), and an open position has not been closed
(`ClosedOnce`). Of the others: a position that was closed stays so until it is
opened again, and its closes, with the callers that may still close it
(`MayClose`), are no more than the callers (`ClosesLeft`). `SuccessesStored` is an
action property: each kind of answer is compared with the write of its step
(`AnswersStep`), and that of `Rebalance`, which does not look at the status again,
rests on `ChecksStillHold`.

**Approvals.** A key whose release has revoked it and which nobody acquired
meanwhile has no allowance left (`ReleasedIsRevoked`); only with that may the
second half of the release forget it.

**Table of transactions.** Not only the status of a row has its past, but each
it has ever had since it was upserted, and the one a checked update is about to write (`PastOf`): the
table of transitions leads from a complete past to a complete one, whichever
statements come in between. The counter of a row holds the bumps that were
allowed and those that may still be answered so (`CounterHoldsBumps`).

**Limits.** What a pool holds, together with the candidate on its way through
the checks, stays within its limit, and there is one such candidate; likewise
for all pools. Totals are sums over the stored positions.

**Ledger.** The invariant is the property itself with its types: what is stored
is what was answered with success, what calls under way have appended so far, and
the fees of those that broke off. The work is in the sum over the entries before
and after one INSERT, which may be of either of two callers.

**Sending.** `CallIsSound` relates the place of a call, its way and its answer
to the chain; at the last look the block is deep enough below the head, and a
reorganisation is shorter than that. The counters are shown through the number
of callers between two counters (`Uncounted`, `FellBack`).

**Watchdog.** Only the current channel is ever closed, and the flag says that it
is open; a loop is of the current `Run` or was told to stop.

**Process.** The statements that are done have left the tables they create
(`MigratedSoFar`), and the phase says how many are done. Nothing
is proved of the columns: those of an old table never come.

**Backtest.** The three files of a pool come from runs in the order in which
they are written: summary no later than series no later than verdict, a run
that has not come to them is later than all, and none comes after one that a run
has left torn (`FileInOrder`). The cache holds no
swap twice since a run stores swaps only for a window in which it found none, as
long as its queries are answered, and a swap's number within its second is part
of its id;
that no stored state is ever found again needs the assumption on addresses. The
fees are a sum over states of the swaps in the interval before each; that it
counts every swap once and those on inner states twice is shown by taking the
least state at which it would not (`IntervalsAddUp`).

**Signing.** Every nonce from the first to the one the node gives next was
signed for, and so was the one before each nonce a signer holds
(`NoncesAreLinked`). That nothing is signed after `Close` rests on the last look
at the key alone, in one step. The minima are bounded by what division does to a
product (`SlippageBounds`).

**Strategy.** A range is centred on a tick and cut off at the ends of the ticks
by at most as much as leaves it not empty; the four calculators are shown to do
so one by one, from any range that another may have left. Between two scans no pool
that was held scores more than the one that is (`StratInv`), and a rotation asks
for more.

**Simulators.** A process beside which no other call ran, nor one that a killed
bot had left (`ForksAreOwn`), is the one that answers on the port, and the results of a call are in number what it has asked for, all
but the last with success.

**Audit log.** The order across files, that every record in them is of an event
that got a line of its own, and that a rotation that has not failed so
far leaves a hole which the next rename fills (last conjunct of `LogInv`):
without the hole a rename would overwrite a file in the middle.

**Data sources.** An answer is the body of a reply of a service that is up, or an
error, but where an adapter does otherwise; a body of another shape is read as an
empty one where the code decodes what it finds (`Read`). What is left of a list after the
filters is selected by the ranks of the indices (`Only`); that it is no longer
than the list and in its order of elements is `OnlyIs`.

### What the proofs changed

- `EthCall` of `Simulators` had no guard on the kind of simulator. TLC never saw
  it, for only calls to Anvil came there in its instance; the invariant could not
  be shown without it.
- `AuditKeepsOrder` speaks of pairs of records instead of the flattened log, and
  `Sources` selects by indices instead of `SelectSeq`: both say the same, in
  terms a proof can open.
- `Execution`, `Lifecycle` and `Adapters` were parted from their values for TLC,
  so that the theorems are about any values.

### Induction

The provers cannot instantiate the induction theorems of the library, which take
an operator. `SumTheorems` goes around them: among the finite subsets of a set
for which a statement fails there is one of least cardinality
(`MinimalSubset`), and without one of its elements the statement holds. With
that the fold behind a sum has the value it should have (`SumSolves`), and sums
change with their elements (`SumAdd`, `SumRemove`, `SumChange`, `SumSubset`).

### Only model-checked

`PublishNeverWaits`, `StopsAndSignalsEnd` and `ReadFindsHealthyEndpoint` are liveness
properties under fairness, which rest on `ENABLED`, and the prover cannot expand
that. `ReadFindsHealthyEndpoint` asks that nobody else calls from some time on, and that
what is read exists and its context is not cancelled: without the first, a caller
that keeps failing may move the client on each time before the reader asks, and
without the second the code asks for ever. The five violations are refutations,
which a run shows and no theorem could.

## Divergences without a run

Met while reading and modelling. The models do what the code does in each of
these places, so a property that asked for what the text says would fail.

- `sqlite/risk_repo.go:122`: every error of the database is level ok and a nil error; `core/risk/gate.go:40` says "fail-closed on error". A part of `kill_unlock`.
- `core/execution/noncemanager.go:113`: `IsNonceAvailable` compares with the counter only and does not look at the pending nonces the comment at line 102 names.
- `core/execution/rbf.go:173`: the bump is taken of the fee suggested now, not of the fee of the original.
- `core/execution/rbf.go:142`: `RecordAttempt` creates an entry with nonce zero, which the next attempt uses.
- `sqlite/tx_repo.go:200`: the update does not compare the status it has checked; `ports/store_tx.go:27` and `:57` describe one that does.
- `sqlite/tx_repo.go:224`: the list of pending transactions asks for `rfb_bumped`, the status is `rbf_bumped` (`domain/tx.go:12`).
- `flashbots-protect/mev.go:144`: the strict submitter counts a submission as failed before it falls back; the comment at line 80 says that both failed. Four counters are read one after the other, so a reader may see more successes than submissions.
- `broadcast/live/broadcast.go:153`: when a reorganisation comes between the two calls, the success is for a transaction that is gone: the exemption in `ConfirmedStays`. On Solana the number of confirmations is not used.
- `rpc/roundrobin.go:398`: `SendTransaction`, `FilterLogs`, `TransactionByHash`, `TransactionReceipt` and `NetworkID` return the error when the next endpoint was dialled, and all but the last try again when it was not; line 47 promises automatic failover.
- `rpc/roundrobin.go:168`: a read of something no endpoint knows, or with a cancelled context, calls itself for ever; and callers may keep moving each other back to an endpoint that is down.
- `sqlite/tx_repo.go:64`: `broadcast_at` is never written, so `ListStuckTxs` is empty.
- `core/execution/reorg.go:195`: two handlers of one hash rebroadcast it twice, each with an attempt of its own; a handler does not look again whether the row was confirmed meanwhile.
- `core/execution/noncemanager.go:118`: `InitializeNonce` takes the answer of the chain also when it lies behind nonces that are reserved.
- `core/execution/execution.go:169`: two overlapping `Close` calls both succeed; a `Rebalance` under way answers with a status that is gone.
- `core/execution/execution.go:209`: the `rejected` and `exit_failed` of a failed simulation are answered and stored nowhere; `core/execution/interface.go:30` calls the field "the terminal status of the position after execution".
- `core/execution/execution.go:241`: `Close` goes from open to closed at once; `state_machine.go:8` has exiting in between.
- `inproc/bus.go:164`: a prefix pattern also matches where no dot follows; `ports/bus.go:56` describes segments.
- `inproc/bus.go:78`: an id is marked by the handler, so that a repetition before that passes.
- `core/execution/approve.go:138`: an `Acquire` between the revocation and the removal is forgotten by the removal.
- `core/execution/approve.go:181`: the audit looks at tracked approvals only, and so finds no orphan.
- `core/execution/approve.go:99`: when the revocation succeeds and the approval fails, the old entry stays and is used again.
- `sqlite/ledger_repo.go:42`: two entries of one position in one millisecond collide, and the second is an error. The fee and the loss of a record are two INSERTs without a transaction (`core/pnl/ledger.go:60`), so that the fee stays when the loss does not come, and a retry adds it again; `core/pnl/README.md:41` has the sum of the ledger equal the realized PnL.
- `core/watchdog/watchdog.go:104` and `:120`: a loop that ends by its context leaves the flag set; `Stop` does not wait for the loop.
- `core/loop/loop.go:197`: `EvaluatePool` asks for the maximum of the tier whatever the pool holds; `domain/tier.go:38` calls it the maximum exposure per pool.
- `cmd/lpbot/main.go:416`: the feedback of failed transactions to the gate does nothing.
- `cmd/lpbot/main.go:226`: the total capital is not configured, so the limit of total exposure always passes (`alloc.go:181`).
- `sqlite/position_repo.go:214`: any status follows any other, unlike what `ports/store_position.go` says.
- `inproc/bus.go:208`: the pump hands out what is buffered after `Unsubscribe` has returned; `ports/bus.go:71` says the handler will not be invoked again.
- `cmd/lpbot-backtest/output.go:69`: the verdict file says `**Status:**`, `scripts/aggregate-verdict/main.go:135` and `scripts/run-phase0-verdict.sh` look for `Verdict:`, so that every pool is unknown and counts as warned, never as failed: a phase whose pools all failed ends as PASSED WITH WARNINGS with exit code 0, while `main.go:182` and `:187` of the aggregate say that such a phase has failed.
- `cmd/lpbot-backtest/loader.go:132`: the ids of cached swaps repeat from window to window, the states are stored under the hash of a block, and the column `fee` of the query for the truth does not exist: the truth is always zero.
- `cmd/lpbot-backtest/simulator.go:185`: a swap at a pool state is counted before and after it.
- `anvil/simulator.go:378`: the result of a call is decoded with the quotes of its JSON string, and so never decodes: a call that succeeds is reported as failed.
- `anvil/simulator.go:113`: a sequence goes on after a revert, each call on the state before all; `ports/simulator.go:42` to `:47` describes one that shares its state and aborts. Neither adapter fills in the output amounts, without which the slippage check, and with it `Open`, always refuses.
- `anvil/simulator.go:156`: two calls at a time are answered by one fork, and a call after a bot that was killed by the fork it left; `ports/simulator.go:27` says that the block pins the state. `SimulationsAreSound` leaves both out.
- `keystore/wallet.go:322`: `Sign` passes over the nonce of its transaction and asks again, so that two signers may sign for the same one. `ApproveExact` asks for the nonce of the token.
- `keystore/wallet.go:241`: a `Close` that comes after the last look at the key makes the signature panic. In the model the key that is read may be whole, half wiped, wiped or gone.
- `ports/datasource.go:115`: adapters answer a pool that is not found with nothing and no error; `:103`: only the subgraph asks for an order by TVL. `dexscreener/adapter.go:146` looks neither at the window nor at the order of swaps.
- `solana/client.go:172`: every status other than 200 is an empty list of trades; `ports/datasource.go:160` says "Returns an error if the query fails". A 200 with a body of another shape is empty without an error in `dexscreener/client.go:172`, `geckoterminal/client.go:157` and `solana/client.go:176`.
- `subgraph/adapter.go:206`: a time that does not parse is an error that is dropped, and the swap is dated to zero, outside of the window that was asked for.
- `core/execution/approve.go:117` and `:138`: the transactions the wallet has built are dropped; nobody signs or sends them, although the tracker counts the approval.
- `core/execution/txbuilder.go:198`: a zero minimum is refused for a mint and not for an increase.
- `core/risk/types.go:188` and `:222`: only a zero peak or budget is refused; with a negative one the comparison turns around.
- `core/reconcile`: positions are keyed by pool, so that two of one pool count as one.

## Not modelled

Chain and pool bindings, decryption and signatures are input and output or
cryptography; the stubs among the data sources answer with an error. Of the
strategies, the estimates of costs and the scoring of a candidate by its fees,
and of the backtest the loss of its position, are formulas over floating-point
numbers that decide nothing modelled; so are impermanent loss and VaR. The pool repository is one
upsert and its queries. The start-up reconciliation compares two lists once and
reports; the goose migrations are a library's. Alerting, reporting, logging and
metrics have no state that anything depends on. Generated queries, SQL files and
dashboards are left out, and the postgres store, which implements the same
interfaces.

Details left out of definitions that are modelled: rows that do not scan, which
the queries of `Allocation` pass over; that `strategy.go:34` computes the total
anew and `:42` takes the field, which agree for scores made by the scanner; the
branch of `compare.go:51` for a truth of exactly zero after parsing, which the
callers do not reach; the lists of `tx_repo.go`, `DetectReorg`, `MarkPrice` and
the ticker of the main loop, which change nothing or are not started.

## Plan

1. Proofs: an abstract pool of nonces that `NonceManager` implements, with
   `Reorg` and `RBFManager` as its users, and an abstract account of a
   submission (asked, taken, public, final) that `Sending` implements; the exact
   condition under which `LimitsHold` survives two candidates at once.
2. The start-up reconciliation over the table of positions, once it is called
   from `main.go`.
