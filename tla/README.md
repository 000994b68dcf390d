# XYZ-Backend in TLA+

The backend follows an Ethereum node, stores every block and the events of a few
contracts (KEK token, Supernova staking, Governance, yield farming, ERC20
transfers of monitored accounts) in Postgres, computes states, powers and balances from
them in SQL, announces the life of proposals, and serves all of it over an API. This
directory models that path from end to end: a block gets into the database exactly once,
in its right version, whatever happens meanwhile; its rows are those of its logs; and what
SQL, the notifications and the API make of the rows is what the contracts say.

## 1. The system

| component (source) | state | operations | talks to |
|---|---|---|---|
| best block tracker (`eth/bestblock`) | `bestBlockNumber`, flags `started`, `stopped`, `subscribed`, subscribers | `Run` (dial, websocket loop or polling), `publish`, `Subscribe`, `BestBlock`, `Close` | the node; its subscribers, over one goroutine per published height |
| task manager (`taskmanager`) | redis sorted set `todo`; `paused`, `closed`, `lastBlockAdded`, all without a lock; channels `pause`, `resume`, `stopChan` | goroutines `FeedToChan` (and a popper per pop) and `watchNewBlocks`; `Todo`, `Reset`, `Pause`, `Resume`, `Close` called from others | tracker, redis, consumer, dashboard, checker |
| core (`core`) | `stopMu`, held while a block is processed | `Run` (backfill goroutine, consumer loop), `Reset`, `ExitDelayed`, `Close` | all of them |
| scraper (`scraper`) | none | `Exec`: a block, then its receipts in parallel | node |
| processor (`processor`) | none between blocks | `New` (refreshes `state`), `Store` | Postgres, storables |
| storables (`processor/storable/*`) | none between blocks | `ToDB` in the block's transaction: rows, and the notifications and jobs that go with them | Postgres, node |
| integrity checker (`integrity`) | table `integrity_checkpoints` | a lifecycle every minute | Postgres, task manager |
| state (`state`) | the monitored accounts | `Refresh` before each block | Postgres |
| notifications (`notifications`) | tables `notification_jobs`, `notifications` | a worker, a process of its own, that executes the jobs that are due | Postgres, `proposal_state` |
| schema (`migrations`) | the tables, materialized views that triggers refresh | `delete_block`, `proposal_state`, votes, voting power, balances | |
| dashboard (`dashboard`) | none | POST handlers: pause, reset, queue, config | core |
| API (`api`) | none | read-only queries and `buildHistory` | Postgres |
| commands (`cmd`) | none | `run`, `scrape`, `queue`, `reset`, `notifications`, `api`, ... | |
| metrics, slack, utils, types, contract bindings | counters | | |

How a block travels: the tracker publishes a height; `watchNewBlocks` adds it, less
the lag, to the sorted set; `FeedToChan` pops the lowest member and hands it to the
consumer of `Core.Run`; the consumer scrapes, validates and stores it, or puts it
back. The backfill at start, the checker and the `queue` command add heights to the same
set. A block that is stored already in another version is deleted from every table first.

What is hard here:

* the task manager's fields and channels are shared by the feeder, the popper, the
  watcher and one goroutine per dashboard request, with 100ms sleeps as the only
  synchronisation;
* heights arrive out of order, twice, or not at all; the node replaces blocks that are
  stored already, also between two requests for one block;
* a block is on its way through redis, memory and two transactions, and the process can
  end between any two of them;
* the checker computes one checkpoint from three queries while rows come and go, and
  never looks below it again;
* the newest of some rows decides (a balance, a lock, a vote), and rows are deleted and
  inserted again in another order than they were mined;
* the state of a proposal is computed three times, by the contract, by SQL and by the API,
  with boundaries of its own in each;
* a notification follows the one before it, each at a time computed in advance, from rows
  that a reorg may take back;
* calls to the node, redis and Postgres fail.

PROJECT.json lists the hazards line by line.

## 2. The modules

| module | models | composed with |
|---|---|---|
| `TaskQueue` | what the task manager promises | |
| `TaskManager` | `taskmanager.Manager` and its goroutines | implements `TaskQueue` |
| `Indexer` | backfill, consumer, `Store`, checker, crashes, over the heights | uses `TaskQueue` as its queue |
| `BestBlock` | `bestblock.Tracker` | |
| `Consumer` | consumer loop with `stopMu`, `Close`, end of the process, `queue` command | |
| `Proposals` | logs to rows, `proposal_state`, votes, `buildHistory`: operators | |
| `Governance` | blocks with governance logs, storables' jobs, reorgs, the worker | extends `Proposals` |
| `Ledger` | staking, token, farm, transfers: logs to rows, SQL, views, pages: operators | |
| `Storables` | scraper, validation and `Store`, over rows | extends `Ledger` |
| `MC*` | instances for TLC where a constant is a set or function | |
| `*Proofs` | theorems: one module for each of `TaskManager`, `Indexer`, `BestBlock`, `Consumer`, `Storables`, two for `Governance` | |
| `Sums` | lemmas on folds and on the sums over sets that SQL's `sum` is modelled by | used by `GovernanceProofs` and `StorablesProofs` |

The two levels meet at a height. `TaskManager`, `Indexer` and `Consumer` say which heights
are tried, when and how often; `Storables` and `Governance` take any height at any time and
say what becomes of its rows.

**TaskQueue** is the abstract specification: a set of heights (`pending`), one
place on the way to the consumer (`slot`), a `gate`. The lowest height leaves first
(`Take`, `Hand`), only through an open gate; a shut gate has nothing on the way. The one
loss it admits is `Mislay`: a `BZPOPMIN` whose reply does not arrive.

**TaskManager**. A step ends where another goroutine can see it: a redis call, a channel
operation, a shared field.

* `FeedToChan` is `feeder` with `held` and `popper`/`popped` (the goroutine of this
  iteration). `FeederPauses`/`FeederSetsPaused`/`FeederResumes`/`FeederClearsPaused` are
  the `case <-m.pause`, one step per statement; `FeederStartsPop` is its `default`, taken
  when nobody sends; `Pop`, `PopFails` the popper; `FeederGetsTask`, `FeederWakes`,
  `Deliver`, `FeederStops` the second `select`. A send on an unbuffered channel and its
  receipt are one step, with the sender waiting in `hpc` until then.
* `watchNewBlocks` is `watcher` with its locals `wb` (b), `wi` (i), `started`, `skip`,
  `lastBlock`. `WatcherTodo` and `WatcherMark` are apart because `Reset` may come between.
* The tracker is `inflight`, the publish goroutines blocked on the watcher's channel, by
  height: any of them may be received next.
* Every handler goroutine is an element of `Handlers` with its place in `hpc`; `Request`
  starts `toggle` (PausePostHandler), `reset` (Pause, then Reset), `exit` (ExitDelayed),
  `stop` (the signal handler, Close without a pause). `QueueBlock` is the queue page.
* The sentinel `-1` that Pause adds is a member of `todo` like any other.
* The sleeps: with `NapSuffices` the 100ms outlast the reply Pause waits for, and the two
  seconds of ExitDelayed outlast the feeder's `m.paused = true`; without it, they need not.

Two places are coarser than the code and equivalent: the test of `m.closed` and the
`select` on `pause` are one step (a signal sent between them is received on the next
round); the two reads of Close (`paused`) happen in one step after `closed` is set.

**Indexer**: `Start` and `BackfillOne` (Core.New, Run's backfill), `Announce` (tracker and
watcher, a batch of headers at a time), the consumer (`Receive` to `Requeue`, one step
per query of `Store`: by hash, by number, delete, store), the checker (`ReadCheckpoint` to
`SaveCheckpoint`, one step per query or queued block), and around them the node (`Mine`,
`Reorg`) and `Crash`. `db` holds hash and parent hash of each row; a block's hash is the
number of the branch it was mined on. redis and Postgres survive a crash, memory does not.

Simplifications: `Start` reads the highest row and the tip at one moment; a switch of
branch keeps the node's height and never touches blocks at or below `Final`; whether the
tracker notices it is open (`switched`: the websocket does, polling does not); failures
of validator, `state.Refresh` and `processor.New` are `ScrapeFails`; Todo on an error path
succeeds (its failure is in `Consumer`); there is no pause.

**BestBlock**: `Dial` to `SetBest` are Run's goroutine, with the
publish loops step by step (`Announce` until `next > last`), `Break` loses headers and
closes the channel, `Subscribe` and `Close` are called from outside. `useWS` is chosen at
`Init` from `Modes`, so one run covers both loops. Close's send waits
as `closer = "sending"`. The stop case of `runHTTP` is missing because nothing can reach
it: Close only sends when `subscribed`, which only the websocket sets.

**Consumer** puts the parts together that share `stopMu`: `Feed` has the next task in its
hand while `Lock`, `Work`/`WorkFails`, `Requeue`/`RequeueFails` process one; `Stop`, `CloseLock`,
`CloseAll`, `Exit` are Close from the signal handler to the end of `main`; a failing requeue
is `log.Fatal`. `AddBatch`, `AddBatchFails`, `AddDone` are `batchAdd` in another
process, whose last batch may be empty and then panics at `members[batchSize*i]`.

**Proposals** has one proposal: no query or job looks at another's rows. Logs become rows (what
`governance/*.go` inserts, and from which block), and over the rows stand the SQL functions
(`proposal_votes`, `abrogation_proposal_votes`, `ProposalState`) and the API (`BuildHistory` entry by
entry in the code's order, `Shown`, `TimeLeft`, `Details`, `Listed`). `ContractState` is the Governance
contract, external, with its `<=` and `<` as the bundled bindings and the SQL imply.

**Governance** moves them through time. `Call` and `Reorg` are the node; `StoreBlock` is the storable
in the block's transaction, with the jobs the code executes at once (`FromBlock`); `DeleteBlock` takes rows,
jobs and notifications of a replaced block. Each job is a pair as in `notifications/governance.go`: when it
is due (`New...`) and what it does given the state (`Announce` and the rest). The worker is one transaction in
steps: `Fetch`, `Execute` per job, each of whose reads sees what others have committed, `Commit`, or `Crash`.
`Visible` is `handleNotifications`. `raced`, `gaveUp`, `late` are history: they mark what the
properties excuse.

**Ledger** gives each event of the other contracts its rows, and each SQL function and view its
definition over them: `BalanceOf`, `VotingPower`, `KekStakedAt`, the view of voters, the chart of the farm, the
treasury's list with its filters. `Outcome` says what a call changes in the contracts and in which order
it leaves its logs (external). Powers are in units of 1/`Year`, so that the multiplier stays an integer; a block's time is its
height. `Checked` is the fold over a block's transfers that looks up unknown tokens.

**Storables** runs it: `GetBlock`, one `GetReceipt` per transaction in any order (from whatever
branch the node is on by then), `Validate`, `Check` (the two checks and `delete_block`), `Store`,
`StoreFails`, beside a node that mines (`Mine`) and replaces its newest block (`Switch`). A transaction
may be in both versions of a block, with other logs at another place: that is what makes the receipts of one
version pass for those of another until the validator looks.

Definitions whose comment begins with `Mutant:` are not part of any specification. Each is a
plausible slip in the code (a lost reset, a swapped order, one too far) and sits before the
definition it would replace; with it the property named in PROJECT.json fails.

## 3. The runs

Every run sets `CHECK_DEADLOCK FALSE`: the system stops when the bounds are spent, the
process is closed, or it is paused.

| run | what it checks | states |
|---|---|---|
| `TaskManager_pause` | one operator pauses, resumes, resets and queues: `PausedHoldsNothing`, `PauseTakesEffect`, `Drains`, `ImplementsFairQueue` | 210 000 |
| `TaskManager_watcher` | announcements in any order, reorgs, lag 1, pauses, a failing redis, an exit meanwhile: `WatcherLeavesNoGap`, `ExitDelayedLosesNothing`, `ImplementsQueue` | 3 500 000 |
| `Indexer_reorg` | the table ends up equal to the chain: `Converges` | 1 100 000 |
| `Indexer_faults` | lag 1, failing calls, a crash at any step: `NoForgottenHole`, `DeletedOnlyToReplace` | 1 700 000 |
| `BestBlock_tracker` | connections that break, polling that fails, switches, Close: `NoSkippedHeight`, `ReorgRepublished`, `CloseReturns`, `CatchesUp` | 400 000 |
| `Consumer_commands` | a queue command beside a consumer that retries, is stopped or dies: `TasksAccounted`, `BatchQueuesAll`, `OneBadBlockStarvesNobody`, `StopReturns` | 10 000 |
| `Governance_lifecycle` | every life of a proposal, with a replaced block: `SqlMatchesContract`, `HistoryAgrees`, `FinalIsFinal`, `NoOrphanRows`, `AnnouncedOnce`, `PhasesAnnounced`, `ShownInItsPhase` | 610 000 |
| `Governance_worker` | a worker that dies or falls behind: `AnnouncedOnce`, `Settles` | 63 000 |
| `Storables_storables` | rows, powers, balances and pages while the node switches between requests: `RowsMatchBlock`, `PowerMatchesContract`, `StakedIsHeld`, `DelegateesTold`, `ListMatchesCount`, `TreasuryBalances`, `ChartMatchesFarm` | 1 900 000 |
| `TaskManager_reset_race` | "backfill the whole chain after a reset": `ResetBackfillsChain` | violated |
| `Indexer_delete_block` | "will be replaced with new version": `ReorgedBlockReplaced` | violated |
| `Governance_canceled_shown` | "if the proposal was not canceled during the ACTIVE period, that means it reached one of ACCEPTED/FAILED": `CanceledShown` | violated |

The violations are real disagreements of the code with its own comments:

* **reset_race**: `watchNewBlocks` is between `Todo(i)` and `m.lastBlockAdded = i` (or about
  to rewind) when Reset writes -1; the watcher's write wins.
* **delete_block**: `delete_block` performs `__delete_entity`, which no migration creates, and the list of
  tables it is given has `jtoken_transfers`, which none creates either. All other runs that replace a stored
  block assume a database that has both (`DeleteEntityDefined` in `Indexer`).
* **canceled_shown**: `buildHistory` compares the cancellation strictly with the end of a phase, in which the
  contract and `proposal_state` still accept it. `HistoryAgrees` leaves these seconds out (`Edge`).

Two more configurations are kept beside the runs, each violated on its own:
`TaskManager_stale_resume` (`ResetStaysPaused`, the page's "You have to manually resume it!": of two
Resume requests of one pause the second blocks in the channel and is received by the
pause of a later Reset) and `BestBlock_close` (`CloseStops`, "Close stops the tracker": `subscribed` is only
set by the websocket loop). A further one needs no run: FeedToChan's comment "Highest
blocks have priority" (`taskmanager.go:122`) stands over a `BZPopMin` with the height as score, and
`ImplementsQueue` says that the lowest height leaves first.

What properties excuse, and why:

* With a lag, `Converges` is one header late: the first header after a start only spends
  `skipBlocks`, so the height it stands for waits for the next one (and with backfill off the
  heights below it are left to the checker). `Indexer_reorg` therefore has no lag.
* `NoForgottenHole` excuses tasks that ended with the process below a checkpoint (`lost`): the run shows that
  crashes are the only way to such a hole. `TasksAccounted` bounds it: two for each end.
* `OneBadBlockStarvesNobody` is about one block that always fails. Two of them take turns in the consumer and
  in the feeder's hand, and every higher block starves.
* `PhasesAnnounced` needs a worker that is never late and not misled by rows that a reorg takes back: a job that
  finds another state than it wants ends its chain. `FinalIsFinal`, `NoOrphanRows`, `AnnouncedOnce` need that
  no `delete_block` overlapped the worker's transaction (`raced`): what it then writes belongs to a block
  that is gone, and nothing deletes it until that height is replaced once more.
* `HistoryAgrees` leaves out what `Edge` names, where `buildHistory` and `proposal_state` part: a proposal canceled or
  executed in the last second of a phase, and one canceled in the first second of the vote, whose entry starts
  together with the cancellation's; the second in which the queue ends; a vote with a quorum whose share of supporters is
  exactly the threshold; an abrogation supported by exactly half of what is staked.
* `ShownInItsPhase` lets an abrogated proposal be announced as in its grace period, the one announcement
  of a phase's end that does not wait `Safety`.
* `TreasuryBalances` leaves out the tokens of which a transfer was left out because the node did not
  answer for an unknown token: the block is stored without it, and nothing looks for it again.
* `PowerMatchesContract` takes the base of a quorum as the code means it, the balances one block before
  the newest block older than the moment, which is one block short of what the contract counts.

### Bounds

| module | bounds | why enough |
|---|---|---|
| `TaskManager` | 2 heights (3 with lag), 1 handler (2 for `stale_resume`), 2-4 requests, 1 fault | heights below, at and above one another are all the guards compare; a pause, its resume and the next one; a third handler adds no code path |
| `Indexer` | 3 heights, `Final` 1, `Lookback` 1 for 100, 1 switch, 1 crash and 1 failure | a switched block has a neighbour on both sides, and a broken pair below the checkpoint is partly out of sight; one fault at any step meets every other step |
| `BestBlock` | heights 2 to 4, 2 switches, 2 faults | a gap of more than one, a switch during the repair of another |
| `Consumer` | from 1 to at most 4, batches of 2, a bad block 1, 2 ends, 1 fault | ranges that are empty, shorter than a batch, a multiple of it, and not; the bad block is the first of all |
| `Governance` | voters with powers 3 and 2 of 4 staked, phases of 3, 2, 4 and 2 seconds, clock to 15 (8 for `canceled_shown`), 6 blocks (5, 3), 1 replaced block, stored within a second | one voter carries, the other does not, both are above the quorum or one is not; each phase is longer than the jobs' distances (`Soon` 1, `Safety` 2); 6 blocks are a life from creation to execution |
| `Storables` | 3 users, 10 calls, 2 heights, 3 blocks and 4 transactions mined, 1 fault, 1 block deep switches, `Year` 3, `Scale` 2 | a block and its successor, one of them replaced; two transactions in a block, so that their order and receipts can be mixed up; delegation, its stop, a second delegator; a bucket boundary between the heights |

Requests, announcements, faults, requeues, crashes, reorgs and broken
connections are counted in the guards by constants named `Max...`. The proofs (section 4) do without them.

### Fairness

* `TaskManager`: weak fairness of the watcher, feeder, popper, consumer and of each handler: the Go
  scheduler runs what can run and redis answers. Nothing obliges the node to announce or an
  operator to ask.
* `Indexer`: the same, and of `Start` (docker restarts the process) and the
  checker (a ticker). A new block need not come, which is why `Converges` asks for one on the
  last branch (`fresh`): the checker finds a replaced row by its child only.
* `BestBlock`: weak fairness of Run, and strong fairness of `Stop` since `select` chooses at random
  among what is ready.
* `Consumer`: weak fairness of every step of a running goroutine. `Lock` and `CloseLock` are strongly
  fair: a Go mutex is handed to whoever has waited for more than a millisecond. So is each `Feed(h)`: a pop takes
  less time than the round trips of a block, so the feeder takes the first task of the
  list while the consumer has another, and does not for ever come too late. Nobody is obliged to stop the process.
* `Governance`: weak fairness of the worker (a loop with a ticker, restarted by docker). In `lifecycle` no
  fairness is needed; that the worker runs in time is in `Tick`'s guard, and `MaxLate` counts the exceptions.
* `Storables`: no liveness, no fairness.

Properties under failure assumptions: `PauseTakesEffect` and `Drains` are checked without redis
faults and with sleeps that suffice (a lost sentinel makes Pause wait for the next task);
`ExitDelayedLosesNothing` with one handler at a time (a Resume during the exit can start a pop
that the close then loses); `Converges` without failures or crashes.

## 4. The proofs

The theorems hold for every value of the constants that satisfies the assumptions named in the
modules, which TLC evaluates in every run: `ManagerAssumption`; `IndexerAssumption` (the lag is below the first best
block and not above what the node may still switch); `TrackerAssumption` (the node's first head is above height 0);
`ConsumerAssumption` (bounds are naturals, batches are not empty); `LedgerAssumption` (no user has the address of a contract,
so that whoever stakes is not the staking contract itself, and users are finitely many, as the accounts of a chain are) and `StorablesAssumption` (a call has a user, a natural amount and, by its
kind, a delegatee or a token);
`ProposalAssumption` (voters are finitely many and have natural powers), `GovernanceAssumption`. Some
theorems have a hypothesis besides, stated with them and explained below: `ByOne`, `DelaysSuffice`, `DistinctPhases`,
`PhasesLongEnough`. Together they state every property of a passing run that does not need fairness.

* `TaskManagerProofs!TypeCorrect`, `PauseIsQuiet`, `NoGap`, `Refinement`. `TypeOK` is not
  inductive by itself: `lastBlockAdded` and the queued heights stay in range because of what the
  watcher's place says about `wb` and `wi` (`HeadersInv`: announced heights are at least
  `FirstBest`, so that the lag never takes them below 0), and the tasks because of
  `FeedInv`, which says for every place of feeder and popper which of `held`, `popped` and
  `paused` may be set. `IInv` is their conjunction; `PausedHoldsNothing` is a
  consequence of `FeedInv`. `NoGap` adds `GapInv`, the watcher's loop invariant (everything
  from `from` to `wi - 1` is covered while it loops, and a rewind only moves back); and it assumes
  that no reset is requested (with one the property is about `ResetBackfillsChain`, which fails).
  `Refinement` proves `ImplementsQueue` from one mapping lemma per action, each a step of the
  queue or a stutter.
* `TaskManagerProofs!ExitLosesNothing`: what `ExitDelayedLosesNothing` says, for every number of commands. From the pause
  of `ExitDelayed` to the close of redis the feeder stands still, and behind it there is nothing to pop any
  more (`ExitInv`); redis is only closed behind `m.closed` (`ClosingInv`). The hypothesis `ByOne`: nobody toggles the
  pause, or there is only one handler. Without it the property is false: another handler can resume within the two seconds.
* `BestBlockProofs!TypeCorrect`, `NoGaps`, `SwitchesArePublished`, the safety properties of the tracker. `NoSkippedHeight`
  needs to know of a loop under way up to which height each subscriber has been told (`ToldInv`), and that nobody
  subscribes before the first best block (`RunInv`); `ReorgRepublished` needs that the header of a switched block
  is in the websocket's channel or the loop it started has yet to come to its height (`OwedInv`), which
  ends with the connection.
* `IndexerProofs!TypeCorrect`, `HolesAreKnown`, `DeletesOnlyToReplace`. The invariant says
  that what the watcher has seen lies between the first tip and the tip (`RangeInv`, so that the
  lag never takes a queued height below 0), what the consumer knows at each stage
  (`ConsumerInv`: `raw` is set, differs from the row when that is about to be deleted, and the
  row is gone when the block is about to be stored), what a lifecycle knows of the heights it
  has looked at (`CheckerInv`), and `NoForgottenHole` itself. The lemma `Carry` is the centre: a step
  never takes a height out of `Accounted` (it only moves from queue to consumer to table, or to
  `lost`), so a checkpoint, once justified, stays so; `SaveCheckpoint` is the only step that
  raises it, and there `CheckerInv` says that every height from `cp` to `hi` that was not found
  missing was accounted for.
* `StorablesProofs!TypeCorrect`, `RowsAreOfTheirBlock`, `OneEntryEach`, `StakeIsInTheContract`. Every block the node
  mines has typed contracts and logs (`OutcomeTypes`, `BlocksTypes`). `RowsMatchBlock` is inductive once it is known that
  the receipts in `raw` are those of its block from the validation on (`RawInv`), that when a block is about to be stored its
  height is free (`FreeInv`), and that each row carries its height. `ListMatchesCount` rests on `TokensInv`: a kept transfer's token
  has one row. The fold over a block's transfers keeps it (`CheckedFinds`), for every choice of calls that fail.
  `StakedIsHeld` compares two tables that different storables fill. Every log sequence is `Paired`: a transfer of kek to the
  staking contract stands right before the deposit it belongs to, one from it before the withdrawal, with the same user and amount. So the
  rows of the two tables are matched one to one by block and index (`DepositsMatch`, `WithdrawalsMatch`), at
  every moment because `RowsMatchBlock` holds at every moment, and matched rows add up to the same (`MatchedTotals`).
* `StorablesProofs!ReceiversAreTold`, `TreasuryIsRight`, `ChartIsRight`: `DelegateesTold`, `TreasuryBalances` and `ChartMatchesFarm`,
  which compare what SQL makes of the rows with the contracts themselves, the one thing the code never sees. The contracts
  are what the branch leaves behind, so the argument goes block by block. `Leads` is what a block's logs say of the contracts before
  and after it: what the treasury got of a token and what the farm holds of it changed by the amounts of the logs, and whoever has
  delegated power now and had none before is the receiver of an increase from nothing. It holds of every call
  (`OutcomeLeads`), so of every block of the branch (`ChainFollows`, part of the second inductive invariant `HInv`). The part about powers
  needs that a power is the sum of the balances delegated to its holder (`Sound`). `HInv` says besides that
  blocks of one hash are one block (`Identified`), so that with the branch in the database the stored blocks are the node's (`SyncedBlocks`),
  and which transfers were kept (`KeptInv`). Rows change block by block as logs do (`PaidRows`, `FarmedRows`), so the totals up to a height are the
  contracts' (`TotalsOfBlocks`), and the chart's buckets add up to the rows they are cut from (`BucketsAddUp`).
* `StorablesProofs!PowerIsRight`: `PowerMatchesContract`. The other half of `ChainFollows` is `Tracks`: of each user, the last log
  of a kind in a block (a stake, a lock, a delegation, a change of delegated power) carries what the contract has of them after the block, and
  with no such log that is what it had before; and the totals of stakes and powers change by the amounts. It holds of every
  call (`OutcomeTracks`), the ones with two logs on two users' powers included (`RedelegatedTracks`), and of calls one after the
  other (`TracksTogether`). Along the branch the newest row by height and index then has the value after the last block
  (`LatestAnswers`), whatever the order in which blocks were stored, so `BalanceIs`, `UntilIs`, `PowerIs` and `DelegatingIs` say that each
  SQL function answers what the contract has. The voting power follows by arithmetic (`VotingPowerIs`), its sum because whoever is not in
  the view has neither stake nor power (`ViewOfUsers`), the list of voters because no power is negative (`StateTypes`, from `Sound`), and the
  quorum's base because the totals are right after every block of the branch, not only the last (`SupernovaTotalsMatch`).
* `ConsumerProofs!ConsumerTypes`, `StopCostsTwo`, `BatchesQueueRange`. The invariant adds to the types
  that there is a task exactly while a running consumer is not waiting for one (so what is put back or ends
  with the process is a block, and at most two of them: `HasTask`, `DroppedFinite`), that a command is over
  only behind its last batch or on an empty one (`EndsLate`), and that what the
  batches so far have queued is somewhere (`Added`). The lemma `DivMod` gives the arithmetic the
  last batch needs: `n` div `b` plus one batches reach beyond `n`, also when the last one is empty and panics.

* `Sums`: a sum over a set (`MapThenSumSet`) is a recursive function, so even that it is a natural number
  has to be shown. The lemmas do it without induction: where a statement about finite sets fails, it fails for a smallest
  set (`SmallestSubset`, from the well-foundedness of the strict subset ordering), and the equation of the
  recursion carries it there from a smaller one. `FoldsAgree` and `FoldsExist` show that there is one function with the
  equation of a fold, `SumsAre` that any with the equation of a sum is the sum; `SumsAreNat`, `SumUnion` and `SumImage` are
  what the other modules use: sums of naturals, over disjoint sets and over matched ones.
* `GovernanceProofs!TypeCorrect`, `NoRowOutlivesItsBlock`, `NothingAnnouncedTwice`, `SqlIsTheContract`. The invariant has four
  parts. `TypeInv` types rows, jobs and what the worker has read. `RowsInv`, unless `raced`: every job and notification belongs
  to a block as it is stored, a block has at most one job, of a later stage than all its notifications (`Stage`
  orders the types), and what the worker's open transaction has written goes back to jobs that are still there. `ChainInv`: each
  log is a call the contract accepts on top of the earlier ones, from which `LatestIsOwn` and `OnceLogged` follow.
  `StoredInv`: a block stored in its present form has its present log. With them `SqlAgrees` goes through
  the branches of `proposal_state` and shows that each agrees with the contract's, the sums of votes included.
* `FinalityProofs!AnnouncedIsFinal`, `NothingStaleIsShown`: what is announced with the safety delay is never taken back, and
  what the page of notifications shows at a moment is true then. The invariant `FInv` dates things: until when a block can
  still change or be stored (`TimeInv`), until when a row of a replaced block can be wrong (`StaleInv`), and what every
  job (`JobInv`) and every notification (`NotifInv`) stands for. The hypothesis `DelaysSuffice` is what the code's
  comment claims of its delays, "to make sure we are free of reorgs": the age up to which blocks are replaced and the time
  until they are stored are together not above the 180 seconds of `Safety`, nor above warm-up and vote
  together. The constants of `Governance_lifecycle` satisfy it; with a `ReorgAge` above it `FinalIsFinal` fails.
* `FinalityProofs!PageTellsTheState`: `HistoryAgrees` for every vote, duration and order of blocks. `buildHistory` orders its
  entries by their start, so the proof computes of each state which entry is the latest (`HistoryShows`), when it ends
  (`ShownEndOf`) and what SQL's `timeLeft` is then. The hypothesis `DistinctPhases`: the vote and the grace period are not empty and the queue lasts
  longer than a second. The entries of vote and queue begin one second after the phase before them ends and the one of the grace
  period does not, so that shorter phases would change places.

* `FinalityProofs!EachPhaseIsAnnounced`: `PhasesAnnounced`, the one safety property that says a notification is there and not only that
  it is right. It stands at the end of a chain of jobs each of which is left behind by the one before, so the invariant `PInv` follows the
  chains. `ChainsInv`: from each block stored in its present form, and from each notification it led to, the next job is there, or has told
  what it is for, or was refused, that is, found another state than the one it announces (`Reached`, `Chained`). `PromptInv`: a job that announces
  something while a phase lasts runs before that phase is over, so that only a wrong state refuses it. `AttachedInv`: what a
  replaced block left behind goes with it (`delete_block`), so that nothing of an old form passes for the new one. A refused job
  then means that the database showed at that moment another state than the blocks that are there now (`NotRefused`), which is `Misled`. The
  hypotheses: `DelaysSuffice`, and `PhasesLongEnough`: a block is replaced and stored within the warm-up, the vote and the grace
  period are not empty and "ending soon" comes before the end (the code's 300 seconds). The constants of `Governance_lifecycle` satisfy them.
  That the worker is not late and not misled are conditions of the property itself: with them false, phases do go unannounced.

Only model-checked:

* everything under fairness (`PauseTakesEffect`, `Drains`, `ImplementsFairQueue`, `Converges`, `CloseReturns`, `CatchesUp`,
  `Settles`, `OneBadBlockStarvesNobody`, `StopReturns`), which is outside the prover's reach, as is `ENABLED`.

## 5. Not modelled, and the plan

Left out for good, with the reason in `components` of PROJECT.json:

* pages that show rows as they are (events, votes, abrogations, farming actions), their wording, labels, and the
  order of equal rows when a list is cut into pages (`handle_gov_votes.go:37` orders by power alone);
* the dashboard's pages and its settings form; metrics, Slack, logging;
* `Core.Reset`'s truncation, which fails on this schema (it names tables no migration creates);
* decoding of events and generated bindings; indexes and column types of the migrations; uncles, which
  the feature flag leaves off and nothing stores; the reward pools, which `state` declares and nothing loads;
* the commands that truncate the database or fill the table of labels in one go.

Held constant: the monitored accounts (a row added while blocks are processed takes effect with the next
block, and old blocks are not looked at again), and the amount staked when a proposal's quorum is
taken (`Staked` in `Proposals`; `Storables` checks the function that computes it).

What the plan has left, most useful first:

1. Tracker and watcher composed: BestBlock's publish goroutines in place of TaskManager's `Announce`, so that
   `NoSkippedHeight` and `WatcherLeavesNoGap` become one property from the node to redis.
2. Two worker processes at once, which the code neither expects nor prevents.
3. Switches deeper than one block in `Storables`, if the state space allows.

## 6. Running

In this directory:

    tlc -config TaskManager_pause.cfg MCTaskManager
    tlc -config TaskManager_watcher.cfg MCTaskManager
    tlc -config TaskManager_reset_race.cfg MCTaskManager
    tlc -config Indexer_reorg.cfg Indexer
    tlc -config Indexer_faults.cfg Indexer
    tlc -config Indexer_delete_block.cfg Indexer
    tlc -config BestBlock_tracker.cfg BestBlock
    tlc -config Consumer_commands.cfg Consumer
    tlc -config Governance_lifecycle.cfg MCGovernance
    tlc -config Governance_worker.cfg MCGovernance
    tlc -config Governance_canceled_shown.cfg MCGovernance
    tlc -config Storables_storables.cfg MCStorables
    tlapm TaskManagerProofs.tla
    tlapm IndexerProofs.tla
    tlapm BestBlockProofs.tla
    tlapm ConsumerProofs.tla
    tlapm Sums.tla
    tlapm GovernanceProofs.tla
    tlapm FinalityProofs.tla
    tlapm StorablesProofs.tla

Each run ends within three minutes on four cores. The two configurations beside the runs are
`tlc -config TaskManager_stale_resume.cfg MCTaskManager` and `tlc -config BestBlock_close.cfg BestBlock`.
