# A specification of the ChainBridge relayer

ChainBridge moves tokens and messages between chains.  A *relayer* process
(`src/chain-bridge`) watches the bridge contract or pallet of every chain it is
configured for, and for each deposit it finds it votes on a proposal on the
destination chain.  When enough relayers have voted the proposal passes, and on
Ethereum a relayer then has to execute it.

These modules specify in TLA+ the listeners and writers of the relayer, the
process that holds them together, the bridge that several such processes make up
from end to end, and the clients that deploy and drive its contracts and its
pallet.  TLC checks them on small instances, and TLAPS proves the safety
properties of all of them for all instances.  What follows is the inventory of
the system, what is modelled, what the checks and the proofs show, and what is
left.

## 1. Inventory

| Component | State it keeps | Operations | Modules |
|---|---|---|---|
| Ethereum listener (`chains/ethereum/listener.go`, `events.go`, `chain.go`) | current block, retries, blockstore file, latest block for the health server | poll, filter logs, read the deposit record, route, store, stop | `EthListener`, `Listener` |
| Ethereum writer (`chains/ethereum/writer.go`, `writer_methods.go`) | only what its goroutines keep on their stacks | resolve a message: look, watch, vote; watch for the Passed event, execute | `EthWriter` |
| Ethereum connection (`connections/ethereum/`) | shared transaction options, `optsLock` | gas price (gas station, node, multiplier, cap), pending nonce, lock and unlock, wait for a block | `EthConnection`, `TxLane`; `WaitForBlock` is in `EthWriter` |
| Substrate listener (`chains/substrate/listener.go`, `events.go`, `chain.go`) | current block, retries, blockstore file, metadata in the connection | poll the finalized head, decode events, route, refresh metadata, store | `SubListener`, `Listener` |
| Substrate writer and connection (`chains/substrate/writer.go`, `connection.go`) | `c.nonce`, `nonceLock` | resolve a message: construct, validate, sign, submit, watch | `SubWriter`, `TxLane` |
| Relayer core (`cmd/chainbridge/main.go`) | `sysErr`, the registry of chains | initialise and start the chains, stop them on an error or a signal | `RelayerCore` |
| Bridge end to end: several relayers, a forking source chain and the destination contract | proposals with their votes, in the contract | route, vote, execute, crash, restart | `Delivery`, `Bridge` |
| Ethereum helpers (`shared/ethereum/`) | `Opts` of the client with its nonce, `nonceLock` | deploy, register, mint, approve, fund, grant roles; lock and update the nonce, wait for a receipt | `EthClient`, `TxLane` |
| Substrate helpers (`shared/substrate/`) | none in the client; the nonce is the account's | submit one extrinsic, submit a batch, set up the pallet | `SubClient` |
| Deposits of the end-to-end tests and of the deployment test (`e2e/`, `deploy-test/`) | those of the helpers they use | ERC20, ERC721 and generic deposits, batches of transfers | `EthClient`, `SubClient` |
| Configuration (`config/`, `chains/*/config.go`) | none | load, validate, parse options | none yet |
| Metrics and health | latest block of each listener | report | none |
| Accounts command (`cmd/chainbridge/account.go`) | the key files | generate, import, list | none |
| Bindings | none: generated | - | none |
| Configuration builder, command line client (`src/chainbridge-deploy`) | none that outlives a command | generate configurations, send one transaction | none |

**How they interact.**  A listener runs in one goroutine per chain.  It hands
each message to the router (a library outside `src/`), which starts a goroutine
in the writer of the destination chain; an unknown destination is an error the
listener logs.  On Ethereum, that goroutine starts a second one, the watcher,
before it votes.  All goroutines of a chain share its connection: on Ethereum
the transaction options under `optsLock`, on Substrate the nonce under
`nonceLock`.  A goroutine that cannot go on sends on `sysErr`; the core reads
one error and stops every chain by closing its `stop` channel.  Only the
blockstore file survives a restart.  Several relayers, which do not talk to each
other, meet in the bridge contract or pallet.

**What is hard.**  Every RPC may fail, and what it answers may be out of date
when it is used; chains reorganise; transactions are lost between submission and
inclusion; a process may die between any two steps and then handles some
deposits a second time and others never; the votes and executions of the other
relayers interleave with every step.  `PROJECT.json` lists each of these hazards
at its line, with the properties that cover it, or with a note where the code does
go wrong and the model only describes it (see "What the properties except").

**What makes each component correct.**

* Listeners: only deposits that can no longer disappear are routed; no block is
  skipped, by errors or by a restart; every deposit is handled in the end.
* Ethereum writer: an execution is submitted only for a proposal that has
  passed, or for one of whose deposit other data have passed, which a watcher
  cannot tell apart; no watcher misses the event it waits for, however votes and
  events interleave; a passed proposal is executed.
* Ethereum connection: nobody submits with the price or nonce of another, no
  transaction replaces another, the price stays within the maximum, and no error
  path keeps the lock.
* Substrate writer: no nonce is used twice and none is left out; an acknowledged
  vote is on the chain; a delivered message gets the relayer's vote.
* Substrate connection: metadata keep up with runtime upgrades.
* Bridge: a deposit is executed at most once and with the data that became final,
  whatever the relayers have seen on other forks; it is executed, while enough
  relayers keep working on it.
* Helpers: transactions of one account follow each other in order; a call returns.
* Relayer core: no message of a configured chain is refused or forgotten,
  whatever order the chains start, fail and stop in; an error that is reported
  ends the process; a restart resolves what the blockstores have not passed.

## 2. The modules

In all of them but `RelayerCore` and `Delivery` one step is at most one RPC,
one acquisition of a lock or one write that another goroutine can see.  The
constant `Faults` says what may go wrong in an instance; a fault is always
possible and never required.  Sleeping, logging and metrics that nothing reads
are left out.

**EthListener.**  `pc` is the position in `pollBlocks` and
`getDepositEventsForBlock`: `poll` (top of the loop), `query` (`FilterLogs`),
`logs` (the loop over the events, `idx`), `store` (the blockstore and the next
block).  `Fail` is every `retry--; continue`.  `HandleGenericError` and
`SkipUnknown` are the two paths on which the code drops deposits, which the
history variable `lost` records.  `Restart` chooses the first block the way
`setupBlockstore` and the `--fresh` and `--latest` flags do.  The source chain
is external: `ProduceBlock`, and `Reorg`, which replaces at most `ReorgDepth`
blocks.

**EthWriter.** A proposal is a deposit (its source chain and nonce) with its data,
as the contract tells proposals apart by the hash of the data.  `Read` says which
data each relayer has read: the same, or others on another fork of the source
chain.  A goroutine is a record (role, relayer, proposal, delivery); the role
`watch` is the goroutine that `go w.watchThenExecute(...)` starts.
`CheckComplete`, `CheckVoted` and `CheckPassed` are the steps of `shouldVote` and
of the branch in `create*Proposal` behind it; `CaptureLatest` reads the latest
block and starts the watcher; `Vote`, `VoteFailed`, `Execute` and `ExecuteFailed`
are the retry loops; `WaitForBlock` and `QueryEvents` the watcher's.  A failed
`proposalIsComplete` or `hasVoted` answers false, as in the code.  The watcher
compares the source, the nonce and the status of an event and not its data
(`writer_methods.go:228`): `EventOf` looks at all proposals of `SameDeposit`, so
the event of other data ends a watch.  The execution that follows is refused by
the contract, and `Misled` says when this has happened. The contract is external
and counts votes, passes, executes what has passed, cancels on expiry and emits
events; how many votes it needs, `threshold`, is fixed in each behaviour.
`MineBlock` takes any subset of the pool.  `gaveUp` records the goroutines that
left a proposal unexecuted, and each action that adds to it is a path of the code
that does so.

**EthConnection** has the same two retry loops again, seen from the connection:
`Lock`, `EstimateGas`, `UpdateNonce`, `Submit`, `Unlock`.  The shared options
carry, beside price and nonce, who wrote them.  `UpdateFailed` is the error path
of `LockAndUpdateOpts`, after which a vote is tried again and an execution is
not.  (Where `EthConnection` and `RelayerCore` would share a name, the former's
begins with `Conn`: their proofs are in one module.)

**TxLane** is the abstract specification of whoever writes to a chain with the
relayer's account: a lane of nonces that is filled from the front and in which
nothing is replaced.  `EthConnection`, `EthClient` and `SubWriter` implement it
and say what may disturb it, so that a gap is left: an eviction (`evicted`), a
nonce written while another signs with it (`raced`), a submission that failed or
an extrinsic the pool has lost (`mishaps`).  `SubClient` does not implement it:
two of its callers may read the same nonce, and the extrinsic with the higher
priority takes the other's place (`Usurp`).

**SubListener** has the positions `poll`, `events` (decode), `handle` (one step
per message, fungible, then non-fungible, then generic ones) and `store`.
`RefreshMetadata` is `updateMetatdata`, which a block with a `CodeUpdated` event
calls.  Decoding with the metadata of another runtime may work or not.  The node
is external: a best chain with a finalized prefix, forks and upgrades.

**Listener** is the abstract specification of both listeners: the deposits of the
final blocks (`ledger`), the block at hand (`next`), the block in the blockstore
(`noted`).  The block at hand is left (`Pass`) when each of its deposits is routed
or dropped, and a restart goes on from the configured block or from one that was
finished.  What is dropped, and why, is the concrete module's to say: `lost`.

**SubWriter** follows `ResolveMessage`: `Build`, `ProposalValid`,
`ConstructCall` (with the runtime version), then under `nonceLock` `Lock`,
`UpdateNonce`, `Sign` and `Submit`, then `WatchInBlock` and its errors.  `Fail`
is every `continue`; after the last attempt the code returns true, and nobody is
told (`gaveUp`).  The pallet, the votes of other relayers, the pool (`place`)
and the forks are external.  `included` is the status the node has sent: it
stays when a fork takes the extrinsic back.

**RelayerCore** is the whole process, with coarser listeners and writers: `core`
is the position in `run` and in the core's `Start` (`init`, `start`, `wait`,
`stop`, `exited`), `at` the chain its loops have come to.  A listener reads a
block at once and routes its messages one by one; a message is resolved in one
step, by a vote (`Vote`), a failure (`Abandon`) or an error on `sysErr`
(`Report`).  A send on `sysErr` is one step with its receive (`HearListener`,
`HearWriter`), since the channel is unbuffered: who reports to a core that does
not wait stays in `report`.  `Exit` is the end of the process at any point and
keeps only the blockstores.  `mode` stands for the flags a run is started with:
`InitializeChain` goes on from the higher of the stored and the configured block
(`Resume`; the configured one is the first), with `--fresh` from the configured
block, and with `--latest` from the newest one, which may be any (`FirstBlocks`);
each restart may change the flags.  The history variable `lost` holds the messages
nobody is going to vote on, those of the blocks that `--latest` leaves out among
them; `Restart` takes out of it what is read again when the next run goes on from
the blockstore.  All handlers are known here: the deposits that listeners drop are
the subject of `EthListener`.

**Delivery** is the bridge from end to end.  Each relayer has a listener (`Route`,
`StoreBlock`) and, for every message, a goroutine of the writer and its watcher
(`Watch`, `Vote`, `Skip`, `Execute`, `Finish`, `Abandon`); `Crash` and `Restart`
keep only the blockstore.  The contract keeps votes for each nonce and data apart,
as it does by the hash of the data.  The deposits of two forks may have the same
nonce and different data: this is the state in which a bridge could pay twice, and
no module of a single relayer sees it.  A relayer is coarser here than in its own
modules: a block has one deposit, is read and routed in one step, and a
transaction is in the contract at once; a failed execution is an `Abandon` or not
a step.  A watcher waits here for its own proposal, where the code, and
`EthWriter`, matches an event by source and nonce.  The two are the same as long
as `ConfirmationsCoverReorgs` holds: then every message is of a final deposit, and
final deposits with one nonce are one deposit (`DeliveryProofs`), so that there
are no other data to match.  **Bridge** is the abstract specification: a deposit
becomes final, for good, and is executed once, with that data.

**EthClient** is the client of `shared/ethereum`.  A helper is the sequence of its
transactions, by kind: under the lock until the receipt (`Locked`), with a query
before the submission (`WithRole`), with the lock released after the submission
(`Brief`, the deployment test), without the lock and counting the nonce up
(`CountedUp`, `FundErc20Handler`), without the lock and reading the nonce anew
(`Refreshed`, the deposits of the end-to-end tests).  `Lock`, `Update` and
`UpdateError` are `LockNonceAndUpdate`; `Receipt`, `NotFound`, `ReceiptError` and
`WaitedLongEnough` are the paths through `WaitForTx`, the last of which reports
success.  A helper that fails does not unlock.  The account is external.

**SubClient** is the client of `shared/substrate`.  `QueryAccount` reads the nonce of
the best block; `Submit`, `Refused`, `Usurp` and `SubmitError` are the outcomes of
`SubmitAndWatchExtrinsic`; `Status` is the loop of `SubmitTx`, `Watcher` one of the
goroutines of `BatchSubmit`, `Wait` its `wg.Wait()`.  `told` is the first status
that the node has sent to a subscription and that one of the loops could act on.
The account, its pool and a fork are external.

The modules `MC...` give TLC the values that a configuration cannot write.

## 3. What is checked

| Run | States | What it shows |
|---|---|---|
| `eth_listener` | 363,645 | `NoPhantomMessage`, `NoDepositSkipped`, `ResumeSkipsNothing` and `DepositEventuallyHandled` with every fault, a reorganisation, restarts with and without `--fresh` |
| `eth_writer_faults` | 699,750 | `ExecuteOnlyPassed`, `VotersWillExecute` and `NoEventMissed` for two relayers that have read other data for one deposit and fail in every way |
| `eth_writer_live` | 110,863 | `DeliveredIsDecided` and `PassedIsExecuted` for two relayers with the same data, one or both of which have to vote, without failures |
| `eth_connection` | 120,332 | `SubmitsOwnOpts`, `EveryCallReturns`, and that the connection implements `TxLane`, with every fault |
| `sub_listener` | 63,518 | `RoutedIsFinalized`, `NoDepositSkipped`, `ResumeSkipsNothing`, `MetadataNotOutdated`, `DepositEventuallyHandled` with forks, an upgrade, faults and restarts |
| `sub_writer` | 170,604 | `NonceIsFree`, `NoGapWithoutMishap`, `AcknowledgedIsVoted`, `DeliveredIsVoted` for two messages at once, a fork, every fault |
| `relayer_core` | 527,192 | `RefusedIsUnconfigured`, `PassedIsAccounted`, `RestartResolves`, `FatalEndsProcess` for two chains with failing starts, queries, votes and blockstores, fatal errors, signals, crashes and restarts, from the blockstores and with `--latest` |
| `delivery` | 26,416 | `ImplementsBridge` and `FinalIsDelivered` for two relayers, either of which decides alone, two deposits that compete for a nonce, a reorganisation, a crash and every fault |
| `eth_client` | 377,150 | `InOrderUnlessRaced` and `EveryHelperReturns` for two goroutines with any two helpers and every fault |
| `sub_client` | 424,795 | `InOrderIfUndisturbed` and `EverySubmitReturns` for two callers, each with a batch of three or two single extrinsics, a fork and every fault |

Each run also checks its module's `TypeOK` (`ConnTypeOK` for `EthConnection`),
except `eth_writer_live`.  That the listeners implement `Listener`, and
`SubWriter` and `EthClient` implement `TxLane`, TLC has found on the instances of
their runs as well (`ImplementsListener`, `ImplementsLane`), and that the
blockstores of `RelayerCore` do not go back in a run without flags
(`ProgressKept`, also with `--fresh` among the modes: 869,339 states); since all
of these are proved, the runs do not repeat them.
`PROJECT.json` names for each property a mutation of the code that violates it:
an off-by-one in the confirmations, a blockstore that stores the head, a lock
that is not taken, a block captured after the vote, and so on.

### Bounds

* `MaxBlock` is 4 for the Ethereum listener with confirmations and reorganisation
  depth 1: room for a block that is final, one that is not, and one restarted
  from.  The Substrate listener has 3 blocks: one finalized, one not, one not
  produced.  A larger chain repeats these positions, as the loop handles one
  block at a time.
* Retry limits are 2: a first failure that is repaired and a second that is
  final.  The code's limits (5 to 15) only add failures of the first kind.  In
  `EthWriter` the limit of `WaitForBlock` is 1: the watcher repeats a wait without
  having changed anything, so only the last failure matters.
* `EthWriter` has two relayers and one deposit.  In `eth_writer_faults` each has
  read other data (`OtherForks`) and the contract needs one vote, so that each
  proposal may pass, before or after the other, and each event may meet both
  watchers.  In `eth_writer_live` they have read the same (`SameFork`), and
  `threshold` is 1, when the slower relayer finds a proposal already passed, or 2,
  when the votes have to meet; a third relayer would be a spare one.  Proposals
  of other deposits share nothing but the account (which `EthConnection`
  covers), since their events differ in the nonce.  The proofs are for any number
  of relayers, deposits and data, and for repeated deliveries, which the runs
  leave out.
* The last block of `EthWriter` stands for all later ones, so `head` stays in its
  range without an end of the chain; `PassedIsExecuted` excepts proposals that
  pass there.
* Two callers, a voter and an executor, on one connection, and two messages on
  one account: the lock and the nonce only see who is inside and who waits.
* `Others` bounds the votes of other relayers at one below the threshold, so that
  the relayer's own vote may decide; `MaxForks` is 1.
* `RelayerCore` has two chains, two blocks each, and two messages of one block, one
  of them for a chain that is not configured: one block below the stored one is
  enough to lose a message, and two messages to read a block again in between.
  `MaxRunning` bounds only how often a block is read again while its first
  reading is still being resolved.  `StartModes` has the run without flags and the
  one with `--latest`; with two blocks, `--fresh` is `--latest` when the newest
  block is the first.
* `Delivery` has two blocks and depth 1: a final deposit and one that a fork
  replaces.  Threshold 1 lets each relayer pass a proposal alone, the worst case
  for `ImplementsBridge`; threshold 2 (23,998 states) and a second crash (61,310
  states) were checked as well.
* `EthClient` has every helper but `DeployContracts`, whose fourth transaction is
  like the third of `DeployMintApproveErc20`, and one look for a receipt instead of
  ten: that it is there, or not yet, or never.
* `SubClient` has one batch of three (the second is the first that waits for an
  earlier one, the third the first that has one before and one behind it) and
  one fork.  `MaxCalls` is the size of the largest batch; the proofs are for any.
* `MaxNonce` lies above every number of submissions, so it never disables one.

`CHECK_DEADLOCK` is off where the system may stop: all goroutines done.

### Fairness

Liveness is stated under weak fairness of the steps that work: the Go scheduler
runs every goroutine, an RPC answers in the end, and the chain goes on.  No
fairness is given to a failure.  In `EthListener` and `SubListener` it is
`WF_vars(Proceed)`, the disjunction of the steps without the errors; in `EthWriter`
each goroutine's step and the mining of the whole pool; in `EthConnection` each
caller's step, errors included, since there either answer ends the call (weak
fairness of the lock is what Go's mutex, which does not starve waiters, gives);
in `SubWriter` each goroutine's `Proceed` and `Include`.  Liveness that depends
on retries not running out says so in its conclusion (`fatal`, `gaveUp`,
`mishaps`).  In `RelayerCore`, main,
each listener and each message are fair (`Main`, `Listen`, `Resolve`): they are
goroutines that the scheduler runs.  There, and in `Delivery`, the operator is
assumed to start a relayer again that has ended; otherwise nothing could be said
about what a restart resolves.  In `Delivery` each listener, restart and goroutine
of a writer is fair, and the chains owe nothing: a deposit that is deep enough
stays so.  In `EthClient` each caller is fair and the chain need not mine, since
`WaitForTx` gives up.  In `SubClient` each caller and each watcher is fair, and so
is the inclusion of the account's next extrinsic, since nothing there gives up.

### What the properties except

Several properties name what they do not cover, in a history variable or a
condition.  Such a property shows that there is no other way to fail; it does
not catch the one it names, which is a behaviour of the code.

* `lost` of the listeners: the deposits that `SkipUnknown` and
  `HandleGenericError` drop.  `fatal`: a listener that has used up its retries.
* `gaveUp` of the writers: a watch that has ended at a failed query or at its last
  block, an execution that failed before its submission, an evicted execution, a
  process that ended (whose relayer has voted and will not watch again), a Substrate
  message after its last attempt.  `PassedIsExecuted` names the last block of the
  watch itself.
* `Misled`: a watch that the event of other data for the deposit has ended.
* `mishaps`: a Substrate nonce that a failed submission or a lost extrinsic
  has used up; `sub_writer_retry` shows what follows.
* `raced` of `EthClient`: a nonce that was written without the lock while
  another goroutine signed with it; `Leaked`: a lock kept by a helper that failed.
* `lost` of `RelayerCore`: messages that were abandoned or in flight at an exit,
  and those of the blocks that `--latest` leaves out.  `lost` of `SubClient`: an
  extrinsic that was dropped or replaced and whose watcher waits for ever.

### Where the code and its comments disagree

Two runs look for a violation and find it.

1. `eth_listener_generic`: a generic deposit whose record cannot be read is
   dropped.  `handleGenericDepositedEvent` returns an empty message and a nil
   error (`events.go:56`), where the other two handlers return the error and the
   block is read again.
2. `sub_writer_retry`: after a refused submission the nonce has been counted up
   all the same (`connection.go:136`), and the retry, like every later message,
   waits behind a nonce nobody will use; `watchSubmission` has no time limit.

Three more disagreements are behaviours of the models without a run of their own.

* A deposit for a handler the relayer does not know ends the loop over its block
  (`listener.go:190`), so deposits for known handlers behind it are dropped,
  without any failure (`SkipUnknown` of `EthListener`), although the comment at
  line 170 speaks of handling each event "if handler is recognized".
* One failed `FilterLogs` ends the watch (`writer_methods.go:216`; `QueryEvents` of
  `EthWriter`); the comment at line 192 speaks of retries up to the limit.
* The blockstore moves on when a block's messages are routed (`listener.go:139`),
  not when they are resolved.  A relayer that is stopped once, by a signal, while
  a message of an earlier block is being resolved does not pick it up again
  (`Exit` and `Restart` of `RelayerCore`), although `src/chain-bridge/README.md:105`
  says that it "can pick up where it left off".  `FinalIsDelivered` says what
  remains: the other relayers have to be enough.

Other comments read differently from the code:

* `listener.go:93` of Ethereum says a block that failed too often is followed by
  the next block; the loop sends `ErrFatalPolling` and ends instead (`PollFatal`).
* `egs.go:103` says that a gas price is at least ten gwei; the line below makes it
  at least one unit of the gas station, a tenth of a gwei (`EgsPrice`).
* The metric of the latest processed block is set to the head and not to the
  block that was processed (`listener.go:146`).
* `chain.go:19` says that the writer skips proposals it has already seen; it
  executes one that it finds passed (`CheckPassed`).
* `shared/ethereum/client.go:83` says that `WaitForTx` waits "until a receipt is
  returned"; after ten looks it returns no error (`WaitedLongEnough`).
* The README of the relayer writes gas limits and prices in hexadecimal and calls
  the handlers required; the parser reads base 10 and accepts a missing handler.
* `account.go:263` says that an imported key is saved under its public key; the
  file's name lacks the first two characters of the address, so that the relayer,
  which looks for the whole address, does not find it.

## 4. What is proved

The proof modules hold for all values of the constants that satisfy the named
assumptions: any number of relayers, proposals, deliveries, goroutines, retries
and blocks.

| Module | Theorems | Invariant used |
|---|---|---|
| `EthListenerProofs` | `TypeCorrect`, `RoutedIsFinal`, `NothingSkipped`, `ResumeIsSafe`, `ListenerImplemented` | a block is read only when it is deep enough, and blocks that deep do not change; the events before `idx` are handled; the stored block is below the current one |
| `EthWriterProofs` | `TypeCorrect`, `ExecutionsAreJustified`, `VotersFollowThrough`, `WatchersMissNothing`, `OneDataExecutesOwn` | status, votes and events agree; a vote in the pool or counted has a watcher that began at a block before it; a watcher stands between its first block and the first event of its deposit; data nobody has read get no vote |
| `SubListenerProofs` | `TypeCorrect`, `OnlyFinalized`, `NothingSkipped`, `ResumeIsSafe`, `MetadataKeepsUp`, `ListenerImplemented` | the block being read is finalized, finalized blocks do not change, and code versions grow along the chain |
| `SubWriterProofs` | `TypeCorrect`, `NonceFree`, `NoGap`, `Acknowledged`, `LaneImplemented` | the holder of the lock and the count `connNonce` bound all nonces in use; each counted extrinsic is the relayer's one vote on its proposal |
| `DeliveryProofs` | `TypeCorrect`, `DeliveryImplementsBridge`, `ExecutedForGood` | every message a relayer works on, every vote, every cancellation and every execution is of a deposit that is final; final deposits with one nonce are one deposit, and stay |
| `EthClientProofs` | `TypeCorrect`, `InOrder`, `LaneImplemented` | who stands between the update and the end of a locked transaction holds the lock; the nonces sent are those below the pending one; a caller's transactions in the pool are those before its step, in order |
| `SubClientProofs` | `TypeCorrect`, `InOrder` | a caller's extrinsics belong to submissions it has begun; the counter of the WaitGroup bounds the watchers that are not done; while nothing disturbs them, one caller at a time has a nonce in use, the nonces are used from the front, and what a watcher was told is in a block stays below the account's nonce |
| `RelayerProofs`, on `RelayerCore` | `TypeCorrect`, `NoConfiguredRefused`, `NothingDisappears`, `BlockstoreGrows` | listeners and router follow the phase of main; no blockstore is ahead of its listener in a run without flags; every message up to the one being routed is accounted for |
| `RelayerProofs`, on `EthConnection` | `ConnTypeCorrect`, `OptsAreOwned`, `LaneImplemented` | who stands between `gas` and `unlock` holds the lock, and the options and the nonce are its own |

Each proof has the same shape: an inductive invariant with named parts, one lemma
(or one step) per action, and a last step by temporal logic.  The invariants are
needed because the properties alone are not inductive.  `VotersWillExecute`, for
instance, says nothing of a proposal that has not passed, and whether the watcher
will see the event depends on the block it was started from before the vote was
cast: `StartInv`, `TrackInv` and `CountedInv` carry that block from the capture
through the pool to the contract.  `NonceIsFree` needs that no extrinsic has a
nonce at or above the count, which in turn needs that the count only grows when
the holder of the lock has submitted.

Assumptions: `ConstantsAssumption` in each module types the constants.
`ConfirmationsCoverReorgs` (`EthListener`, `Delivery`) says that the chain never
reorganises deeper than `blockConfirmations`; without it `RoutedIsFinal` and
`DeliveryImplementsBridge` are false.  `CountsUpLater` (`EthClient`) says that no
helper begins by counting the nonce up, which the helpers do not.
`NothingSkipped`, `ResumeIsSafe` and `ListenerImplemented` are for relayers that
are not started with `--latest`, which skips blocks on purpose.  `BlockstoreGrows` is
for the runs without `--fresh` and `--latest`, whatever the flags of the runs
before; `NothingDisappears` is for all flags, and counts what `--latest` leaves
out as lost.

`ExecutionsAreJustified` and `VotersFollowThrough` hold whatever data the relayers
have read, and so have to allow for the wrong match: an execution by a watcher
may be for other data than those that passed, and a voter may have been misled.
`OneDataExecutesOwn` assumes that all relayers read the same data for a deposit,
which `ConfirmationsCoverReorgs` gives (`DeliveryProofs`): then every execution is of a
proposal that has passed, and nobody is misled.

Refinements.  For `LaneImplemented`, every step of the connection, of the client or
of the Substrate writer places a transaction on an empty nonce at the front of the
lane, evicts one, disturbs the lane, or leaves it alone.  That the nonce is empty
and at the front is where the invariants come in: whoever submits still has the
nonce it was given.  In `SubWriter` an extrinsic that the pool has lost keeps its
place, since the count `connNonce` never goes back to its nonce.  For
`ListenerImplemented`, a block or a finality step is `Finalize`, an event of the
block at hand `Route` or `Drop`, the end of its loop `Pass`; what is read belongs
to a final block, and the end of the loop has all of it behind it, also when an
error made the loop begin again.  For `DeliveryImplementsBridge`, a new block or a
reorganisation finalizes at most one deposit, an execution delivers it, and
everything else stutters.  `ExecutedForGood` draws the conclusion: from `Bridge`
alone, what is executed is one final deposit with its own data, for good.

The invariant of `SubClient` has two parts that do not need each other.  `Counting`
keeps the WaitGroup from falling below zero, which would be a panic: each watcher
that may still be told the end of its extrinsic is one the counter counts.
`Orderly` serves `InOrder`: it is stated for the undisturbed case only, since the
client has no lock, and a second caller that reads the account's nonce before the
first one's extrinsic is counted will find the same.

Only model-checked: the liveness properties (`DepositEventuallyHandled`,
`DeliveredIsDecided`, `PassedIsExecuted`, `EveryCallReturns`,
`DeliveredIsVoted`, `RestartResolves`, `FatalEndsProcess`, `FinalIsDelivered`,
`EveryHelperReturns`, `EverySubmitReturns`), which are out of the prover's reach,
and the two violations, which need only their counterexample.

## 5. What is not modelled

* The bridge contracts, the bridge pallet, the router and the core are not in
  `src/`; the first two are modelled from how the relayer uses them, the router
  as the start of a goroutine, the core as its loops over the chains and its one
  receive.
* Encodings (`proposal_data.go`, `types.go`, the bindings): a proposal is its
  deposit and its data in `EthWriter` and `Delivery`, its identity elsewhere.  Two
  deposits never have the same one.
* Calls that never return: RPCs are made with a background context, and the lock
  of the connection would be held for ever.  Every call is assumed to return.
* The data race on `latestBlock`, whose reader is the health server outside
  `src/`.
* Configuration (`config/`, `chains/*/config.go`, `cfgBuilder/`): parsing of one
  file, in one goroutine, without state.  What it gets wrong is a matter of single
  inputs, which tests reach: a chain id above 255 is cut to eight bits
  (`main.go:179`), and the builder writes an empty `startBlock`
  (`cfgBuilder.go:52`) that the relayer does not accept.
* The accounts command: each command writes one file.  Its hazard is a command
  that ends between the creation of the file and its content, after which a
  second attempt is refused because the file exists (`account.go:186`, `236`,
  `377`).
* The command line client and the tests' assertions, which keep no state.
* The contract bindings.  They are generated by abigen from contracts that are
  not in `src/`, have no control of their own, and are about 21,000 of the
  27,000 lines of Go: the modules cover a small share of all lines and most of
  those that decide anything.

## 6. Plan

Done, in this order: Ethereum listener, Ethereum writer, connection with its
abstract lane, Substrate listener, Substrate writer, core, the bridge from end to
end with its abstract specification, the two clients.

What could follow:

1. `Keystore` and `RelayerConfig`: the key files under concurrent and interrupted
   commands, and the configuration as operators on absent, empty, decimal and
   malformed options, checked against what the README documents.
2. Refinements between the levels: `RelayerCore` with a history of what was routed
   implements `Listener` for each of its chains, and the relayers of `Delivery`.
3. Decoding of events and deposit records, and encoding of proposals, as
   operators on the fields and their widths.
