----------------------------- MODULE EthListener -----------------------------
(***************************************************************************)
(* The Ethereum listener of one relayer process: pollBlocks and            *)
(* getDepositEventsForBlock (chains/ethereum/listener.go), the deposit     *)
(* record reads (events.go), the choice of the first block when the        *)
(* process starts (chain.go) and the blockstore it resumes from.           *)
(*                                                                         *)
(* The source chain is external.  It produces blocks that carry deposits   *)
(* and may replace its newest blocks (at most ReorgDepth of them); every   *)
(* RPC the listener makes may fail, and the process may stop or crash      *)
(* between any two of its steps.                                           *)
(***************************************************************************)
EXTENDS Integers, Sequences, FiniteSets

CONSTANTS
  Deposits,        \* the deposits users may make
  KindOf,          \* KindOf[d]: the handler the resource of d is mapped to
  Unroutable,      \* deposits whose destination chain has no registered writer
  BlockContents,   \* the sequences of deposits a block may carry
  MaxBlock,        \* bound: the highest block of the source chain
  ReorgDepth,      \* the chain replaces at most this many of its newest blocks
  Confirmations,   \* cfg.blockConfirmations
  RetryLimit,      \* BlockRetryLimit
  StartBlock,      \* cfg.startBlock of the configuration file
  StartModes,      \* how the operator may restart: subset of Modes
  Faults           \* what may go wrong: subset of FaultKinds

Kinds == {"erc20", "erc721", "generic", "unknown"}
Modes == {"stored", "fresh", "latest"}
FaultKinds == {"rpc", "record", "store", "stop", "crash"}

\* The message an event handler returns together with a nil error when the
\* deposit record could not be read: msg.Message{}.
EmptyMsg == "empty"

ASSUME ConstantsAssumption ==
  /\ KindOf \in [Deposits -> Kinds]
  /\ Unroutable \subseteq Deposits
  /\ EmptyMsg \notin Deposits
  /\ BlockContents \subseteq Seq(Deposits)
  /\ MaxBlock \in Nat
  /\ ReorgDepth \in Nat
  /\ Confirmations \in Nat
  /\ RetryLimit \in Nat \ {0}
  /\ StartBlock \in Nat
  /\ StartModes \subseteq Modes
  /\ Faults \subseteq FaultKinds

\* What the operator relies on when choosing blockConfirmations.
ASSUME ConfirmationsCoverReorgs == ReorgDepth <= Confirmations

VARIABLES
  head,            \* number of the newest block
  chain,           \* chain[b]: the deposit events of block b, in log order
  pc,              \* where pollBlocks is
  currentBlock,    \* the block being processed
  latestBlock,     \* the head read by this iteration of the loop
  retry,           \* retries left
  logs,            \* what FilterLogs returned
  idx,             \* index into logs of the next event to handle
  stored,          \* the block in the blockstore file, 0 when there is none
  processed,       \* the LatestProcessedBlock metric
  routed,          \* history: the messages given to the router
  lost             \* history: deposits dropped on one of the paths below

chainVars == <<head, chain>>
history == <<routed, lost>>
vars == <<head, chain, pc, currentBlock, latestBlock, retry, logs, idx,
          stored, processed, routed, lost>>

Blocks == 0 .. MaxBlock
LogsIn(s) == {s[i] : i \in 1 .. Len(s)}
OnChain == UNION {LogsIn(chain[b]) : b \in Blocks}
PCs == {"poll", "query", "logs", "store", "fatal", "down"}

Larger(a, b) == IF a > b THEN a ELSE b

-----------------------------------------------------------------------------
(* The source chain.                                                       *)

\* A new block with some deposits that are not on the chain yet.
ProduceBlock ==
  /\ head < MaxBlock
  /\ \E s \in BlockContents :
       /\ LogsIn(s) \cap OnChain = {}
       /\ chain' = [chain EXCEPT ![head + 1] = s]
  /\ head' = head + 1
  /\ UNCHANGED <<pc, currentBlock, latestBlock, retry, logs, idx, stored,
                 processed, routed, lost>>

\* The blocks from b on are replaced by blocks without their deposits, which
\* may be included again later, or never.
Reorg ==
  /\ \E b \in Blocks :
       /\ head - ReorgDepth < b /\ b <= head
       /\ chain' = [c \in Blocks |-> IF c >= b THEN <<>> ELSE chain[c]]
  /\ UNCHANGED <<head, pc, currentBlock, latestBlock, retry, logs, idx,
                 stored, processed, routed, lost>>

-----------------------------------------------------------------------------
(* pollBlocks.                                                             *)

\* The block the loop begins at: setupBlockstore takes the later of the
\* configured and the stored block unless --fresh is given, and --latest
\* overrides both with the head of the chain.
FirstBlock(mode) ==
  IF mode = "latest" THEN head
  ELSE IF mode = "fresh" THEN StartBlock ELSE Larger(StartBlock, stored)

RetriesUnchecked == FALSE
RetriesExceeded == retry = 0

OneBlockEarly == head - currentBlock >= Confirmations - 1
OneBlockLate == head - currentBlock > Confirmations

\* The block is deep enough below the head just read (written with the head,
\* which LatestBlock reads in the same step).
DeepEnough == head - currentBlock >= Confirmations

\* What pollBlocks writes to the blockstore, and the block it goes on with.
StoreHead == latestBlock
BlockToStore == currentBlock
GoOnFromHead == latestBlock + 1
FollowingBlock == currentBlock + 1

\* `case <-l.stop` at the top of the loop, after Chain.Stop closed it.
PollStop ==
  /\ pc = "poll" /\ "stop" \in Faults
  /\ pc' = "down"
  /\ UNCHANGED <<head, chain, currentBlock, latestBlock, retry, logs, idx,
                 stored, processed, routed, lost>>

\* No retries are left: report ErrFatalPolling to the core and return.
PollFatal ==
  /\ pc = "poll" /\ RetriesExceeded
  /\ pc' = "fatal"
  /\ UNCHANGED <<head, chain, currentBlock, latestBlock, retry, logs, idx,
                 stored, processed, routed, lost>>

\* LatestBlock answers; the loop sleeps unless the block is deep enough.
PollLatest ==
  /\ pc = "poll" /\ ~RetriesExceeded
  /\ latestBlock' = head
  /\ pc' = IF DeepEnough THEN "query" ELSE "poll"
  /\ UNCHANGED <<head, chain, currentBlock, retry, logs, idx, stored,
                 processed, routed, lost>>

\* Any error of LatestBlock or of getDepositEventsForBlock costs a retry and
\* starts the iteration again; messages already routed stay routed.
Fail ==
  /\ retry' = retry - 1
  /\ pc' = "poll"
  /\ UNCHANGED <<head, chain, currentBlock, latestBlock, logs, idx, stored,
                 processed, routed, lost>>

PollLatestError ==
  /\ pc = "poll" /\ ~RetriesExceeded /\ "rpc" \in Faults
  /\ Fail

FilterLogs ==
  /\ pc = "query"
  /\ logs' = chain[currentBlock]
  /\ idx' = 1
  /\ pc' = "logs"
  /\ UNCHANGED <<head, chain, currentBlock, latestBlock, retry, stored,
                 processed, routed, lost>>

FilterLogsError ==
  /\ pc = "query" /\ "rpc" \in Faults
  /\ Fail

-----------------------------------------------------------------------------
(* getDepositEventsForBlock: one step per event of the block.              *)

\* router.Send of message m for deposit d, whose error is only logged, then
\* the next event.
Send(m, d) ==
  /\ routed' = IF d \in Unroutable THEN routed ELSE routed \cup {m}
  /\ lost' = IF d \in Unroutable \/ m # d THEN lost \cup {d} ELSE lost
  /\ idx' = idx + 1
  /\ UNCHANGED <<head, chain, pc, currentBlock, latestBlock, retry, logs,
                 stored, processed>>

\* The handler is known and its deposit record is read.
HandleDeposit ==
  /\ pc = "logs" /\ idx <= Len(logs)
  /\ KindOf[logs[idx]] # "unknown"
  /\ Send(logs[idx], logs[idx])

\* handleGenericDepositedEvent returns an empty message and no error when the
\* record cannot be read, so an empty message is routed.
HandleGenericError ==
  /\ pc = "logs" /\ idx <= Len(logs) /\ "record" \in Faults
  /\ KindOf[logs[idx]] = "generic"
  /\ Send(EmptyMsg, logs[idx])

\* The handler look-up of any deposit, or the record read of an ERC20 or
\* ERC721 one, fails: the whole block is tried again.
HandleError ==
  /\ pc = "logs" /\ idx <= Len(logs)
  /\ \/ "rpc" \in Faults
     \/ "record" \in Faults /\ KindOf[logs[idx]] \in {"erc20", "erc721"}
  /\ Fail

\* A deposit for an unrecognised handler ends the block without an error, so
\* the rest of the block is not looked at.
SkipUnknown ==
  /\ pc = "logs" /\ idx <= Len(logs)
  /\ KindOf[logs[idx]] = "unknown"
  /\ lost' = lost \cup {logs[i] : i \in idx .. Len(logs)}
  /\ pc' = "store"
  /\ UNCHANGED <<head, chain, currentBlock, latestBlock, retry, logs, idx,
                 stored, processed, routed>>

LogsDone ==
  /\ pc = "logs" /\ idx > Len(logs)
  /\ pc' = "store"
  /\ UNCHANGED <<head, chain, currentBlock, latestBlock, retry, logs, idx,
                 stored, processed, routed, lost>>

\* The block is done: write the blockstore (an error is only logged), set the
\* metrics and go to the next block with all retries.
StoreBlock ==
  /\ pc = "store"
  /\ \/ stored' = BlockToStore
     \/ "store" \in Faults /\ stored' = stored
  /\ processed' = latestBlock
  /\ currentBlock' = FollowingBlock
  /\ retry' = RetryLimit
  /\ pc' = "poll"
  /\ UNCHANGED <<head, chain, latestBlock, logs, idx, routed, lost>>

-----------------------------------------------------------------------------
(* The process around the loop.                                            *)

\* The process dies and keeps nothing but the blockstore file.
Crash ==
  /\ "crash" \in Faults /\ pc # "down"
  /\ pc' = "down"
  /\ UNCHANGED <<head, chain, currentBlock, latestBlock, retry, logs, idx,
                 stored, processed, routed, lost>>

\* The operator starts the process again.
Restart ==
  /\ pc \in {"down", "fatal"}
  /\ \E mode \in StartModes : currentBlock' = FirstBlock(mode)
  /\ pc' = "poll"
  /\ retry' = RetryLimit
  /\ latestBlock' = 0 /\ logs' = <<>> /\ idx' = 1 /\ processed' = 0
  /\ UNCHANGED <<head, chain, stored, routed, lost>>

-----------------------------------------------------------------------------
Init ==
  /\ head = 0
  /\ chain = [b \in Blocks |-> <<>>]
  /\ pc = "poll"
  /\ currentBlock = StartBlock
  /\ latestBlock = 0
  /\ retry = RetryLimit
  /\ logs = <<>>
  /\ idx = 1
  /\ stored = 0
  /\ processed = 0
  /\ routed = {}
  /\ lost = {}

\* What the goroutine started by listener.start does when the node answers,
\* and all it does.
Proceed ==
  \/ PollFatal \/ PollLatest \/ FilterLogs
  \/ HandleDeposit \/ SkipUnknown \/ LogsDone \/ StoreBlock
Listen ==
  \/ Proceed
  \/ PollLatestError \/ FilterLogsError \/ HandleGenericError \/ HandleError

Next ==
  \/ ProduceBlock \/ Reorg
  \/ Listen
  \/ PollStop \/ Crash \/ Restart

Spec == Init /\ [][Next]_vars

\* The Go scheduler keeps running the polling goroutine, an RPC answers in the
\* end, with a result or an error (nothing relies on errors to happen), and the
\* chain keeps growing up to the bound.
FairSpec == Spec /\ WF_vars(Proceed) /\ WF_vars(ProduceBlock)

-----------------------------------------------------------------------------
(* Properties.                                                             *)

\* Every variable keeps its type.
TypeOK ==
  /\ head \in Blocks
  /\ chain \in [Blocks -> Seq(Deposits)]
  /\ pc \in PCs
  /\ currentBlock \in Nat
  /\ latestBlock \in Blocks
  /\ retry \in 0 .. RetryLimit
  /\ logs \in Seq(Deposits)
  /\ idx \in Nat \ {0}
  /\ stored \in Nat
  /\ processed \in Blocks
  /\ routed \subseteq Deposits \cup {EmptyMsg}
  /\ lost \subseteq Deposits

\* The confirmation check of pollBlocks: a deposit whose message was routed is
\* on the chain for good, however the chain is reorganised afterwards.
NoPhantomMessage ==
  \A d \in routed \cap Deposits :
    \E b \in Blocks : b + ReorgDepth <= head /\ d \in LogsIn(chain[b])

Handled(b) == LogsIn(chain[b]) \subseteq routed \cup lost

\* pollBlocks processes blocks without gaps: every deposit of a block between
\* the configured start and the current block was routed, or was dropped on
\* one of the paths the code has for that; nothing is skipped silently by an
\* error, a retry or a restart.
NoDepositSkipped ==
  \A b \in Blocks : StartBlock <= b /\ b < currentBlock => Handled(b)

\* Whatever is in the blockstore when the process dies, a restart from it
\* begins at or before the first block that was not completely handled.
ResumeSkipsNothing ==
  \A b \in Blocks : StartBlock <= b /\ b < FirstBlock("stored") => Handled(b)

\* A deposit buried deep enough is handled, unless the process gives up
\* (ErrFatalPolling) or is stopped; restarts are up to the operator.
DepositEventuallyHandled ==
  \A d \in Deposits :
    (\E b \in Blocks : /\ b >= StartBlock
                       /\ b + Confirmations <= head
                       /\ d \in LogsIn(chain[b]))
      ~> (d \in routed \cup lost \/ pc \in {"fatal", "down"})

\* What the listener promises, with a block final when no reorganisation reaches
\* it and the empty message of HandleGenericError left out.  Unless it is started
\* with --latest, every step is one of the abstract listener, or none.
Intake == INSTANCE Listener WITH
  First <- StartBlock,
  ledger <- [b \in {c \in Blocks : c + ReorgDepth <= head} |-> LogsIn(chain[b])],
  next <- currentBlock,
  noted <- stored,
  routed <- routed \cap Deposits,
  dropped <- lost

ImplementsListener == Intake!ListenerSpec

-----------------------------------------------------------------------------
(* A claim of a comment that the code does not keep.                       *)

\* chain.go, package comment: "If a deposit occurs, the listener will fetch
\* additional information from the handler before constructing a message and
\* forwarding it to the router."
RecognisedDepositForwarded ==
  \A b \in Blocks : StartBlock <= b /\ b < currentBlock =>
    \A d \in LogsIn(chain[b]) : KindOf[d] # "unknown" => d \in routed

=============================================================================
