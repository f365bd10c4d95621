------------------------------ MODULE SubListener ------------------------------
(***************************************************************************)
(* The Substrate listener: pollBlocks, processEvents and handleEvents of   *)
(* chains/substrate/listener.go, the start-up of chain.go, and the runtime *)
(* metadata kept by connection.go, with which events are decoded.          *)
(*                                                                         *)
(* The Substrate node is external: a best chain of which a prefix is       *)
(* finalized, and whose runtime may be upgraded by a block.                *)
(***************************************************************************)
EXTENDS Integers

CONSTANTS
  Deposits,
  KindOf,            \* KindOf[d]: kind of the event of deposit d
  BlockContents,     \* the sets of deposits a block may have
  Unroutable,        \* deposits for a chain that has no writer registered
  MaxBlock,          \* bound: the highest block
  MaxCode,           \* bound: the last version of the runtime
  BlockRetryLimit,
  StartBlock,        \* the startBlock option
  StartModes,        \* how the operator starts it: subset of Modes
  Faults             \* what may go wrong: subset of FaultKinds

Kinds == {"fungible", "nonFungible", "generic"}
Modes == {"stored", "fresh", "latest"}
FaultKinds == {"rpc", "store", "stop", "crash"}

ASSUME ConstantsAssumption ==
  /\ KindOf \in [Deposits -> Kinds]
  /\ BlockContents \subseteq SUBSET Deposits
  /\ {} \in BlockContents
  /\ Unroutable \subseteq Deposits
  /\ MaxBlock \in Nat
  /\ MaxCode \in Nat
  /\ BlockRetryLimit \in Nat \ {0}
  /\ StartBlock \in Nat
  /\ StartModes \subseteq Modes
  /\ Faults \subseteq FaultKinds

VARIABLES
  best,          \* number of the newest block of the best chain
  finalized,     \* number of the newest finalized block
  chain,         \* chain[b]: the deposits with an event in block b
  code,          \* code[b]: version of the runtime in the state after block b
  pc,            \* where the polling goroutine is, or "down" or "fatal"
  currentBlock,
  retry,
  meta,          \* version of the metadata the connection keeps
  staleMeta,     \* history: a refresh of the metadata has failed
  todo,          \* deposits of the current block handleEvents has not sent
  stored,        \* the block in the blockstore file, 0 when there is none
  routed,        \* history: deposits whose message the router took
  lost           \* history: deposits whose message the router refused

nodeVars == <<best, finalized, chain, code>>
vars == <<best, finalized, chain, code, pc, currentBlock, retry, meta,
          staleMeta, todo, stored, routed, lost>>

Blocks == 0 .. MaxBlock
PCs == {"poll", "events", "handle", "store", "fatal", "down"}
Larger(a, b) == IF a > b THEN a ELSE b

-----------------------------------------------------------------------------
(* The node.                                                               *)

\* The runtime that executed block b, and encoded its events.
Encoding(b) == IF b = 0 THEN 0 ELSE code[b - 1]

ProduceBlock ==
  /\ best < MaxBlock
  /\ \E s \in BlockContents, v \in {code[best], code[best] + 1} :
       /\ \A b \in Blocks : s \cap chain[b] = {}
       /\ v <= MaxCode
       /\ chain' = [chain EXCEPT ![best + 1] = s]
       /\ code' = [code EXCEPT ![best + 1] = v]
  /\ best' = best + 1
  /\ UNCHANGED <<finalized, pc, currentBlock, retry, meta, staleMeta, todo,
                 stored, routed, lost>>

Finalize ==
  /\ finalized < best
  /\ finalized' = finalized + 1
  /\ UNCHANGED <<best, chain, code, pc, currentBlock, retry, meta, staleMeta,
                 todo, stored, routed, lost>>

\* The blocks from b on, not finalized yet, are replaced by others.
Reorg ==
  /\ \E b \in Blocks :
       /\ finalized < b /\ b <= best
       /\ chain' = [c \in Blocks |-> IF c >= b THEN {} ELSE chain[c]]
       /\ code' = [c \in Blocks |-> IF c >= b THEN code[b - 1] ELSE code[c]]
  /\ UNCHANGED <<best, finalized, pc, currentBlock, retry, meta, staleMeta,
                 todo, stored, routed, lost>>

-----------------------------------------------------------------------------
(* Start-up.                                                               *)

\* checkBlockstore takes the later of the configured and the stored block
\* unless --fresh is given; --latest overrides both.
FirstBlock(mode) ==
  IF mode = "latest" THEN best
  ELSE IF mode = "fresh" THEN StartBlock ELSE Larger(StartBlock, stored)

\* InitializeChain fetches the latest metadata; start refuses a block beyond
\* the best one.
Launch ==
  /\ pc \in {"down", "fatal"}
  /\ \E mode \in StartModes :
       /\ FirstBlock(mode) <= best
       /\ currentBlock' = FirstBlock(mode)
  /\ meta' = code[best]
  /\ pc' = "poll"
  /\ retry' = BlockRetryLimit
  /\ staleMeta' = FALSE
  /\ todo' = {}
  /\ UNCHANGED <<nodeVars, stored, routed, lost>>

-----------------------------------------------------------------------------
(* pollBlocks.                                                             *)

RetriesUnchecked == FALSE
RetriesExceeded == retry = 0

BestReady == currentBlock <= best
OneBlockLate == currentBlock < finalized
Ready == currentBlock <= finalized

FinalizedStored == finalized
BlockToStore == currentBlock
GoOnFromFinalized == finalized + 1
FollowingBlock == currentBlock + 1

PollStop ==
  /\ pc = "poll" /\ "stop" \in Faults
  /\ pc' = "down"
  /\ UNCHANGED <<nodeVars, currentBlock, retry, meta, staleMeta, todo, stored,
                 routed, lost>>

PollFatal ==
  /\ pc = "poll" /\ RetriesExceeded
  /\ pc' = "fatal"
  /\ UNCHANGED <<nodeVars, currentBlock, retry, meta, staleMeta, todo, stored,
                 routed, lost>>

\* The finalized head has reached the block and its hash is known; otherwise
\* the loop sleeps and asks again, at no cost.
PollFinalized ==
  /\ pc = "poll" /\ ~RetriesExceeded /\ Ready
  /\ pc' = "events"
  /\ UNCHANGED <<nodeVars, currentBlock, retry, meta, staleMeta, todo, stored,
                 routed, lost>>

\* Any other error costs a retry.
Fail ==
  /\ retry' = retry - 1
  /\ pc' = "poll"
  /\ UNCHANGED <<nodeVars, currentBlock, meta, staleMeta, todo, stored, routed,
                 lost>>

PollError ==
  /\ pc = "poll" /\ ~RetriesExceeded /\ "rpc" \in Faults
  /\ Fail

\* processEvents decodes the events with the metadata at hand.  With the
\* metadata of another runtime that may work or not.
ReadEvents ==
  /\ pc = "events"
  /\ todo' = chain[currentBlock]
  /\ pc' = "handle"
  /\ UNCHANGED <<nodeVars, currentBlock, retry, meta, staleMeta, stored,
                 routed, lost>>

ReadError ==
  /\ pc = "events"
  /\ "rpc" \in Faults \/ meta # Encoding(currentBlock)
  /\ Fail

\* handleEvents goes through the fungible transfers, then the non-fungible and
\* then the generic ones.
Before(d, e) ==
  \/ KindOf[d] = "fungible" /\ KindOf[e] # "fungible"
  \/ KindOf[d] = "nonFungible" /\ KindOf[e] = "generic"

\* submitMessage: an error of the router is only logged.
SubmitMessage(d) ==
  /\ pc = "handle" /\ d \in todo
  /\ \A e \in todo : ~Before(e, d)
  /\ routed' = IF d \in Unroutable THEN routed ELSE routed \cup {d}
  /\ lost' = IF d \in Unroutable THEN lost \cup {d} ELSE lost
  /\ todo' = todo \ {d}
  /\ UNCHANGED <<nodeVars, pc, currentBlock, retry, meta, staleMeta, stored>>

NeverUpgraded(b) == FALSE
\* Block b has a CodeUpdated event.
Upgraded(b) == code[b] # Encoding(b)

\* The end of handleEvents: updateMetatdata, whose error is only logged.
RefreshMetadata ==
  /\ pc = "handle" /\ todo = {}
  /\ IF Upgraded(currentBlock)
     THEN \/ meta' = code[best] /\ UNCHANGED staleMeta
          \/ "rpc" \in Faults /\ staleMeta' = TRUE /\ UNCHANGED meta
     ELSE UNCHANGED <<meta, staleMeta>>
  /\ pc' = "store"
  /\ UNCHANGED <<nodeVars, currentBlock, retry, todo, stored, routed, lost>>

\* Write the blockstore (an error is only logged) and go to the next block.
StoreBlock ==
  /\ pc = "store"
  /\ \/ stored' = BlockToStore
     \/ "store" \in Faults /\ stored' = stored
  /\ currentBlock' = FollowingBlock
  /\ retry' = BlockRetryLimit
  /\ pc' = "poll"
  /\ UNCHANGED <<nodeVars, meta, staleMeta, todo, routed, lost>>

Crash ==
  /\ "crash" \in Faults /\ pc # "down"
  /\ pc' = "down"
  /\ UNCHANGED <<nodeVars, currentBlock, retry, meta, staleMeta, todo, stored,
                 routed, lost>>

-----------------------------------------------------------------------------
Init ==
  /\ best = 0 /\ finalized = 0
  /\ chain = [b \in Blocks |-> {}]
  /\ code = [b \in Blocks |-> 0]
  /\ pc = "down"
  /\ currentBlock = StartBlock
  /\ retry = BlockRetryLimit
  /\ meta = 0
  /\ staleMeta = FALSE
  /\ todo = {}
  /\ stored = 0
  /\ routed = {} /\ lost = {}

\* What the goroutine started by listener.start does when the node answers.
Proceed ==
  \/ PollFatal \/ PollFinalized \/ ReadEvents
  \/ \E d \in Deposits : SubmitMessage(d)
  \/ RefreshMetadata \/ StoreBlock

Next ==
  \/ ProduceBlock \/ Finalize \/ Reorg
  \/ Proceed \/ PollError \/ ReadError
  \/ PollStop \/ Crash \/ Launch

Spec == Init /\ [][Next]_vars

\* The Go scheduler keeps running the goroutine, and the node answers a query
\* in the end, with a result or an error: nothing relies on errors to happen.
FairSpec == Spec /\ WF_vars(Proceed)

-----------------------------------------------------------------------------
(* Properties.                                                             *)

\* Every variable keeps its type.
TypeOK ==
  /\ best \in Blocks /\ finalized \in 0 .. best
  /\ chain \in [Blocks -> SUBSET Deposits]
  /\ code \in [Blocks -> 0 .. MaxCode]
  /\ pc \in PCs
  /\ currentBlock \in Nat
  /\ retry \in 0 .. BlockRetryLimit
  /\ meta \in 0 .. MaxCode
  /\ staleMeta \in BOOLEAN
  /\ todo \subseteq Deposits
  /\ stored \in Nat
  /\ routed \subseteq Deposits /\ lost \subseteq Deposits

Handled(b) == chain[b] \subseteq routed \cup lost

\* A message is routed only for a deposit in a finalized block, so no
\* reorganisation of the best chain takes the deposit back.
RoutedIsFinalized ==
  \A d \in routed \cup todo : \E b \in 0 .. finalized : d \in chain[b]

\* The loop leaves no gap: every deposit between the configured start and the
\* current block has been given to the router, whatever errors, retries,
\* upgrades and restarts came between.
NoDepositSkipped ==
  \A b \in Blocks : StartBlock <= b /\ b < currentBlock => Handled(b)

\* A restart from the blockstore begins at or before the first block that was
\* not completely handled, whenever the process dies.
ResumeSkipsNothing ==
  \A b \in Blocks : StartBlock <= b /\ b < FirstBlock("stored") => Handled(b)

\* The metadata is never older than the runtime that encoded the block being
\* decoded, unless the refresh at an upgrade failed.  (It may be newer: it is
\* fetched from the best block, and at start-up blocks may be far behind.)
MetadataNotOutdated ==
  pc \in {"events", "handle"} /\ ~staleMeta => meta >= Encoding(currentBlock)

\* A deposit in a finalized block that the listener has not passed yet is
\* handled, unless the process gives up or is stopped.
DepositEventuallyHandled ==
  \A d \in Deposits :
    (\E b \in 0 .. finalized : b >= currentBlock /\ d \in chain[b])
      ~> (d \in routed \cup lost \/ pc \in {"fatal", "down"})

\* What the listener promises.  Unless it is started with --latest, every step is
\* one of the abstract listener, or none.
Intake == INSTANCE Listener WITH
  First <- StartBlock,
  ledger <- [b \in 0 .. finalized |-> chain[b]],
  next <- currentBlock,
  noted <- stored,
  dropped <- lost

ImplementsListener == Intake!ListenerSpec

===============================================================================
