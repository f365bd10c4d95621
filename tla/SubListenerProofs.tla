--------------------------- MODULE SubListenerProofs ---------------------------
(***************************************************************************)
(* Proofs about SubListener, for every chain, every number of retries and  *)
(* any faults.                                                             *)
(*                                                                         *)
(* Three invariants, each inductive relative to the ones before it:        *)
(*   PollInv   the block being worked on is finalized and what was sent or *)
(*             is left to send of it is what it holds (safety of messages);*)
(*   CoverInv  everything below the current and the stored block has been  *)
(*             handled (nothing is skipped);                               *)
(*   MetaInv   versions of the runtime only grow along the best chain, and *)
(*             the metadata keeps up with them.                            *)
(***************************************************************************)
EXTENDS SubListener, TLAPS

Running == {"poll", "events", "handle", "store"}

RetryLeft == pc \in {"events", "handle", "store"} => retry > 0

WorksOnFinalized ==
  /\ pc \in {"events", "handle", "store"} => currentBlock \in 0 .. finalized
  /\ pc = "handle" => /\ todo \subseteq chain[currentBlock]
                      /\ chain[currentBlock] \ todo \subseteq routed \cup lost
  /\ pc = "store" => Handled(currentBlock)
  /\ pc \in {"poll", "events", "store"} => todo = {}

PollInv == TypeOK /\ RetryLeft /\ WorksOnFinalized /\ RoutedIsFinalized

Covered(b) == b \in 0 .. finalized /\ Handled(b)

CoverInv ==
  /\ PollInv
  /\ \A b \in Nat : StartBlock <= b /\ b < currentBlock => Covered(b)
  /\ \A b \in Nat : StartBlock <= b /\ b < stored => Covered(b)

CodeGrows ==
  \A a \in Blocks, b \in Blocks : a <= b /\ b <= best => code[a] <= code[b]

MetaCovers ==
  /\ pc \in {"poll", "events", "handle"} =>
       /\ currentBlock <= best + 1
       /\ ~staleMeta => meta >= Encoding(currentBlock)
  /\ pc = "store" => (~staleMeta => meta >= code[currentBlock])

MetaInv == PollInv /\ CodeGrows /\ MetaCovers

-----------------------------------------------------------------------------
\* A start from the blockstore or the configuration begins at a block number.
LEMMA FirstBlockType ==
  ASSUME TypeOK, NEW mode
  PROVE  FirstBlock(mode) \in Nat
BY ConstantsAssumption DEF TypeOK, FirstBlock, Larger, Blocks

LEMMA InitPollInv == Init => PollInv
<1> SUFFICES ASSUME Init PROVE PollInv
  OBVIOUS
<1> USE ConstantsAssumption DEF Init
<1>1. TypeOK
  <2>1. /\ best \in Blocks /\ finalized \in 0 .. best
        /\ retry \in 0 .. BlockRetryLimit /\ meta \in 0 .. MaxCode
    BY DEF Blocks
  <2>2. code \in [Blocks -> 0 .. MaxCode]
    OBVIOUS
  <2>3. QED BY <2>1, <2>2 DEF TypeOK, PCs
<1>2. RetryLeft /\ WorksOnFinalized /\ RoutedIsFinalized
  BY DEF RetryLeft, WorksOnFinalized, RoutedIsFinalized
<1>3. QED BY <1>1, <1>2 DEF PollInv

\* Finalized blocks never change, and stay finalized.
LEMMA FinalizedStays ==
  ASSUME TypeOK, [Next]_vars, NEW b \in 0 .. finalized
  PROVE  b \in 0 .. finalized' /\ chain'[b] = chain[b]
<1> b \in Blocks BY ConstantsAssumption DEF TypeOK, Blocks
<1>1. CASE ProduceBlock
  BY <1>1, ConstantsAssumption DEF ProduceBlock, TypeOK, Blocks
<1>2. CASE Finalize BY <1>2 DEF Finalize, TypeOK, Blocks
<1>3. CASE Reorg BY <1>3 DEF Reorg, TypeOK, Blocks
<1>4. CASE UNCHANGED <<finalized, chain>> BY <1>4
<1>5. QED
  BY <1>1, <1>2, <1>3, <1>4 DEF Next, Proceed, PollFatal, PollFinalized,
     ReadEvents, SubmitMessage, RefreshMetadata, StoreBlock, PollError,
     ReadError, Fail, PollStop, Crash, Launch, nodeVars, vars

\* What has been handed to the router or refused by it stays so.
LEMMA CoveredStays ==
  ASSUME TypeOK, [Next]_vars, NEW b, Covered(b)
  PROVE  Covered(b)'
<1>1. b \in 0 .. finalized' /\ chain'[b] = chain[b]
  BY FinalizedStays DEF Covered
<1>2. routed \subseteq routed' /\ lost \subseteq lost'
  BY DEF Next, Proceed, PollFatal, PollFinalized, ReadEvents, SubmitMessage,
     RefreshMetadata, StoreBlock, PollError, ReadError, Fail, PollStop, Crash,
     Launch, ProduceBlock, Finalize, Reorg, vars
<1>3. QED BY <1>1, <1>2 DEF Covered, Handled

-----------------------------------------------------------------------------
LEMMA NextTypeOK == PollInv /\ [Next]_vars => TypeOK'
<1> SUFFICES ASSUME PollInv, [Next]_vars PROVE TypeOK'
  OBVIOUS
<1> TypeOK /\ RetryLeft BY DEF PollInv
<1> USE ConstantsAssumption DEF TypeOK, nodeVars
<1>1. ASSUME ProduceBlock PROVE TypeOK'
  <2>1. best + 1 \in Blocks /\ finalized \in 0 .. best + 1
    BY <1>1 DEF ProduceBlock, Blocks
  <2>2. PICK s \in BlockContents, v \in {code[best], code[best] + 1} :
          /\ v <= MaxCode
          /\ chain' = [chain EXCEPT ![best + 1] = s]
          /\ code' = [code EXCEPT ![best + 1] = v]
    BY <1>1 DEF ProduceBlock
  <2>3. v \in 0 .. MaxCode BY <2>2
  <2>4. chain' \in [Blocks -> SUBSET Deposits] /\ code' \in [Blocks -> 0 .. MaxCode]
    BY <2>1, <2>2, <2>3
  <2>5. QED BY <1>1, <2>1, <2>4 DEF ProduceBlock
<1>2. ASSUME Finalize PROVE TypeOK'
  BY <1>2 DEF Finalize, Blocks
<1>3. ASSUME Reorg PROVE TypeOK'
  <2>1. PICK b \in Blocks :
          /\ finalized < b /\ b <= best
          /\ chain' = [c \in Blocks |-> IF c >= b THEN {} ELSE chain[c]]
          /\ code' = [c \in Blocks |-> IF c >= b THEN code[b - 1] ELSE code[c]]
    BY <1>3 DEF Reorg
  <2>2. b - 1 \in Blocks BY <2>1 DEF Blocks
  <2>3. QED BY <1>3, <2>1, <2>2 DEF Reorg
<1>4. ASSUME PollFatal \/ PollFinalized \/ PollStop \/ Crash PROVE TypeOK'
  BY <1>4 DEF PollFatal, PollFinalized, PollStop, Crash, PCs
<1>5. ASSUME PollError \/ ReadError PROVE TypeOK'
  <2>1. retry - 1 \in 0 .. BlockRetryLimit
    BY <1>5 DEF PollError, ReadError, RetriesExceeded, RetryLeft
  <2>2. QED BY <1>5, <2>1 DEF PollError, ReadError, Fail, PCs
<1>6. ASSUME ReadEvents PROVE TypeOK'
  <2>1. currentBlock \in Blocks
    BY <1>6 DEF PollInv, WorksOnFinalized, ReadEvents, Blocks
  <2>2. QED BY <1>6, <2>1 DEF ReadEvents, PCs
<1>7. ASSUME NEW d \in Deposits, SubmitMessage(d) PROVE TypeOK'
  BY <1>7 DEF SubmitMessage, PCs
<1>8. ASSUME RefreshMetadata PROVE TypeOK'
  BY <1>8 DEF RefreshMetadata, PCs
<1>9. ASSUME StoreBlock PROVE TypeOK'
  BY <1>9 DEF StoreBlock, BlockToStore, FollowingBlock, PCs
<1>10. ASSUME Launch PROVE TypeOK'
  <2>1. currentBlock' \in Nat
    BY <1>10, FirstBlockType DEF Launch
  <2>2. meta' \in 0 .. MaxCode /\ pc' \in PCs /\ retry' \in 0 .. BlockRetryLimit
    BY <1>10 DEF Launch, PCs
  <2>3. todo' \subseteq Deposits /\ staleMeta' \in BOOLEAN
    BY <1>10 DEF Launch
  <2>4. QED BY <1>10, <2>1, <2>2, <2>3 DEF Launch
<1>11. QED
  BY <1>1, <1>2, <1>3, <1>4, <1>5, <1>6, <1>7, <1>8, <1>9, <1>10
     DEF Next, Proceed, vars

LEMMA NextPollInv == PollInv /\ [Next]_vars => PollInv'
<1> SUFFICES ASSUME PollInv, [Next]_vars PROVE PollInv'
  OBVIOUS
<1> TypeOK /\ RetryLeft /\ WorksOnFinalized /\ RoutedIsFinalized BY DEF PollInv
<1> USE DEF nodeVars
<1>1. TypeOK' BY NextTypeOK
<1>2. RetryLeft'
  BY ConstantsAssumption DEF TypeOK, RetryLeft, Next, Proceed, ProduceBlock,
     Finalize, Reorg, PollFatal, PollFinalized, RetriesExceeded, ReadEvents,
     SubmitMessage, RefreshMetadata, StoreBlock, PollError, ReadError, Fail,
     PollStop, Crash, Launch, vars
<1>3. WorksOnFinalized'
  <2>1. CASE UNCHANGED <<pc, currentBlock, todo, routed, lost>>
    <3>1. CASE pc \in {"events", "handle", "store"}
      BY <2>1, <3>1, FinalizedStays DEF WorksOnFinalized, Handled
    <3>2. CASE pc \notin {"events", "handle", "store"}
      BY <2>1, <3>2 DEF WorksOnFinalized
    <3>3. QED BY <3>1, <3>2
  <2>2. CASE PollFinalized
    BY <2>2 DEF PollFinalized, Ready, WorksOnFinalized, TypeOK
  <2>3. CASE ReadEvents BY <2>3 DEF ReadEvents, WorksOnFinalized
  <2>4. ASSUME NEW d \in Deposits, SubmitMessage(d) PROVE WorksOnFinalized'
    BY <2>4 DEF SubmitMessage, WorksOnFinalized, Handled
  <2>5. CASE RefreshMetadata
    BY <2>5 DEF RefreshMetadata, WorksOnFinalized, Handled
  <2>6. CASE StoreBlock BY <2>6 DEF StoreBlock, WorksOnFinalized
  <2>7. CASE PollError \/ ReadError
    BY <2>7 DEF PollError, ReadError, Fail, WorksOnFinalized
  <2>8. CASE PollFatal \/ PollStop \/ Crash \/ Launch
    BY <2>8 DEF PollFatal, PollStop, Crash, Launch, WorksOnFinalized
  <2>9. CASE ProduceBlock \/ Finalize \/ Reorg \/ UNCHANGED vars
    BY <2>1, <2>9 DEF ProduceBlock, Finalize, Reorg, vars
  <2>10. QED
    BY <2>2, <2>3, <2>4, <2>5, <2>6, <2>7, <2>8, <2>9 DEF Next, Proceed
<1>4. RoutedIsFinalized'
  <2> SUFFICES ASSUME NEW d \in routed' \cup todo'
               PROVE  \E b \in 0 .. finalized : d \in chain[b]
    BY FinalizedStays DEF RoutedIsFinalized
  <2>1. CASE d \in routed \cup todo BY <2>1 DEF RoutedIsFinalized
  <2>2. CASE d \notin routed \cup todo
    <3>1. ReadEvents
      BY <2>2 DEF Next, Proceed, ProduceBlock, Finalize, Reorg, PollFatal,
         PollFinalized, SubmitMessage, RefreshMetadata, StoreBlock, PollError,
         ReadError, Fail, PollStop, Crash, Launch, vars
    <3>2. d \in chain[currentBlock] /\ currentBlock \in 0 .. finalized
      BY <2>2, <3>1 DEF ReadEvents, WorksOnFinalized
    <3>3. QED BY <3>2
  <2>3. QED BY <2>1, <2>2
<1>5. QED BY <1>1, <1>2, <1>3, <1>4 DEF PollInv

LEMMA PollInvariance == Spec => []PollInv
BY InitPollInv, NextPollInv, PTL DEF Spec

\* Every variable of the listener keeps its type.
THEOREM TypeCorrect == Spec => []TypeOK
<1>1. PollInv => TypeOK BY DEF PollInv
<1>2. QED BY <1>1, PollInvariance, PTL

\* The listener asks the finalized head, so what it routes is there to stay.
THEOREM OnlyFinalized == Spec => []RoutedIsFinalized
<1>1. PollInv => RoutedIsFinalized BY DEF PollInv
<1>2. QED BY <1>1, PollInvariance, PTL

-----------------------------------------------------------------------------
(* Nothing is skipped.                                                     *)

LEMMA InitCoverInv == Init => CoverInv
BY InitPollInv, ConstantsAssumption DEF Init, CoverInv

LEMMA NextCoverInv ==
  ASSUME "latest" \notin StartModes
  PROVE  CoverInv /\ [Next]_vars => CoverInv'
<1> SUFFICES ASSUME CoverInv, [Next]_vars PROVE CoverInv'
  OBVIOUS
<1> PollInv /\ TypeOK BY DEF CoverInv, PollInv
<1> USE ConstantsAssumption
<1>1. ASSUME NEW b \in Nat, StartBlock <= b, b < currentBlock'
      PROVE  Covered(b)'
  <2> SUFFICES Covered(b) BY CoveredStays
  <2>1. CASE currentBlock' = currentBlock BY <1>1, <2>1 DEF CoverInv
  <2>2. CASE StoreBlock
    <3>1. pc = "store" /\ b <= currentBlock
      BY <1>1, <2>2 DEF StoreBlock, FollowingBlock, TypeOK
    <3>2. CASE b < currentBlock BY <1>1, <3>2 DEF CoverInv
    <3>3. CASE b = currentBlock
      BY <3>1, <3>3 DEF PollInv, WorksOnFinalized, Covered
    <3>4. QED BY <3>1, <3>2, <3>3 DEF TypeOK
  <2>3. CASE Launch
    <3>1. PICK mode \in StartModes : currentBlock' = FirstBlock(mode)
      BY <2>3 DEF Launch
    <3>2. b < stored
      BY <1>1, <3>1 DEF FirstBlock, Larger, TypeOK
    <3>3. QED BY <1>1, <3>2 DEF CoverInv
  <2>4. QED
    BY <2>1, <2>2, <2>3 DEF Next, Proceed, ProduceBlock, Finalize, Reorg,
       PollFatal, PollFinalized, ReadEvents, SubmitMessage, RefreshMetadata,
       PollError, ReadError, Fail, PollStop, Crash, vars
<1>2. ASSUME NEW b \in Nat, StartBlock <= b, b < stored'
      PROVE  Covered(b)'
  <2> SUFFICES Covered(b) BY CoveredStays
  <2>1. CASE stored' = stored BY <1>2, <2>1 DEF CoverInv
  <2>2. CASE stored' = currentBlock BY <1>2, <2>2 DEF CoverInv
  <2>3. QED
    BY <2>1, <2>2 DEF Next, Proceed, ProduceBlock, Finalize, Reorg, PollFatal,
       PollFinalized, ReadEvents, SubmitMessage, RefreshMetadata, StoreBlock,
       BlockToStore, PollError, ReadError, Fail, PollStop, Crash, Launch, vars
<1>3. PollInv' BY NextPollInv
<1>4. QED BY <1>1, <1>2, <1>3 DEF CoverInv

\* Unless the operator restarts with --latest, every deposit below the current
\* block has been given to the router.
THEOREM NothingSkipped ==
  ASSUME "latest" \notin StartModes
  PROVE  Spec => []NoDepositSkipped
<1>1. CoverInv => NoDepositSkipped
  BY DEF CoverInv, Covered, NoDepositSkipped, Blocks
<1>2. QED BY InitCoverInv, NextCoverInv, <1>1, PTL DEF Spec

\* Under the same assumption the blockstore never runs ahead of what has been
\* handled, so a restart from it skips nothing.
THEOREM ResumeIsSafe ==
  ASSUME "latest" \notin StartModes
  PROVE  Spec => []ResumeSkipsNothing
<1>1. CoverInv => ResumeSkipsNothing
  BY ConstantsAssumption DEF CoverInv, PollInv, TypeOK, Covered,
     ResumeSkipsNothing, FirstBlock, Larger, Blocks
<1>2. QED BY InitCoverInv, NextCoverInv, <1>1, PTL DEF Spec

-----------------------------------------------------------------------------
(* The metadata keeps up.                                                  *)

LEMMA InitMetaInv == Init => MetaInv
BY InitPollInv DEF Init, MetaInv, CodeGrows, MetaCovers

\* A new block has the version of its predecessor or a later one; a
\* reorganisation takes versions back to an earlier one.
LEMMA NextCodeGrows ==
  ASSUME TypeOK, CodeGrows, [Next]_vars
  PROVE  CodeGrows'
<1> USE ConstantsAssumption DEF TypeOK, Blocks
<1> SUFFICES ASSUME NEW a \in Blocks, NEW b \in Blocks, a <= b, b <= best'
             PROVE  code'[a] <= code'[b]
  BY DEF CodeGrows
<1>1. CASE ProduceBlock
  <2>1. PICK v \in {code[best], code[best] + 1} :
          code' = [code EXCEPT ![best + 1] = v] /\ best' = best + 1
    BY <1>1 DEF ProduceBlock
  <2>2. CASE b <= best BY <2>1, <2>2 DEF CodeGrows
  <2>3. CASE b = best + 1
    <3>1. code'[b] = v /\ code[best] <= v BY <2>1, <2>3
    <3>2. CASE a = b BY <3>1, <3>2
    <3>3. CASE a <= best
      <4>1. code'[a] = code[a] /\ code[a] <= code[best]
        BY <2>1, <3>3 DEF CodeGrows
      <4>2. code[a] \in Int /\ code[best] \in Int /\ v \in Int OBVIOUS
      <4>3. QED BY <3>1, <4>1, <4>2
    <3>4. QED BY <2>3, <3>2, <3>3
  <2>4. QED BY <2>1, <2>2, <2>3
<1>2. CASE Reorg
  <2>1. PICK r \in Blocks :
          /\ finalized < r /\ r <= best
          /\ code' = [c \in Blocks |-> IF c >= r THEN code[r - 1] ELSE code[c]]
          /\ best' = best
    BY <1>2 DEF Reorg
  <2>2. r - 1 \in Blocks /\ r - 1 <= best BY <2>1
  <2>3. QED BY <2>1, <2>2 DEF CodeGrows
<1>3. CASE UNCHANGED <<best, code>> BY <1>3 DEF CodeGrows
<1>4. QED
  BY <1>1, <1>2, <1>3 DEF Next, Proceed, Finalize, PollFatal, PollFinalized,
     ReadEvents, SubmitMessage, RefreshMetadata, StoreBlock, PollError,
     ReadError, Fail, PollStop, Crash, Launch, nodeVars, vars

LEMMA NextMetaCovers ==
  ASSUME MetaInv, [Next]_vars
  PROVE  MetaCovers'
<1> PollInv /\ TypeOK /\ WorksOnFinalized /\ CodeGrows /\ MetaCovers
  BY DEF MetaInv, PollInv
<1> USE ConstantsAssumption DEF TypeOK, Blocks, nodeVars
<1>1. CASE ProduceBlock
  <2>1. PICK v : code' = [code EXCEPT ![best + 1] = v] /\ best' = best + 1
                 /\ UNCHANGED <<pc, currentBlock, meta, staleMeta>>
    BY <1>1 DEF ProduceBlock
  <2>2. ASSUME currentBlock <= best + 1 PROVE Encoding(currentBlock)' = Encoding(currentBlock)
    BY <2>1, <2>2 DEF Encoding
  <2>3. pc = "store" => code'[currentBlock] = code[currentBlock]
    BY <2>1 DEF WorksOnFinalized
  <2>4. QED BY <2>1, <2>2, <2>3 DEF MetaCovers
<1>2. CASE Reorg
  <2>1. PICK r \in Blocks :
          /\ finalized < r /\ r <= best
          /\ code' = [c \in Blocks |-> IF c >= r THEN code[r - 1] ELSE code[c]]
          /\ UNCHANGED <<best, pc, currentBlock, meta, staleMeta>>
    BY <1>2 DEF Reorg
  <2>2. r - 1 \in Blocks /\ r - 1 <= best BY <2>1
  <2>3. ASSUME NEW b \in Blocks, b <= best PROVE code'[b] <= code[b]
    BY <2>1, <2>2, <2>3 DEF CodeGrows
  <2>4. ASSUME currentBlock <= best + 1
        PROVE  Encoding(currentBlock)' <= Encoding(currentBlock)
    BY <2>1, <2>3, <2>4 DEF Encoding
  <2>5. pc = "store" => code'[currentBlock] <= code[currentBlock]
    BY <2>3 DEF WorksOnFinalized
  <2>6. CASE pc \in {"poll", "events", "handle"}
    <3>1. currentBlock <= best + 1 BY <2>6 DEF MetaCovers
    <3>2. Encoding(currentBlock) \in Int /\ Encoding(currentBlock)' \in Int
      BY <2>1, <2>2, <3>1 DEF Encoding
    <3>3. QED BY <2>1, <2>4, <2>6, <3>1, <3>2 DEF MetaCovers
  <2>7. CASE pc = "store"
    <3>1. currentBlock \in Blocks BY <2>7 DEF WorksOnFinalized
    <3>2. code[currentBlock] \in Int /\ code'[currentBlock] \in Int
      BY <2>1, <2>2, <3>1
    <3>3. QED BY <2>1, <2>5, <2>7, <3>2 DEF MetaCovers
  <2>8. QED BY <2>1, <2>6, <2>7 DEF MetaCovers
<1>3. CASE Launch
  <2>1. /\ currentBlock' \in Nat /\ currentBlock' <= best
        /\ meta' = code[best] /\ pc' = "poll" /\ best' = best /\ code' = code
    BY <1>3, FirstBlockType DEF Launch
  <2>2. Encoding(currentBlock)' <= code[best]
    <3>1. CASE currentBlock' = 0 BY <2>1, <3>1 DEF Encoding
    <3>2. CASE currentBlock' # 0
      <4>1. currentBlock' - 1 \in Blocks /\ currentBlock' - 1 <= best
        <5>1. best \in 0 .. MaxBlock OBVIOUS
        <5>2. PICK c \in Nat : c = currentBlock' BY <2>1
        <5>3. c # 0 /\ c <= best BY <2>1, <3>2, <5>2
        <5>4. c - 1 \in 0 .. MaxBlock /\ c - 1 <= best BY <5>1, <5>3
        <5>5. QED BY <5>2, <5>4
      <4>2. code[currentBlock' - 1] <= code[best] BY <4>1 DEF CodeGrows
      <4>3. Encoding(currentBlock)' = code[currentBlock' - 1]
        BY <2>1, <3>2 DEF Encoding
      <4>4. QED BY <4>2, <4>3
    <3>3. QED BY <3>1, <3>2
  <2>3. QED BY <2>1, <2>2 DEF MetaCovers
<1>4. CASE RefreshMetadata
  <2>1. currentBlock \in 0 .. finalized
    BY <1>4 DEF RefreshMetadata, WorksOnFinalized
  <2>2. code[currentBlock] <= code[best] BY <2>1 DEF CodeGrows
  <2>3. QED
    BY <1>4, <2>1, <2>2 DEF RefreshMetadata, Upgraded, MetaCovers, Encoding
<1>5. CASE StoreBlock
  <2>1. currentBlock \in 0 .. finalized /\ currentBlock' = currentBlock + 1
    BY <1>5 DEF StoreBlock, FollowingBlock, WorksOnFinalized
  <2>2. Encoding(currentBlock)' = code[currentBlock]
    BY <1>5, <2>1 DEF StoreBlock, Encoding
  <2>3. QED BY <1>5, <2>1, <2>2 DEF StoreBlock, MetaCovers
<1>6. CASE PollError \/ ReadError
  BY <1>6 DEF PollError, ReadError, Fail, MetaCovers, Encoding
<1>7. CASE PollFinalized \/ ReadEvents \/ \E d \in Deposits : SubmitMessage(d)
  BY <1>7 DEF PollFinalized, ReadEvents, SubmitMessage, MetaCovers, Encoding
<1>8. CASE PollFatal \/ PollStop \/ Crash
  BY <1>8 DEF PollFatal, PollStop, Crash, MetaCovers
<1>9. CASE Finalize \/ UNCHANGED vars
  BY <1>9 DEF Finalize, vars, MetaCovers, Encoding
<1>10. QED
  BY <1>1, <1>2, <1>3, <1>4, <1>5, <1>6, <1>7, <1>8, <1>9 DEF Next, Proceed

LEMMA NextMetaInv == MetaInv /\ [Next]_vars => MetaInv'
BY NextPollInv, NextCodeGrows, NextMetaCovers DEF MetaInv, PollInv

\* Events are never decoded with metadata older than the runtime that wrote
\* them, unless the refresh at the upgrade failed.
THEOREM MetadataKeepsUp == Spec => []MetadataNotOutdated
<1>1. MetaInv => MetadataNotOutdated
  BY DEF MetaInv, MetaCovers, MetadataNotOutdated
<1>2. QED BY InitMetaInv, NextMetaInv, <1>1, PTL DEF Spec

-----------------------------------------------------------------------------
(* The abstract listener.                                                  *)

\* The deposits of the finalized blocks, as the refinement maps them.
Ledger == [b \in 0 .. finalized |-> chain[b]]

LEMMA IntakeStarts == Init => Intake!ListenerInit
<1> SUFFICES ASSUME Init PROVE Intake!ListenerInit
  OBVIOUS
<1>1. \A b \in DOMAIN Ledger : Ledger[b] = {}
  BY ConstantsAssumption DEF Init, Ledger, Blocks
<1>2. QED BY <1>1 DEF Init, Ledger, Intake!ListenerInit

\* The node and the process go on, or the listener handles or passes a block.
LEMMA IntakeMoves ==
  ASSUME CoverInv, [Next]_vars, "latest" \notin StartModes
  PROVE  \/ Intake!ListenerNext
         \/ UNCHANGED <<Ledger, currentBlock, stored, routed, lost>>
<1>1. TypeOK /\ WorksOnFinalized
  BY DEF CoverInv, PollInv
<1>2. CASE ProduceBlock \/ Finalize \/ Reorg
  <2>1. UNCHANGED <<currentBlock, stored, routed, lost>>
    BY <1>2 DEF ProduceBlock, Finalize, Reorg
  <2>2. \A b \in 0 .. finalized : b \in 0 .. finalized' /\ chain'[b] = chain[b]
    BY <1>1, FinalizedStays
  <2>3. /\ DOMAIN Ledger \subseteq DOMAIN Ledger'
        /\ \A b \in DOMAIN Ledger : Ledger'[b] = Ledger[b]
    BY <2>2 DEF Ledger
  <2>4. Intake!Finalize
    BY <2>1, <2>3 DEF Ledger, Intake!Finalize, Intake!intakeVars
  <2>5. QED BY <2>4 DEF Intake!ListenerNext
<1>3. ASSUME NEW d \in Deposits, SubmitMessage(d)
      PROVE  Intake!Route \/ Intake!Drop
  <2>1. /\ currentBlock \in 0 .. finalized /\ d \in chain[currentBlock]
        /\ UNCHANGED <<finalized, chain, currentBlock, stored>>
    BY <1>1, <1>3 DEF SubmitMessage, WorksOnFinalized, nodeVars
  <2>2. /\ Ledger' = Ledger
        /\ currentBlock \in DOMAIN Ledger /\ d \in Ledger[currentBlock]
    BY <2>1 DEF Ledger
  <2>3. CASE d \in Unroutable
    BY <1>3, <2>1, <2>2, <2>3
       DEF SubmitMessage, Ledger, Intake!Drop, Intake!Final
  <2>4. CASE d \notin Unroutable
    BY <1>3, <2>1, <2>2, <2>4
       DEF SubmitMessage, Ledger, Intake!Route, Intake!Final
  <2>5. QED BY <2>3, <2>4
<1>4. CASE StoreBlock
  <2>1. /\ currentBlock \in 0 .. finalized
        /\ chain[currentBlock] \subseteq routed \cup lost
        /\ currentBlock' = currentBlock + 1
        /\ stored' \in {stored, currentBlock}
        /\ UNCHANGED <<finalized, chain, routed, lost>>
    BY <1>1, <1>4 DEF StoreBlock, BlockToStore, FollowingBlock, nodeVars,
                      WorksOnFinalized, Handled
  <2>2. /\ Ledger' = Ledger /\ currentBlock \in DOMAIN Ledger
        /\ Ledger[currentBlock] = chain[currentBlock]
    BY <2>1 DEF Ledger
  <2>3. Intake!Pass
    BY <2>1, <2>2 DEF Ledger, Intake!Pass, Intake!Final, Intake!Settled
  <2>4. QED BY <2>3 DEF Intake!ListenerNext
<1>5. CASE Launch
  <2>1. PICK mode \in StartModes : currentBlock' = FirstBlock(mode)
    BY <1>5 DEF Launch
  <2>2. currentBlock' = Larger(StartBlock, stored) \/ currentBlock' = StartBlock
    BY <2>1 DEF FirstBlock
  <2>3. \/ currentBlock' = StartBlock
        \/ currentBlock' = stored /\ stored >= StartBlock
    BY <1>1, <2>2, ConstantsAssumption DEF Larger, TypeOK
  <2>4. UNCHANGED <<finalized, chain, stored, routed, lost>>
    BY <1>5 DEF Launch, nodeVars
  <2>5. Intake!Restart
    BY <2>3, <2>4 DEF Intake!Restart
  <2>6. QED BY <2>5 DEF Intake!ListenerNext
<1>6. CASE UNCHANGED <<finalized, chain, currentBlock, stored, routed, lost>>
  BY <1>6 DEF Ledger
<1>7. QED
  BY <1>2, <1>3, <1>4, <1>5, <1>6 DEF Next, Proceed, PollFatal, PollFinalized,
     ReadEvents, RefreshMetadata, PollError, ReadError, Fail, PollStop, Crash,
     nodeVars, vars, Intake!ListenerNext

\* Unless the operator restarts with --latest, the Substrate listener implements
\* the abstract one, as the Ethereum listener does.
THEOREM ListenerImplemented ==
  ASSUME "latest" \notin StartModes
  PROVE  Spec => ImplementsListener
<1>1. CoverInv /\ [Next]_vars =>
        [Intake!ListenerNext]_<<Ledger, currentBlock, stored, routed, lost>>
  BY IntakeMoves
<1>2. QED
  BY InitCoverInv, NextCoverInv, IntakeStarts, <1>1, PTL
     DEF Spec, ImplementsListener, Intake!ListenerSpec, Ledger
===============================================================================
