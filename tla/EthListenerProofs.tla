-------------------------- MODULE EthListenerProofs --------------------------
(***************************************************************************)
(* Proofs about EthListener for every chain, block content, confirmation   *)
(* depth and retry limit: types, that no message is routed for a deposit   *)
(* the chain can still take back, and that neither polling nor a restart   *)
(* skips a deposit silently.                                               *)
(***************************************************************************)
EXTENDS EthListener, TLAPS

-----------------------------------------------------------------------------
(* The inductive invariants.                                               *)

\* A block no reorganisation can replace any more.
Final(b) == b \in Blocks /\ b + ReorgDepth <= head

\* The block under work was deep enough when it was read, and what was read
\* from it is still what it holds.
ReadsFinalBlock ==
  /\ pc \in {"query", "logs", "store"} => Final(currentBlock)
  /\ pc \in {"logs", "store"} => logs = chain[currentBlock]

\* An iteration goes past the top of the loop only with a retry left.
RetryLeft == pc \in {"query", "logs", "store"} => retry > 0

DepthInv == TypeOK /\ RetryLeft /\ ReadsFinalBlock /\ NoPhantomMessage

\* The events of the current block handled so far.
PrefixHandled ==
  /\ pc = "logs" => \A i \in 1 .. Len(logs) : i < idx => logs[i] \in routed \cup lost
  /\ pc = "store" => Handled(currentBlock)

\* Blocks below the current one, and blocks below the stored one, are final
\* and handled.
PassedHandled ==
  \A b \in Nat : StartBlock <= b /\ b < currentBlock => Final(b) /\ Handled(b)
StoredHandled ==
  \A b \in Nat : StartBlock <= b /\ b < stored => Final(b) /\ Handled(b)

CoverInv == DepthInv /\ PrefixHandled /\ PassedHandled /\ StoredHandled

-----------------------------------------------------------------------------
(* Types.                                                                  *)

\* The block a restart begins at is a block number in every mode.
LEMMA FirstBlockType ==
  ASSUME TypeOK, NEW mode \in StartModes
  PROVE  FirstBlock(mode) \in Nat
BY ConstantsAssumption DEF FirstBlock, TypeOK, Larger, Blocks

LEMMA InitTypeOK == Init => TypeOK
BY ConstantsAssumption DEF Init, TypeOK, Blocks, PCs

\* A block read from the chain is a sequence of deposits.
LEMMA NextTypeOK ==
  ASSUME DepthInv, [Next]_vars
  PROVE  TypeOK'
<1> TypeOK BY DEF DepthInv
<1> USE ConstantsAssumption DEF TypeOK, PCs
<1>1. CASE ProduceBlock
  BY <1>1 DEF ProduceBlock, Blocks
<1>2. CASE Reorg
  BY <1>2 DEF Reorg, Blocks
<1>3. CASE PollFatal
  BY <1>3 DEF PollFatal
<1>4. CASE PollLatest
  BY <1>4 DEF PollLatest, DeepEnough
<1>5. CASE PollLatestError \/ FilterLogsError \/ HandleError
  <2>1. retry > 0
    BY <1>5 DEF PollLatestError, FilterLogsError, HandleError, DepthInv,
                RetryLeft, RetriesExceeded
  <2> QED BY <2>1, <1>5 DEF PollLatestError, FilterLogsError, HandleError, Fail
<1>6. CASE FilterLogs
  BY <1>6 DEF FilterLogs, DepthInv, ReadsFinalBlock, Final
<1>7. CASE HandleDeposit
  BY <1>7 DEF HandleDeposit, Send
<1>8. CASE HandleGenericError
  BY <1>8 DEF HandleGenericError, Send
<1>9. CASE SkipUnknown
  BY <1>9 DEF SkipUnknown
<1>10. CASE LogsDone
  BY <1>10 DEF LogsDone
<1>11. CASE StoreBlock
  BY <1>11 DEF StoreBlock, BlockToStore, FollowingBlock
<1>12. CASE PollStop
  BY <1>12 DEF PollStop
<1>13. CASE Crash
  BY <1>13 DEF Crash
<1>14. CASE Restart
  BY <1>14, FirstBlockType DEF Restart, Blocks
<1>15. CASE UNCHANGED vars
  BY <1>15 DEF vars
<1> QED
  BY <1>1, <1>2, <1>3, <1>4, <1>5, <1>6, <1>7, <1>8, <1>9, <1>10, <1>11,
     <1>12, <1>13, <1>14, <1>15 DEF Next, Listen, Proceed

LEMMA NextRetryLeft ==
  ASSUME DepthInv, [Next]_vars
  PROVE  RetryLeft'
<1> TypeOK /\ RetryLeft BY DEF DepthInv
<1> USE ConstantsAssumption DEF RetryLeft, RetriesExceeded, TypeOK
<1>1. CASE ProduceBlock \/ Reorg
  BY <1>1 DEF ProduceBlock, Reorg
<1>2. CASE Listen
  BY <1>2 DEF Listen, Proceed, PollFatal, PollLatest, DeepEnough,
      PollLatestError, FilterLogs,
     FilterLogsError, HandleDeposit, HandleGenericError, HandleError, Fail,
     Send, SkipUnknown, LogsDone, StoreBlock, BlockToStore, FollowingBlock
<1>3. CASE PollStop \/ Crash \/ Restart
  BY <1>3 DEF PollStop, Crash, Restart
<1>4. CASE UNCHANGED vars
  BY <1>4 DEF vars
<1> QED BY <1>1, <1>2, <1>3, <1>4 DEF Next

-----------------------------------------------------------------------------
(* Final blocks.                                                           *)

\* No step of the chain changes a final block or makes it less deep.
LEMMA FinalStays ==
  ASSUME TypeOK, [Next]_vars, NEW b, Final(b)
  PROVE  Final(b)' /\ chain'[b] = chain[b]
<1> USE ConstantsAssumption DEF TypeOK, Final, Blocks
<1>1. CASE ProduceBlock
  BY <1>1 DEF ProduceBlock
<1>2. CASE Reorg
  BY <1>2 DEF Reorg
<1>3. CASE UNCHANGED <<head, chain>>
  BY <1>3
<1>4. CASE Listen
  BY <1>3, <1>4 DEF Listen, Proceed, PollFatal, PollLatest, DeepEnough,
      PollLatestError, FilterLogs,
     FilterLogsError, HandleDeposit, HandleGenericError, HandleError, Fail,
     Send, SkipUnknown, LogsDone, StoreBlock, BlockToStore, FollowingBlock
<1>5. CASE PollStop \/ Crash \/ Restart
  BY <1>3, <1>5 DEF PollStop, Crash, Restart
<1>6. CASE UNCHANGED vars
  BY <1>3, <1>6 DEF vars
<1> QED BY <1>1, <1>2, <1>4, <1>5, <1>6 DEF Next

\* The block an iteration works on passes the confirmation check, so it is
\* final, and FilterLogs returns what it holds for good.
LEMMA NextReadsFinalBlock ==
  ASSUME DepthInv, [Next]_vars
  PROVE  ReadsFinalBlock'
<1> TypeOK /\ ReadsFinalBlock BY DEF DepthInv
<1> USE ConstantsAssumption DEF ReadsFinalBlock
<1>1. CASE UNCHANGED <<pc, currentBlock, logs>>
  BY <1>1, FinalStays DEF Final
<1>2. CASE PollLatest
  BY <1>2, ConfirmationsCoverReorgs DEF PollLatest, DeepEnough, TypeOK,
      Final, Blocks
<1>3. CASE FilterLogs
  BY <1>3, FinalStays DEF FilterLogs, Final
<1>4. CASE SkipUnknown \/ LogsDone
  BY <1>4, FinalStays DEF SkipUnknown, LogsDone, Final
<1>5. CASE Fail \/ StoreBlock \/ PollFatal
  BY <1>5 DEF Fail, StoreBlock, PollFatal
<1>6. CASE Listen
  BY <1>1, <1>2, <1>3, <1>4, <1>5, <1>6 DEF Listen, Proceed, PollLatestError,
     FilterLogsError, HandleDeposit, HandleGenericError, HandleError, Send
<1>7. CASE ProduceBlock \/ Reorg
  BY <1>1, <1>7 DEF ProduceBlock, Reorg
<1>8. CASE PollStop \/ Crash \/ Restart
  BY <1>8 DEF PollStop, Crash, Restart
<1> QED BY <1>1, <1>6, <1>7, <1>8 DEF Next, vars

\* A message is routed for an event of a final block only.
LEMMA NextNoPhantomMessage ==
  ASSUME DepthInv, [Next]_vars
  PROVE  NoPhantomMessage'
<1> TypeOK /\ ReadsFinalBlock /\ NoPhantomMessage BY DEF DepthInv
<1> SUFFICES ASSUME NEW d \in routed' \cap Deposits
             PROVE  \E b \in Blocks : (b + ReorgDepth <= head)'
                                      /\ d \in LogsIn(chain'[b])
  BY DEF NoPhantomMessage
<1>1. CASE d \in routed
  <2>1. PICK b \in Blocks : b + ReorgDepth <= head /\ d \in LogsIn(chain[b])
    BY <1>1 DEF NoPhantomMessage
  <2>2. Final(b)
    BY <2>1 DEF Final
  <2>3. Final(b)' /\ chain'[b] = chain[b]
    BY <2>2, FinalStays
  <2> QED BY <2>1, <2>3 DEF Final
<1>2. CASE d \notin routed
  <2>1. HandleDeposit \/ HandleGenericError
    BY <1>2 DEF Next, Listen, Proceed, PollFatal, PollLatest, DeepEnough,
        PollLatestError, FilterLogs,
       FilterLogsError, HandleError, Fail, SkipUnknown, LogsDone, StoreBlock,
           BlockToStore,
       ProduceBlock, Reorg, PollStop, Crash, Restart, vars
  <2>2. pc = "logs" /\ idx <= Len(logs) /\ d = logs[idx]
    BY <1>2, <2>1, ConstantsAssumption DEF HandleDeposit, HandleGenericError,
        Send
  <2>3. PICK b \in Blocks : b = currentBlock
    BY <2>2 DEF ReadsFinalBlock, Final
  <2>4. Final(b) /\ d \in LogsIn(chain[b])
    BY <2>2, <2>3 DEF ReadsFinalBlock, LogsIn, TypeOK
  <2>5. Final(b)' /\ chain'[b] = chain[b]
    BY <2>4, FinalStays
  <2> QED BY <2>4, <2>5 DEF Final
<1> QED BY <1>1, <1>2

LEMMA InitDepthInv == Init => DepthInv
BY InitTypeOK DEF Init, DepthInv, RetryLeft, ReadsFinalBlock, NoPhantomMessage

LEMMA NextDepthInv == DepthInv /\ [Next]_vars => DepthInv'
BY NextTypeOK, NextRetryLeft, NextReadsFinalBlock, NextNoPhantomMessage
    DEF DepthInv

\* Every variable of the listener keeps its type in every run.
THEOREM TypeCorrect == Spec => []TypeOK
<1>1. DepthInv => TypeOK
  BY DEF DepthInv
<1> QED BY InitDepthInv, NextDepthInv, <1>1, PTL DEF Spec

\* pollBlocks with blockConfirmations no smaller than the deepest
\* reorganisation never routes a message for a deposit that can still
\* disappear from the source chain.
THEOREM RoutedIsFinal == Spec => []NoPhantomMessage
<1>1. DepthInv => NoPhantomMessage
  BY DEF DepthInv
<1> QED BY InitDepthInv, NextDepthInv, <1>1, PTL DEF Spec

-----------------------------------------------------------------------------
(* Coverage: no block is passed before all its deposits are handled.       *)

\* A final handled block stays so.
LEMMA HandledStays ==
  ASSUME TypeOK, [Next]_vars, NEW b, Final(b), Handled(b)
  PROVE  Final(b)' /\ Handled(b)'
<1>1. Final(b)' /\ chain'[b] = chain[b]
  BY FinalStays
<1>2. routed \subseteq routed' /\ lost \subseteq lost'
  BY DEF Next, Listen, Proceed, PollFatal, PollLatest, DeepEnough,
      PollLatestError, FilterLogs,
     FilterLogsError, HandleDeposit, HandleGenericError, HandleError, Fail,
     Send, SkipUnknown, LogsDone, StoreBlock, BlockToStore, ProduceBlock,
         Reorg, PollStop,
     Crash, Restart, vars
<1> QED BY <1>1, <1>2 DEF Handled

\* Handling event after event, or skipping the rest of a block, leaves no
\* event of the current block unaccounted for.
LEMMA NextPrefixHandled ==
  ASSUME CoverInv, [Next]_vars
  PROVE  PrefixHandled'
<1> DepthInv /\ TypeOK /\ ReadsFinalBlock /\ PrefixHandled
  BY DEF CoverInv, DepthInv
<1> USE ConstantsAssumption
<1>1. CASE UNCHANGED <<pc, currentBlock, logs, idx, routed, lost>>
  <2>1. CASE pc = "store"
    <3>1. PICK b \in Blocks : b = currentBlock
      BY <2>1 DEF ReadsFinalBlock, Final
    <3>2. Final(b) /\ Handled(b)
      BY <2>1, <3>1 DEF ReadsFinalBlock, PrefixHandled
    <3> QED BY <1>1, <2>1, <3>1, <3>2, HandledStays DEF PrefixHandled, Handled
  <2> QED BY <1>1, <2>1 DEF PrefixHandled
<1>2. CASE HandleDeposit \/ HandleGenericError
  <2>1. pc = "logs" /\ pc' = "logs" /\ logs' = logs /\ idx' = idx + 1
        /\ logs[idx] \in routed' \cup lost'
        /\ routed \subseteq routed' /\ lost \subseteq lost'
    BY <1>2 DEF HandleDeposit, HandleGenericError, Send
  <2>2. ASSUME NEW i \in 1 .. Len(logs), i < idx + 1
        PROVE  logs[i] \in routed' \cup lost'
    BY <2>1, <2>2 DEF PrefixHandled, TypeOK
  <2> QED BY <2>1, <2>2 DEF PrefixHandled
<1>3. CASE SkipUnknown
  BY <1>3 DEF SkipUnknown, PrefixHandled, ReadsFinalBlock, Handled, LogsIn,
      TypeOK
<1>4. CASE LogsDone
  BY <1>4 DEF LogsDone, PrefixHandled, ReadsFinalBlock, Handled, LogsIn, TypeOK
<1>5. CASE FilterLogs
  BY <1>5 DEF FilterLogs, PrefixHandled, TypeOK
<1>6. CASE Fail \/ StoreBlock \/ PollFatal \/ PollLatest
  BY <1>6 DEF Fail, StoreBlock, PollFatal, PollLatest, DeepEnough,
      PrefixHandled
<1>7. CASE ProduceBlock \/ Reorg
  BY <1>1, <1>7 DEF ProduceBlock, Reorg
<1>8. CASE PollStop \/ Crash \/ Restart
  BY <1>8 DEF PollStop, Crash, Restart, PrefixHandled
<1>9. CASE UNCHANGED vars
  BY <1>1, <1>9 DEF vars
<1> QED
  BY <1>2, <1>3, <1>4, <1>5, <1>6, <1>7, <1>8, <1>9 DEF Next, Listen, Proceed,
     PollLatestError, FilterLogsError, HandleError

\* The step to the next block comes after the block is handled, and a restart
\* that reads the blockstore goes back at least as far as the stored block.
LEMMA NextPassedHandled ==
  ASSUME CoverInv, [Next]_vars, "latest" \notin StartModes
  PROVE  PassedHandled'
<1> DepthInv /\ TypeOK /\ ReadsFinalBlock /\ PrefixHandled /\ PassedHandled
    /\ StoredHandled
  BY DEF CoverInv, DepthInv
<1> SUFFICES ASSUME NEW b \in Nat, StartBlock <= b, b < currentBlock'
             PROVE  Final(b)' /\ Handled(b)'
  BY DEF PassedHandled
<1> SUFFICES Final(b) /\ Handled(b)
  BY HandledStays
<1> USE ConstantsAssumption
<1>1. CASE currentBlock' = currentBlock
  BY <1>1 DEF PassedHandled
<1>2. CASE StoreBlock
  <2>1. b < currentBlock \/ b = currentBlock
    BY <1>2 DEF StoreBlock, BlockToStore, FollowingBlock, TypeOK
  <2> QED BY <1>2, <2>1 DEF StoreBlock, BlockToStore, FollowingBlock,
      PassedHandled, PrefixHandled, ReadsFinalBlock
<1>3. CASE Restart
  <2>1. PICK mode \in StartModes : currentBlock' = FirstBlock(mode)
    BY <1>3 DEF Restart
  <2>2. mode # "latest"
    OBVIOUS
  <2>3. b < stored
    BY <2>1, <2>2 DEF FirstBlock, Larger, TypeOK
  <2> QED BY <2>3 DEF StoredHandled, TypeOK
<1> QED
  BY <1>1, <1>2, <1>3 DEF Next, Listen, Proceed, PollFatal, PollLatest,
      DeepEnough, PollLatestError,
     FilterLogs, FilterLogsError, HandleDeposit, HandleGenericError,
     HandleError, Fail, Send, SkipUnknown, LogsDone, ProduceBlock, Reorg,
     PollStop, Crash, vars

\* The blockstore is written after the block is handled.
LEMMA NextStoredHandled ==
  ASSUME CoverInv, [Next]_vars
  PROVE  StoredHandled'
<1> DepthInv /\ TypeOK /\ ReadsFinalBlock /\ PrefixHandled /\ PassedHandled
    /\ StoredHandled
  BY DEF CoverInv, DepthInv
<1> SUFFICES ASSUME NEW b \in Nat, StartBlock <= b, b < stored'
             PROVE  Final(b)' /\ Handled(b)'
  BY DEF StoredHandled
<1> SUFFICES Final(b) /\ Handled(b)
  BY HandledStays
<1>1. CASE stored' = stored
  BY <1>1 DEF StoredHandled
<1>2. CASE StoreBlock /\ stored' = BlockToStore
  BY <1>2 DEF PassedHandled, BlockToStore
<1> QED
  BY <1>1, <1>2 DEF Next, Listen, Proceed, PollFatal, PollLatest, DeepEnough,
      PollLatestError,
     FilterLogs, FilterLogsError, HandleDeposit, HandleGenericError,
     HandleError, Fail, Send, SkipUnknown, LogsDone, StoreBlock,
         BlockToStore, ProduceBlock,
     Reorg, PollStop, Crash, Restart, vars

LEMMA InitCoverInv == Init => CoverInv
BY InitDepthInv, ConstantsAssumption DEF Init, CoverInv, PrefixHandled,
   PassedHandled, StoredHandled

LEMMA NextCoverInv ==
  ASSUME "latest" \notin StartModes
  PROVE  CoverInv /\ [Next]_vars => CoverInv'
BY NextDepthInv, NextPrefixHandled, NextPassedHandled, NextStoredHandled
    DEF CoverInv

\* Unless the operator restarts with --latest, every deposit of a block the
\* loop has passed was routed or dropped on one of the code's named paths.
THEOREM NothingSkipped ==
  ASSUME "latest" \notin StartModes
  PROVE  Spec => []NoDepositSkipped
<1>1. CoverInv => NoDepositSkipped
  BY DEF CoverInv, PassedHandled, NoDepositSkipped, Blocks
<1> QED BY InitCoverInv, NextCoverInv, <1>1, PTL DEF Spec

\* Unless the operator restarts with --latest, a crash at any point loses
\* nothing the listener had to read: the blockstore never runs ahead.
THEOREM ResumeIsSafe ==
  ASSUME "latest" \notin StartModes
  PROVE  Spec => []ResumeSkipsNothing
<1>1. CoverInv => ResumeSkipsNothing
  BY ConstantsAssumption DEF CoverInv, DepthInv, TypeOK, StoredHandled,
     ResumeSkipsNothing, FirstBlock, Larger, Blocks
<1> QED BY InitCoverInv, NextCoverInv, <1>1, PTL DEF Spec

-----------------------------------------------------------------------------
(* The abstract listener.                                                  *)

\* The deposits of the final blocks, as the refinement maps them.
Ledger == [b \in {c \in Blocks : c + ReorgDepth <= head} |-> LogsIn(chain[b])]

LEMMA LedgerOfFinal ==
  \A b : /\ b \in DOMAIN Ledger <=> Final(b)
         /\ Final(b) => Ledger[b] = LogsIn(chain[b])
BY DEF Ledger, Final

\* What is final stays in the ledger.
LEMMA LedgerGrows ==
  ASSUME TypeOK, [Next]_vars
  PROVE  /\ DOMAIN Ledger \subseteq DOMAIN Ledger'
         /\ \A b \in DOMAIN Ledger : Ledger'[b] = Ledger[b]
<1> SUFFICES ASSUME NEW b \in DOMAIN Ledger
             PROVE  b \in DOMAIN Ledger' /\ Ledger'[b] = Ledger[b]
  OBVIOUS
<1>1. Final(b) /\ Ledger[b] = LogsIn(chain[b])
  BY LedgerOfFinal
<1>2. Final(b)' /\ chain'[b] = chain[b]
  BY <1>1, FinalStays
<1>3. b \in {c \in Blocks : c + ReorgDepth <= head'}
  BY <1>2 DEF Final
<1>4. Ledger'[b] = LogsIn(chain'[b]) /\ b \in DOMAIN Ledger'
  BY <1>3 DEF Ledger, LogsIn
<1>5. QED BY <1>1, <1>2, <1>4

LEMMA IntakeStarts == Init => Intake!ListenerInit
<1> SUFFICES ASSUME Init PROVE Intake!ListenerInit
  OBVIOUS
<1>1. \A b \in DOMAIN Ledger : Ledger[b] = {}
  BY DEF Init, Ledger, LogsIn
<1>2. routed \cap Deposits = {}
  BY DEF Init
<1>3. QED BY <1>1, <1>2 DEF Init, Ledger, Intake!ListenerInit

\* Handling an event routes or drops its deposit, which is final.
LEMMA IntakeHandles ==
  ASSUME CoverInv, HandleDeposit \/ HandleGenericError \/ SkipUnknown
  PROVE  Intake!Route \/ Intake!Drop
<1>1. TypeOK /\ ReadsFinalBlock
  BY DEF CoverInv, DepthInv
<1>2. pc = "logs" /\ idx <= Len(logs) /\ UNCHANGED <<head, chain, currentBlock, stored>>
  BY DEF HandleDeposit, HandleGenericError, SkipUnknown, Send
<1>3. Final(currentBlock) /\ logs = chain[currentBlock]
  BY <1>1, <1>2 DEF ReadsFinalBlock
<1>4. \A j \in idx .. Len(logs) : logs[j] \in Ledger[currentBlock]
  <2>1. Ledger[currentBlock] = LogsIn(logs)
    BY <1>3, LedgerOfFinal
  <2>2. \A j \in idx .. Len(logs) : logs[j] \in LogsIn(logs)
    BY <1>1 DEF TypeOK, LogsIn
  <2>3. QED BY <2>1, <2>2
<1>5. idx \in idx .. Len(logs)
  BY <1>1, <1>2 DEF TypeOK
<1>6. Ledger' = Ledger /\ currentBlock \in DOMAIN Ledger
  BY <1>2, <1>3, LedgerOfFinal DEF Ledger, LogsIn
<1>7. EmptyMsg \notin Deposits
  BY ConstantsAssumption
<1>8. \/ /\ routed' = routed \cup {logs[idx]} /\ lost' = lost
      \/ /\ routed' \in {routed, routed \cup {EmptyMsg}}
         /\ \/ lost' = lost \cup {logs[idx]}
            \/ lost' = lost \cup {logs[j] : j \in idx .. Len(logs)}
  BY <1>1, <1>7 DEF HandleDeposit, HandleGenericError, SkipUnknown, Send, TypeOK
<1>9. CASE routed' = routed \cup {logs[idx]} /\ lost' = lost
  <2>1. /\ (routed' \cap Deposits) \ (routed \cap Deposits) \subseteq Ledger[currentBlock]
        /\ routed \cap Deposits \subseteq routed' \cap Deposits
    BY <1>4, <1>5, <1>9
  <2>2. Intake!Route
    BY <1>2, <1>6, <1>9, <2>1 DEF Ledger, Intake!Route, Intake!Final
  <2>3. QED BY <2>2
<1>10. CASE /\ routed' \in {routed, routed \cup {EmptyMsg}}
            /\ \/ lost' = lost \cup {logs[idx]}
               \/ lost' = lost \cup {logs[j] : j \in idx .. Len(logs)}
  <2>1. lost' \ lost \subseteq Ledger[currentBlock] /\ lost \subseteq lost'
    BY <1>4, <1>5, <1>10
  <2>2. routed' \cap Deposits = routed \cap Deposits
    BY <1>7, <1>10
  <2>3. Intake!Drop
    BY <1>2, <1>6, <2>1, <2>2 DEF Ledger, Intake!Drop, Intake!Final
  <2>4. QED BY <2>3
<1>11. QED BY <1>8, <1>9, <1>10

\* A block is stored and passed when it is finished.
LEMMA IntakePasses ==
  ASSUME CoverInv, StoreBlock
  PROVE  Intake!Pass
<1>1. TypeOK /\ ReadsFinalBlock /\ PrefixHandled
  BY DEF CoverInv, DepthInv
<1>2. /\ pc = "store" /\ currentBlock' = currentBlock + 1
      /\ stored' \in {stored, currentBlock}
      /\ UNCHANGED <<head, chain, routed, lost>>
  BY DEF StoreBlock, FollowingBlock, BlockToStore
<1>3. Final(currentBlock) /\ Handled(currentBlock)
  BY <1>1, <1>2 DEF ReadsFinalBlock, PrefixHandled
<1>4. /\ currentBlock \in DOMAIN Ledger /\ Ledger' = Ledger
      /\ Ledger[currentBlock] = LogsIn(chain[currentBlock])
  BY <1>2, <1>3, LedgerOfFinal DEF Ledger, LogsIn
<1>5. Ledger[currentBlock] \subseteq (routed \cap Deposits) \cup lost
  <2>1. chain[currentBlock] \in Seq(Deposits)
    BY <1>1, <1>3 DEF TypeOK, Final
  <2>2. LogsIn(chain[currentBlock]) \subseteq Deposits
    BY <2>1 DEF LogsIn
  <2>3. QED BY <1>3, <1>4, <2>2 DEF Handled
<1>6. QED
  BY <1>2, <1>4, <1>5 DEF Ledger, Intake!Pass, Intake!Final, Intake!Settled

\* The chain and the process go on, or the listener handles or passes a block.
LEMMA IntakeMoves ==
  ASSUME CoverInv, [Next]_vars, "latest" \notin StartModes
  PROVE  \/ Intake!ListenerNext
         \/ UNCHANGED <<Ledger, currentBlock, stored, routed, lost>>
<1>1. TypeOK
  BY DEF CoverInv, DepthInv
<1>2. CASE ProduceBlock \/ Reorg
  <2>1. UNCHANGED <<currentBlock, stored, routed, lost>>
    BY <1>2 DEF ProduceBlock, Reorg
  <2>2. Intake!Finalize
    BY <1>1, <2>1, LedgerGrows DEF Ledger, Intake!Finalize, Intake!intakeVars
  <2>3. QED BY <2>2 DEF Intake!ListenerNext
<1>3. CASE HandleDeposit \/ HandleGenericError \/ SkipUnknown
  BY <1>3, IntakeHandles DEF Intake!ListenerNext
<1>4. CASE StoreBlock
  BY <1>4, IntakePasses DEF Intake!ListenerNext
<1>5. CASE Restart
  <2>1. PICK mode \in StartModes : currentBlock' = FirstBlock(mode)
    BY <1>5 DEF Restart
  <2>2. currentBlock' = Larger(StartBlock, stored) \/ currentBlock' = StartBlock
    BY <2>1 DEF FirstBlock
  <2>3. \/ currentBlock' = StartBlock
        \/ currentBlock' = stored /\ stored >= StartBlock
    BY <1>1, <2>2, ConstantsAssumption DEF Larger, TypeOK
  <2>4. UNCHANGED <<head, chain, stored, routed, lost>>
    BY <1>5 DEF Restart
  <2>5. Ledger' = Ledger
    BY <2>4 DEF Ledger, LogsIn
  <2>6. Intake!Restart
    BY <2>3, <2>4, <2>5 DEF Ledger, Intake!Restart
  <2>7. QED BY <2>6 DEF Intake!ListenerNext
<1>6. CASE UNCHANGED <<head, chain, currentBlock, stored, routed, lost>>
  BY <1>6 DEF Ledger, LogsIn
<1>7. QED
  BY <1>2, <1>3, <1>4, <1>5, <1>6 DEF Next, Listen, Proceed, PollFatal,
     PollLatest, PollLatestError, FilterLogs, FilterLogsError, HandleError, Fail,
     LogsDone, PollStop, Crash, vars

\* Unless the operator restarts with --latest, the Ethereum listener implements
\* the abstract one: whatever fails, it routes and drops only deposits of the
\* final block at hand, goes to the next block only when it has handled each
\* deposit, and resumes at the configured block or at one it has noted.
THEOREM ListenerImplemented ==
  ASSUME "latest" \notin StartModes
  PROVE  Spec => ImplementsListener
<1>1. CoverInv /\ [Next]_vars =>
        [Intake!ListenerNext]_<<Ledger, currentBlock, stored, routed \cap Deposits,
                                lost>>
  BY IntakeMoves
<1>2. QED
  BY InitCoverInv, NextCoverInv, IntakeStarts, <1>1, PTL
     DEF Spec, ImplementsListener, Intake!ListenerSpec, Ledger
=============================================================================
