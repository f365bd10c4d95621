--------------------------- MODULE EthWriterProofs ---------------------------
(***************************************************************************)
(* Proofs about EthWriter for any relayers, deposits, data, threshold,     *)
(* limits and faults: types, that executions are submitted on the evidence *)
(* of a Passed status or event only, and that a relayer whose vote was     *)
(* counted is on its way to execute the proposal until it is final, unless *)
(* it gave up on one of the paths of the code or was misled by other data  *)
(* for the same deposit.                                                   *)
(***************************************************************************)
EXTENDS EthWriter, FiniteSetTheorems, TLAPS

-----------------------------------------------------------------------------
(* Goroutines.                                                             *)

\* The watcher goroutine g starts belongs to the same relayer and proposal.
LEMMA WatcherType ==
  ASSUME NEW g \in Goroutines
  PROVE  /\ WatcherOf(g) \in Goroutines
         /\ WatcherOf(g).role = "watch"
         /\ WatcherOf(g).relayer = g.relayer
         /\ WatcherOf(g).prop = g.prop
BY DEF WatcherOf, Goroutines

\* No two resolving goroutines start the same watcher.
LEMMA WatcherInjective ==
  ASSUME NEW g \in Goroutines, NEW h \in Goroutines,
         g.role = "resolve", h.role = "resolve", WatcherOf(g) = WatcherOf(h)
  PROVE  g = h
BY DEF WatcherOf, Goroutines

-----------------------------------------------------------------------------
(* Types.                                                                  *)

LEMMA InitTypeOK == Init => TypeOK
BY ConstantsAssumption DEF Init, TypeOK, Blocks, PCs, Statuses, Larger

\* A block of the chain keeps the types.
LEMMA MineBlockTypeOK ==
  ASSUME TypeOK, NEW txs \in SUBSET pool, MineBlock(txs)
  PROVE  TypeOK'
<1> USE ConstantsAssumption DEF TypeOK, Blocks
<1> DEFINE h == IF head < MaxBlock THEN head + 1 ELSE MaxBlock
<1>1. h \in Blocks
  OBVIOUS
<1>2. voters' \in [Proposals -> SUBSET Relayers]
  BY DEF MineBlock
<1>3. PICK late \in SUBSET Executions(txs) :
        status' = [p \in Proposals |-> StatusAfter(p, txs, h, voters'[p], late)]
  BY DEF MineBlock
<1>4. ASSUME NEW p \in Proposals
      PROVE  StatusAfter(p, txs, h, voters'[p], late) \in Statuses
  BY DEF StatusAfter, AfterVotes, Statuses
<1>5. emitted' = [p \in Proposals |-> [s \in Statuses |->
                    IF Emits(p, s) THEN h ELSE emitted[p][s]]]
  BY DEF MineBlock
<1>6. head' = h /\ pool' = pool \ txs
      /\ UNCHANGED <<threshold, process, pc, tries, from, block, gaveUp>>
  BY DEF MineBlock
<1> QED
  <2> HIDE DEF h
  <2> QED BY <1>1, <1>2, <1>3, <1>4, <1>5, <1>6

\* So does every helper a step of a goroutine ends with.
LEMMA HelperTypeOK ==
  ASSUME TypeOK, NEW g \in Goroutines, NEW label \in PCs,
         NEW limit \in {TxRetryLimit, BlockRetryLimit},
         \/ Goto(g, label) \/ Enter(g, label) \/ GiveUp(g)
         \/ Retry(g, label, limit) \/ Fatal(g)
         \/ Submit(g, VoteTx(g)) \/ Submit(g, ExecuteTx(g))
  PROVE  TypeOK'
<1> USE ConstantsAssumption DEF TypeOK, PCs
<1> g.relayer \in Relayers
  BY DEF Goroutines
<1>1. CASE Goto(g, label)
  BY <1>1 DEF Goto
<1>2. CASE Enter(g, label)
  BY <1>2 DEF Enter, Larger
<1>3. CASE GiveUp(g)
  BY <1>3 DEF GiveUp
<1>4. CASE Fatal(g)
  BY <1>4 DEF Fatal
<1>5. CASE Retry(g, label, limit) /\ ~Fatal(g)
  <2>1. tries[g] + 1 \in 0 .. Larger(TxRetryLimit, BlockRetryLimit) - 1
    BY <1>5 DEF Retry, AttemptsLeft, Larger
  <2> QED BY <1>5, <2>1 DEF Retry
<1>6. CASE Submit(g, VoteTx(g)) \/ Submit(g, ExecuteTx(g))
  <2>1. VoteTx(g) \in Transactions /\ ExecuteTx(g) \in Transactions
    BY DEF VoteTx, ExecuteTx, Transactions
  <2> QED BY <1>6, <2>1 DEF Submit
<1> QED BY <1>1, <1>2, <1>3, <1>4, <1>5, <1>6

LEMMA NextTypeOK == TypeOK /\ [Next]_vars => TypeOK'
<1> SUFFICES ASSUME TypeOK, [Next]_vars PROVE TypeOK'
  OBVIOUS
<1>1. CASE UNCHANGED vars
  BY <1>1 DEF vars, TypeOK
<1>2. ASSUME NEW g \in Goroutines, Deliver(g) \/ Step(g), ~CaptureLatest(g),
             ~QueryEvents(g)
      PROVE  TypeOK'
  BY <1>2, HelperTypeOK DEF PCs, Deliver, Step, CheckComplete, CheckVoted,
     CheckPassed, Vote, VoteFailed, Execute, ExecuteFailed, WaitForBlock
<1>3. ASSUME NEW g \in Goroutines, CaptureLatest(g)
      PROVE  TypeOK'
  <2>1. CASE StartWatch(g)
    BY <2>1, WatcherType, ConstantsAssumption DEF StartWatch, WatchStart,
        TypeOK, PCs, Blocks
  <2>2. CASE Goto(g, "done")
    BY <2>2, HelperTypeOK DEF PCs
  <2> QED BY <1>3, <2>1, <2>2 DEF CaptureLatest
<1>4. ASSUME NEW g \in Goroutines, QueryEvents(g)
      PROVE  TypeOK'
  <2>1. CASE NextBlock(g)
    BY <2>1 DEF NextBlock, TypeOK, PCs
  <2>2. CASE Enter(g, "execute") \/ GiveUp(g)
    BY <2>2, HelperTypeOK DEF PCs
  <2> QED BY <1>4, <2>1, <2>2 DEF QueryEvents
<1>5. ASSUME NEW txs \in SUBSET pool, MineBlock(txs)
      PROVE  TypeOK'
  BY <1>5, MineBlockTypeOK
<1>6. ASSUME NEW p \in Proposals, AdminCancel(p)
      PROVE  TypeOK'
  BY <1>6 DEF AdminCancel, TypeOK, Statuses
<1>7. ASSUME NEW tx \in pool, EvictTx(tx)
      PROVE  TypeOK'
  BY <1>7 DEF EvictTx, TypeOK, Transactions
<1>8. ASSUME NEW r \in Relayers, Stop(r) \/ Exit(r) \/ Restart(r)
      PROVE  TypeOK'
  BY <1>8 DEF Stop, Exit, Restart, TypeOK, PCs
<1> QED
  BY <1>1, <1>2, <1>3, <1>4, <1>5, <1>6, <1>7, <1>8 DEF Next

\* Every variable keeps its type in every run.
THEOREM TypeCorrect == Spec => []TypeOK
BY InitTypeOK, NextTypeOK, PTL DEF Spec

-----------------------------------------------------------------------------
(* The contract.                                                           *)

\* A proposal that is open has not emitted the Passed event, and one that is
\* passed has, in a block of the chain.
ContractInv ==
  \A p \in Proposals :
    /\ Open(p) => emitted[p]["Passed"] = 0
    /\ status[p] = "Passed" => emitted[p]["Passed"] # 0
    /\ emitted[p]["Passed"] <= head

\* What a step may do to proposal p as the relayers see it: the Passed event
\* is emitted once, in the newest block, and no status is taken back.
PassedOnce(p) ==
  /\ head <= head'
  /\ \/ emitted'[p]["Passed"] = emitted[p]["Passed"]
     \/ /\ emitted[p]["Passed"] = 0 /\ emitted'[p]["Passed"] = head'
        /\ Open(p) /\ head' # 0
        /\ head' = head + 1 \/ head' = MaxBlock
  /\ status[p] \in Complete => status'[p] \in Complete
  /\ status[p] \in Finalized => status'[p] \in Finalized

\* Everything but a new block and a cancellation leaves the contract alone.
LEMMA RelayersLeaveContract ==
  ASSUME [Next]_vars, ~(\E txs \in SUBSET pool : MineBlock(txs)),
         ~(\E p \in Proposals : AdminCancel(p))
  PROVE  UNCHANGED <<head, status, voters, emitted>>
BY DEF Next, vars, Deliver, Step, CheckComplete, CheckVoted, CheckPassed,
   CaptureLatest, StartWatch, Vote, VoteFailed, Execute, ExecuteFailed,
   WaitForBlock, QueryEvents, NextBlock, Goto, Enter, GiveUp, Fatal, Retry,
   Submit, EvictTx, Stop, Exit, Restart

\* The status of one proposal after a block.
LEMMA MineBlockStatus ==
  ASSUME TypeOK, NEW txs \in SUBSET pool, MineBlock(txs), NEW p \in Proposals
  PROVE  /\ head' = IF head < MaxBlock THEN head + 1 ELSE MaxBlock
         /\ status[p] \in Finalized => status'[p] = status[p]
         /\ status[p] = "Passed" => status'[p] \in {"Passed", "Executed"}
         /\ status'[p] \in Statuses
         /\ status[p] = "Passed"
              /\ (\E t \in txs : t.kind = "execute" /\ t.sender.prop = p)
              => status'[p] = "Executed"
         /\ emitted'[p]["Passed"] =
              IF Open(p) /\ status'[p] \in {"Passed", "Executed"}
              THEN head' ELSE emitted[p]["Passed"]
<1> DEFINE h == IF head < MaxBlock THEN head + 1 ELSE MaxBlock
<1>1. PICK late \in SUBSET Executions(txs) :
        status'[p] = StatusAfter(p, txs, h, voters'[p], late)
  BY DEF MineBlock
<1>2. head' = h /\ emitted'[p]["Passed"] =
                      IF Emits(p, "Passed") THEN h ELSE emitted[p]["Passed"]
  BY DEF MineBlock, Statuses
<1>3. status[p] \in Statuses
  BY DEF TypeOK
<1>4. (\E t \in txs : t.kind = "execute" /\ t.sender.prop = p)
        => p \in Executions(txs)
  BY DEF Executions
<1> QED
  BY <1>1, <1>2, <1>3, <1>4 DEF StatusAfter, AfterVotes, Open, Finalized, Statuses,
     Emits

LEMMA NextPassedOnce ==
  ASSUME TypeOK, ContractInv, [Next]_vars, NEW p \in Proposals
  PROVE  PassedOnce(p)
<1> USE ConstantsAssumption DEF PassedOnce
<1> status[p] \in Statuses /\ head \in Blocks
  BY DEF TypeOK
<1>1. CASE UNCHANGED <<head, status, voters, emitted>>
  BY <1>1 DEF Blocks
<1>2. CASE \E txs \in SUBSET pool : MineBlock(txs)
  <2>1. PICK txs \in SUBSET pool : MineBlock(txs)
    BY <1>2
  <2> QED
    BY <2>1, MineBlockStatus DEF ContractInv, Open, Complete, Finalized,
       Statuses, Blocks
<1>3. CASE \E q \in Proposals : AdminCancel(q)
  <2>1. PICK q \in Proposals : AdminCancel(q)
    BY <1>3
  <2> QED BY <2>1 DEF AdminCancel, TypeOK, Complete, Finalized, Statuses,
      Blocks
<1> QED BY <1>1, <1>2, <1>3, RelayersLeaveContract

LEMMA NextContractInv ==
  ASSUME TypeOK, ContractInv, [Next]_vars
  PROVE  ContractInv'
<1> SUFFICES ASSUME NEW p \in Proposals
             PROVE  /\ Open(p)' => emitted'[p]["Passed"] = 0
                    /\ status'[p] = "Passed" => emitted'[p]["Passed"] # 0
                    /\ emitted'[p]["Passed"] <= head'
  BY DEF ContractInv
<1> USE ConstantsAssumption
<1> status[p] \in Statuses /\ head \in Blocks /\ emitted[p]["Passed"] \in Blocks
  BY DEF TypeOK, Statuses
<1>1. CASE UNCHANGED <<head, status, voters, emitted>>
  BY <1>1 DEF ContractInv, Open
<1>2. CASE \E txs \in SUBSET pool : MineBlock(txs)
  <2>1. PICK txs \in SUBSET pool : MineBlock(txs)
    BY <1>2
  <2> QED
    BY <2>1, MineBlockStatus DEF ContractInv, Open, Finalized, Statuses, Blocks
<1>3. CASE \E q \in Proposals : AdminCancel(q)
  <2>1. PICK q \in Proposals : AdminCancel(q)
    BY <1>3
  <2> QED BY <2>1 DEF AdminCancel, ContractInv, TypeOK, Open, Statuses
<1> QED BY <1>1, <1>2, <1>3, RelayersLeaveContract

-----------------------------------------------------------------------------
(* Which goroutine does what.                                              *)

ResolvePCs == {"idle", "complete?", "voted?", "passed?", "latest", "vote",
               "voteFailed", "execute", "executeFailed", "done"}
WatchPCs == {"idle", "wait", "query", "execute", "executeFailed", "done"}

\* Watchers run watchThenExecute, the others create*Proposal; votes are
\* submitted by the latter.
RoleInv ==
  \A g \in Goroutines :
    /\ g.role = "watch" => pc[g] \in WatchPCs
    /\ g.role = "resolve" => pc[g] \in ResolvePCs
    /\ VoteTx(g) \in pool => g.role = "resolve"

LEMMA NextRoleInv ==
  ASSUME TypeOK, RoleInv, [Next]_vars
  PROVE  RoleInv'
<1> SUFFICES ASSUME NEW g \in Goroutines
             PROVE  /\ g.role = "watch" => pc'[g] \in WatchPCs
                    /\ g.role = "resolve" => pc'[g] \in ResolvePCs
                    /\ VoteTx(g) \in pool' => g.role = "resolve"
  BY DEF RoleInv, VoteTx
<1> USE DEF RoleInv, TypeOK
<1> g.role \in {"watch", "resolve"}
  BY DEF Goroutines
<1>1. CASE UNCHANGED pc /\ pool' \subseteq pool
  BY <1>1
<1>2. ASSUME NEW k \in Goroutines, Deliver(k) \/ Step(k), ~CaptureLatest(k),
             ~Vote(k), ~Execute(k)
      PROVE  pool' = pool
             /\ \/ pc'[g] = pc[g]
                \/ g = k /\ k.role = "watch" /\ pc'[g] \in WatchPCs
                \/ g = k /\ k.role = "resolve" /\ pc'[g] \in ResolvePCs
  BY <1>2 DEF Deliver, Step, CheckComplete, CheckVoted, CheckPassed,
      VoteFailed,
     ExecuteFailed, WaitForBlock, QueryEvents, NextBlock, Goto, Enter, GiveUp,
     Retry, Fatal, At, ResolvePCs, WatchPCs
<1>3. ASSUME NEW k \in Goroutines, CaptureLatest(k)
      PROVE  pool' = pool
             /\ \/ pc'[g] = pc[g]
                \/ g = k /\ k.role = "resolve" /\ pc'[g] \in ResolvePCs
                \/ g.role = "watch" /\ pc'[g] \in WatchPCs
  BY <1>3, WatcherType DEF CaptureLatest, StartWatch, Goto, At, ResolvePCs,
      WatchPCs
<1>4. ASSUME NEW k \in Goroutines, Vote(k) \/ Execute(k)
      PROVE  /\ \/ pc'[g] = pc[g]
                \/ pc'[g] \in ResolvePCs \cap WatchPCs
                \/ g = k /\ k.role = "resolve" /\ pc'[g] \in ResolvePCs
             /\ VoteTx(g) \in pool' =>
                  VoteTx(g) \in pool \/ (g = k /\ k.role = "resolve")
  <2>1. VoteTx(g) # ExecuteTx(k) /\ (VoteTx(g) = VoteTx(k) => g = k)
    BY DEF VoteTx, ExecuteTx
  <2>2. k.role \in {"watch", "resolve"}
    BY DEF Goroutines
  <2> QED
    BY <1>4, <2>1, <2>2 DEF Vote, Execute, Submit, Goto, GiveUp, Retry,
        Fatal, At,
       ResolvePCs, WatchPCs
<1>5. ASSUME NEW r \in Relayers, Exit(r)
      PROVE  pool' = pool /\ (pc'[g] = pc[g] \/ pc'[g] = "done")
  BY <1>5 DEF Exit
<1> QED
  <2>1. "done" \in ResolvePCs /\ "done" \in WatchPCs
    BY DEF ResolvePCs, WatchPCs
  <2>2. ASSUME NEW k \in Goroutines, Deliver(k) \/ Step(k)
        PROVE  /\ g.role = "watch" => pc'[g] \in WatchPCs
               /\ g.role = "resolve" => pc'[g] \in ResolvePCs
               /\ VoteTx(g) \in pool' => g.role = "resolve"
    BY <1>2, <1>3, <1>4, <2>2
  <2>3. CASE \E r \in Relayers : Exit(r)
    BY <1>5, <2>1, <2>3
  <2> QED
    BY <1>1, <2>2, <2>3 DEF Next, vars, MineBlock, AdminCancel, EvictTx,
        Stop, Restart

-----------------------------------------------------------------------------
(* Executions.                                                             *)

Executes(g) == pc[g] \in {"execute", "executeFailed"} \/ ExecuteTx(g) \in pool

\* A goroutine begins to execute when it finds the proposal passed, or when it
\* finds an event that matches.
LEMMA BeginsToExecute ==
  ASSUME TypeOK, [Next]_vars, NEW g \in Goroutines, Executes(g)'
  PROVE  \/ Executes(g)
         \/ /\ pc[g] = "passed?" /\ status[g.prop] = "Passed"
            /\ UNCHANGED <<head, status, emitted>>
         \/ /\ QueryEvents(g) /\ pc[g] = "query" /\ PassedEvent(g)
            /\ UNCHANGED <<head, status, emitted, from>>
<1> USE DEF Executes
<1> DEFINE Begins == \/ /\ pc[g] = "passed?" /\ status[g.prop] = "Passed"
                        /\ UNCHANGED <<head, status, emitted>>
                     \/ /\ QueryEvents(g) /\ pc[g] = "query" /\ PassedEvent(g)
                        /\ UNCHANGED <<head, status, emitted, from>>
<1>0. Executes(g)' <=> \/ pc'[g] \in {"execute", "executeFailed"}
                       \/ ExecuteTx(g) \in pool'
  BY DEF ExecuteTx
<1>1. SUFFICES ASSUME ~Executes(g) PROVE Begins
  OBVIOUS
<1>2. CASE UNCHANGED pc /\ pool' \subseteq pool
  BY <1>0, <1>1, <1>2
<1>3. ASSUME NEW k \in Goroutines, CheckPassed(k)
      PROVE  Begins
  BY <1>0, <1>1, <1>3 DEF CheckPassed, At, Enter, Goto, TypeOK
<1>4. ASSUME NEW k \in Goroutines, QueryEvents(k)
      PROVE  Begins
  <2>1. k = g /\ PassedEvent(g) /\ Enter(g, "execute")
    BY <1>0, <1>1, <1>4 DEF QueryEvents, NextBlock, Enter, GiveUp, TypeOK
  <2> QED BY <1>4, <2>1 DEF QueryEvents, At, Enter
<1>5. ASSUME NEW k \in Goroutines, Execute(k) \/ ExecuteFailed(k)
      PROVE  FALSE
  <2>1. ExecuteTx(k) = ExecuteTx(g) => k = g
    BY DEF ExecuteTx
  <2> QED
    BY <1>0, <1>1, <1>5, <2>1 DEF Execute, ExecuteFailed, At, Goto, GiveUp, Submit,
       Retry, Fatal, TypeOK
<1>6. ASSUME NEW k \in Goroutines, Vote(k)
      PROVE  FALSE
  <2>1. VoteTx(k) # ExecuteTx(g)
    BY DEF VoteTx, ExecuteTx
  <2> QED BY <1>0, <1>1, <1>6, <2>1 DEF Vote, Goto, Submit, Retry, Fatal, TypeOK
<1>7. ASSUME NEW k \in Goroutines, CaptureLatest(k)
      PROVE  FALSE
  BY <1>0, <1>1, <1>7 DEF CaptureLatest, StartWatch, Goto, TypeOK
<1>8. ASSUME NEW k \in Goroutines,
             \/ Deliver(k) \/ CheckComplete(k) \/ CheckVoted(k)
             \/ VoteFailed(k) \/ WaitForBlock(k)
      PROVE  FALSE
  BY <1>0, <1>1, <1>8 DEF Deliver, CheckComplete, CheckVoted, VoteFailed,
     WaitForBlock, Goto, Enter, GiveUp, Retry, Fatal, TypeOK
<1>9. ASSUME NEW r \in Relayers, Exit(r)
      PROVE  FALSE
  BY <1>0, <1>1, <1>9 DEF Exit
<1> QED
  <2>1. ASSUME NEW k \in Goroutines, Deliver(k) \/ Step(k)
        PROVE  Begins
    BY <1>3, <1>4, <1>5, <1>6, <1>7, <1>8, <2>1 DEF Step
  <2> QED
    BY <1>2, <1>9, <2>1 DEF Next, vars, MineBlock, AdminCancel, EvictTx, Stop,
       Restart

\* What a passed proposal and its event are once, they remain.
LEMMA PassedStays ==
  ASSUME TypeOK, ContractInv, [Next]_vars, NEW p \in Proposals, Passed(p)
  PROVE  Passed(p)'
BY NextPassedOnce DEF PassedOnce, Passed

\* An event of a proposal says that it is complete.
LEMMA EventMeansPassed ==
  ASSUME TypeOK, ContractInv, NEW p \in Proposals, emitted[p]["Passed"] # 0
  PROVE  Passed(p)
BY DEF TypeOK, ContractInv, Passed, Open, Complete, Statuses

LEMMA NextExecuteOnlyPassed ==
  ASSUME TypeOK, RoleInv, ContractInv, ExecuteOnlyPassed, [Next]_vars
  PROVE  ExecuteOnlyPassed'
<1> SUFFICES ASSUME NEW g \in Goroutines, Executes(g)'
             PROVE  \/ Passed(g.prop)'
                    \/ g.role = "watch"
                       /\ \E p \in SameDeposit(g.prop) : Passed(p)'
  BY DEF ExecuteOnlyPassed, Executes, ExecuteTx
<1>1. g.prop \in Proposals /\ SameDeposit(g.prop) \subseteq Proposals
      /\ g.role \in {"resolve", "watch"}
  BY DEF Goroutines, SameDeposit
<1>2. CASE Executes(g)
  <2>1. \/ Passed(g.prop)
        \/ g.role = "watch" /\ \E p \in SameDeposit(g.prop) : Passed(p)
    BY <1>2 DEF ExecuteOnlyPassed, Executes
  <2> QED BY <1>1, <2>1, PassedStays
<1>3. CASE status[g.prop] = "Passed" /\ UNCHANGED <<head, status, emitted>>
  <2>1. Passed(g.prop)
    BY <1>1, <1>3 DEF ContractInv, Passed, Complete
  <2> QED BY <1>1, <2>1, PassedStays
<1>4. CASE QueryEvents(g) /\ pc[g] = "query" /\ PassedEvent(g)
  <2>1. g.role = "watch"
    BY <1>1, <1>4 DEF RoleInv, ResolvePCs
  <2>2. PICK p \in SameDeposit(g.prop) : emitted[p]["Passed"] # 0
    BY <1>4 DEF PassedEvent, EventOf
  <2>3. Passed(p)
    BY <1>1, <2>2, EventMeansPassed
  <2> QED BY <1>1, <2>1, <2>3, PassedStays
<1> QED BY <1>2, <1>3, <1>4, BeginsToExecute

SafeInv == TypeOK /\ RoleInv /\ ContractInv /\ ExecuteOnlyPassed

LEMMA InitSafeInv == Init => SafeInv
BY InitTypeOK DEF Init, SafeInv, RoleInv, ResolvePCs, WatchPCs, ContractInv,
   ExecuteOnlyPassed, Statuses

LEMMA NextSafeInv == SafeInv /\ [Next]_vars => SafeInv'
BY NextTypeOK, NextRoleInv, NextContractInv, NextExecuteOnlyPassed DEF SafeInv

\* However stale its reads are and whatever fails, no relayer submits, or is
\* about to submit, an execution unless the proposal has passed, or a watcher
\* has seen the Passed event of data for the same deposit.
THEOREM ExecutionsAreJustified == Spec => []ExecuteOnlyPassed
<1>1. SafeInv => ExecuteOnlyPassed
  BY DEF SafeInv
<1> QED BY InitSafeInv, NextSafeInv, <1>1, PTL DEF Spec

-----------------------------------------------------------------------------
(* Watchers.                                                               *)

\* Where a watcher is relative to the chain.
PositionInv ==
  \A g \in Goroutines :
    /\ from[g] <= head
    /\ pc[g] = "wait" => from[g] <= block[g] /\ block[g] <= head + 1
                         /\ block[g] <= MaxBlock
    /\ pc[g] = "query" => from[g] <= block[g] /\ block[g] <= head
                          /\ block[g] < MaxBlock

\* A watcher has not gone past a Passed event of its deposit emitted since it
\* was started.
WaitInv ==
  \A g \in Goroutines : pc[g] \in {"wait", "query"} =>
    \A p \in SameDeposit(g.prop) :
      \/ emitted[p]["Passed"] = 0
      \/ emitted[p]["Passed"] < from[g]
      \/ block[g] <= emitted[p]["Passed"]

\* The steps of a goroutine that concern its waiting.
LEMMA WatchSteps ==
  ASSUME TypeOK, [Next]_vars, NEW g \in Goroutines
  PROVE  \/ /\ from'[g] = from[g] /\ block'[g] = block[g]
            /\ pc'[g] = pc[g] \/ pc'[g] \notin {"wait", "query"}
         \/ \E k \in Goroutines : /\ At(k, "latest") /\ StartWatch(k)
                                  /\ g = WatcherOf(k)
         \/ WaitForBlock(g)
         \/ QueryEvents(g)
<1> USE DEF TypeOK
<1> DEFINE Same == /\ from'[g] = from[g] /\ block'[g] = block[g]
                   /\ pc'[g] = pc[g] \/ pc'[g] \notin {"wait", "query"}
<1>1. CASE UNCHANGED <<pc, from, block>>
  BY <1>1
<1>2. ASSUME NEW k \in Goroutines, Deliver(k) \/ Step(k), ~CaptureLatest(k),
             ~WaitForBlock(k), ~QueryEvents(k)
      PROVE  Same
  BY <1>2 DEF Deliver, Step, CheckComplete, CheckVoted, CheckPassed, Vote,
     VoteFailed, Execute, ExecuteFailed, Goto, Enter, GiveUp, Retry, Fatal,
         Submit
<1>3. ASSUME NEW k \in Goroutines, CaptureLatest(k),
             ~(StartWatch(k) /\ g = WatcherOf(k))
      PROVE  Same
  <2>1. WatcherOf(k) \in Goroutines
    BY WatcherType
  <2> QED BY <1>3, <2>1 DEF CaptureLatest, StartWatch, Goto
<1>4. ASSUME NEW k \in Goroutines, WaitForBlock(k) \/ QueryEvents(k), k # g
      PROVE  Same
  BY <1>4 DEF WaitForBlock, QueryEvents, NextBlock, Enter, GiveUp, Retry, Fatal
<1>5. ASSUME NEW r \in Relayers, Exit(r)
      PROVE  Same
  BY <1>5 DEF Exit
<1> QED
  <2>1. ASSUME NEW k \in Goroutines, Deliver(k) \/ Step(k)
        PROVE  \/ Same
               \/ At(k, "latest") /\ StartWatch(k) /\ g = WatcherOf(k)
               \/ WaitForBlock(g)
               \/ QueryEvents(g)
    BY <1>2, <1>3, <1>4, <2>1 DEF CaptureLatest
  <2> QED
    BY <1>1, <1>5, <2>1 DEF Next, vars, MineBlock, AdminCancel, EvictTx,
        Stop, Restart

LEMMA NextPositionInv ==
  ASSUME TypeOK, ContractInv, PositionInv, [Next]_vars
  PROVE  PositionInv'
<1> SUFFICES ASSUME NEW g \in Goroutines
             PROVE  /\ from'[g] <= head'
                    /\ pc'[g] = "wait" => from'[g] <= block'[g]
                         /\ block'[g] <= head' + 1 /\ block'[g] <= MaxBlock
                    /\ pc'[g] = "query" => from'[g] <= block'[g]
                         /\ block'[g] <= head' /\ block'[g] < MaxBlock
  BY DEF PositionInv
<1> USE ConstantsAssumption DEF TypeOK, PositionInv, Blocks
<1>1. head <= head' /\ head' \in Blocks
  <2>1. g.prop \in Proposals
    BY DEF Goroutines
  <2> QED BY <2>1, NextPassedOnce, NextTypeOK DEF PassedOnce
<1>2. CASE /\ from'[g] = from[g] /\ block'[g] = block[g]
           /\ pc'[g] = pc[g] \/ pc'[g] \notin {"wait", "query"}
  BY <1>1, <1>2
<1>3. ASSUME NEW k \in Goroutines, StartWatch(k), g = WatcherOf(k)
      PROVE  from'[g] = head /\ block'[g] = head /\ head' = head
             /\ pc'[g] = "wait"
  BY <1>3 DEF StartWatch, WatchStart
<1>4. CASE WaitForBlock(g)
  BY <1>4 DEF WaitForBlock, BlockReady, At, Enter, GiveUp, Retry, Fatal
<1>5. CASE QueryEvents(g)
  BY <1>5 DEF QueryEvents, At, NextBlock, Enter, GiveUp
<1> QED BY <1>1, <1>2, <1>3, <1>4, <1>5, WatchSteps

LEMMA NextWaitInv ==
  ASSUME TypeOK, ContractInv, PositionInv, WaitInv, [Next]_vars
  PROVE  WaitInv'
<1> SUFFICES ASSUME NEW g \in Goroutines, pc'[g] \in {"wait", "query"},
                    NEW p \in SameDeposit(g.prop)
             PROVE  \/ emitted'[p]["Passed"] = 0
                    \/ emitted'[p]["Passed"] < from'[g]
                    \/ block'[g] <= emitted'[p]["Passed"]
  BY DEF WaitInv
<1> USE ConstantsAssumption DEF TypeOK, Blocks, Statuses
<1>1. p \in Proposals
  BY DEF SameDeposit
<1>2. PassedOnce(p)
  BY <1>1, NextPassedOnce
<1>3. CASE from'[g] = from[g] /\ block'[g] = block[g] /\ pc'[g] = pc[g]
  BY <1>1, <1>2, <1>3 DEF PassedOnce, WaitInv, PositionInv
<1>4. ASSUME NEW k \in Goroutines, StartWatch(k), g = WatcherOf(k)
      PROVE  from'[g] = head /\ block'[g] = head /\ emitted' = emitted
  BY <1>4 DEF StartWatch, WatchStart
<1>5. CASE WaitForBlock(g)
  BY <1>1, <1>5 DEF WaitForBlock, BlockReady, At, Enter, GiveUp, Retry,
      Fatal, WaitInv
<1>6. CASE QueryEvents(g)
  <2>1. pc[g] = "query" /\ ~PassedEvent(g) /\ NextBlock(g)
    BY <1>6 DEF QueryEvents, At, Enter, GiveUp
  <2>2. block'[g] = block[g] + 1 /\ from'[g] = from[g] /\ emitted' = emitted
    BY <2>1 DEF NextBlock
  <2>3. block[g] \in Nat /\ from[g] \in Nat /\ emitted[p]["Passed"] \in Nat
    BY <1>1
  <2>4. block[g] = 0 \/ emitted[p]["Passed"] # block[g]
    BY <2>1 DEF PassedEvent, EventOf
  <2>5. \/ emitted[p]["Passed"] = 0
        \/ emitted[p]["Passed"] < from[g]
        \/ block[g] <= emitted[p]["Passed"]
    BY <2>1 DEF WaitInv
  <2>6. \/ emitted[p]["Passed"] = 0
        \/ emitted[p]["Passed"] < from[g]
        \/ block[g] + 1 <= emitted[p]["Passed"]
    <3> HIDE DEF TypeOK, Blocks
    <3> QED BY <2>3, <2>4, <2>5
  <2> QED BY <2>2, <2>6
<1> QED BY <1>1, <1>3, <1>4, <1>5, <1>6, WatchSteps

\* A watcher is started exactly when its goroutine goes on to vote.
StartInv ==
  \A g \in Goroutines : g.role = "resolve" =>
    /\ pc[g] \in {"idle", "complete?", "voted?",
        "latest"} => pc[WatcherOf(g)] = "idle"
    /\ pc[g] \in {"vote", "voteFailed"} \/ VoteTx(g) \in pool
         => pc[WatcherOf(g)] # "idle"

\* A watcher executes on an event it has reached: one of its deposit, no older
\* than its watch, and not of the last block.
SeenInv ==
  \A g \in Goroutines : g.role = "watch" /\ Executes(g) =>
    /\ pc[g] # "idle"
    /\ \E p \in SameDeposit(g.prop) :
         emitted[p]["Passed"] # 0 /\ emitted[p]["Passed"] \in from[g] .. (MaxBlock - 1)

\* A started watcher waits, executes, has submitted, gave up, or was misled, as
\* long as the proposal is not final.
MisledBefore(g) ==
  \E p \in SameDeposit(g.prop) :
    /\ emitted[p]["Passed"] # 0 /\ emitted[p]["Passed"] \in from[g] .. (MaxBlock - 1)
    /\ \/ emitted[g.prop]["Passed"] = 0
       \/ emitted[p]["Passed"] < emitted[g.prop]["Passed"]
TrackInv ==
  \A g \in Goroutines : g.role = "watch" /\ pc[g] # "idle" =>
    \/ pc[g] \in {"wait", "query"} \/ Executes(g)
    \/ g \in gaveUp
    \/ status[g.prop] \in Finalized
    \/ MisledBefore(g)

\* A counted vote comes with a watcher started no later than the Passed event.
CountedInv ==
  \A p \in Proposals : \A r \in voters[p] : \E g \in Goroutines :
    /\ g.role = "watch" /\ g.relayer = r /\ g.prop = p /\ pc[g] # "idle"
    /\ emitted[p]["Passed"] = 0 \/ from[g] <= emitted[p]["Passed"]

\* Goroutines are not started twice.
LEMMA StartedStays ==
  ASSUME TypeOK, [Next]_vars, NEW g \in Goroutines, pc[g] # "idle"
  PROVE  pc'[g] # "idle"
<1> USE DEF TypeOK
<1>1. CASE UNCHANGED pc
  BY <1>1
<1>2. ASSUME NEW k \in Goroutines, Deliver(k) \/ Step(k)
      PROVE  pc'[g] # "idle"
  BY <1>2, WatcherType DEF Deliver, Step, CheckComplete, CheckVoted,
      CheckPassed,
     CaptureLatest, StartWatch, Vote, VoteFailed, Execute, ExecuteFailed,
     WaitForBlock, QueryEvents, NextBlock, Goto, Enter, GiveUp, Retry, Fatal,
     Submit
<1>3. ASSUME NEW r \in Relayers, Exit(r)
      PROVE  pc'[g] # "idle"
  BY <1>3 DEF Exit
<1> QED
  BY <1>1, <1>2, <1>3 DEF Next, vars, MineBlock, AdminCancel, EvictTx, Stop,
      Restart

LEMMA NextStartInv ==
  ASSUME TypeOK, RoleInv, StartInv, [Next]_vars
  PROVE  StartInv'
<1> SUFFICES ASSUME NEW g \in Goroutines, g.role = "resolve"
             PROVE  /\ pc'[g] \in {"idle", "complete?", "voted?", "latest"}
                         => pc'[WatcherOf(g)] = "idle"
                    /\ pc'[g] \in {"vote", "voteFailed"} \/ VoteTx(g) \in pool'
                         => pc'[WatcherOf(g)] # "idle"
  BY DEF StartInv, WatcherOf, VoteTx
<1> DEFINE w == WatcherOf(g)
           Before == {"idle", "complete?", "voted?", "latest"}
           Voting == {"vote", "voteFailed"}
<1>0. w \in Goroutines /\ w.role = "watch" /\ w # g
  BY WatcherType
<1>1. /\ pc[g] \in Before => pc[w] = "idle"
      /\ pc[g] \in Voting \/ VoteTx(g) \in pool => pc[w] # "idle"
  BY DEF StartInv
<1>2. pc[w] # "idle" => pc'[w] # "idle"
  BY <1>0, StartedStays
<1> SUFFICES /\ pc'[g] \in Before => pc'[w] = "idle"
             /\ pc'[g] \in Voting \/ VoteTx(g) \in pool' => pc'[w] # "idle"
  OBVIOUS
<1> HIDE DEF w
<1> USE DEF TypeOK
<1>3. CASE UNCHANGED pc /\ pool' \subseteq pool
  BY <1>1, <1>3
<1>4. ASSUME NEW k \in Goroutines, CaptureLatest(k)
      PROVE  /\ pc'[g] \in Before => pc'[w] = "idle"
             /\ pc'[g] \in Voting \/ VoteTx(g) \in pool' => pc'[w] # "idle"
  <2>1. k.role = "resolve"
    BY <1>4 DEF CaptureLatest, At, RoleInv, WatchPCs, Goroutines
  <2>2. CASE k = g
    BY <1>0, <1>1, <1>4, <2>2 DEF CaptureLatest, StartWatch, Goto, At, w
  <2>3. CASE k # g
    <3>1. WatcherOf(k) # w /\ WatcherOf(k) # g /\ k # w
      BY <1>0, <2>1, <2>3, WatcherInjective, WatcherType DEF w
    <3>2. pc'[g] = pc[g] /\ pc'[w] = pc[w] /\ pool' = pool
      BY <1>0, <1>4, <2>3, <3>1 DEF CaptureLatest, StartWatch, Goto
    <3> QED BY <1>1, <3>2
  <2> QED BY <2>2, <2>3
<1>5. ASSUME NEW k \in Goroutines, Deliver(k) \/ Step(k), ~CaptureLatest(k)
      PROVE  /\ pc'[g] \in Before => pc'[w] = "idle"
             /\ pc'[g] \in Voting \/ VoteTx(g) \in pool' => pc'[w] # "idle"
  <2>1. pc'[g] \in Before => pc[g] \in Before
    BY <1>5 DEF Deliver, Step, CheckComplete, CheckVoted, CheckPassed, Vote,
       VoteFailed, Execute, ExecuteFailed, WaitForBlock, QueryEvents,
           NextBlock,
       Goto, Enter, GiveUp, Retry, Fatal, Submit, At
  <2>2. pc'[g] \in Voting => pc[g] \in Voting
    BY <1>5 DEF Deliver, Step, CheckComplete, CheckVoted, CheckPassed, Vote,
       VoteFailed, Execute, ExecuteFailed, WaitForBlock, QueryEvents,
           NextBlock,
       Goto, Enter, GiveUp, Retry, Fatal, Submit, At
  <2>3. pc[w] = "idle" => pc'[w] = "idle"
    BY <1>0, <1>5 DEF Deliver, Step, CheckComplete, CheckVoted, CheckPassed,
        Vote,
       VoteFailed, Execute, ExecuteFailed, WaitForBlock, QueryEvents,
           NextBlock,
       Goto, Enter, GiveUp, Retry, Fatal, Submit, At
  <2>4. VoteTx(g) \in pool' => VoteTx(g) \in pool \/ pc[g] = "vote"
    <3>1. VoteTx(g) # ExecuteTx(k) /\ (VoteTx(g) = VoteTx(k) => g = k)
      BY DEF VoteTx, ExecuteTx
    <3> QED
      BY <1>5, <3>1 DEF Deliver, Step, CheckComplete, CheckVoted, CheckPassed,
         Vote, VoteFailed, Execute, ExecuteFailed, WaitForBlock, QueryEvents,
         NextBlock, Goto, Enter, GiveUp, Retry, Fatal, Submit, At
  <2> QED BY <1>1, <1>2, <2>1, <2>2, <2>3, <2>4
<1>6. ASSUME NEW r \in Relayers, Exit(r)
      PROVE  /\ pc'[g] \in Before => pc'[w] = "idle"
             /\ pc'[g] \in Voting \/ VoteTx(g) \in pool' => pc'[w] # "idle"
  BY <1>0, <1>1, <1>2, <1>6 DEF Exit
<1> QED
  BY <1>3, <1>4, <1>5, <1>6 DEF Next, vars, MineBlock, AdminCancel, EvictTx,
     Stop, Restart

\* A watcher keeps the block it was started from.
LEMMA FromStays ==
  ASSUME TypeOK, RoleInv, StartInv, [Next]_vars,
         NEW g \in Goroutines, g.role = "watch", pc[g] # "idle"
  PROVE  from'[g] = from[g] /\ pc'[g] # "idle"
<1>1. pc'[g] # "idle"
  BY StartedStays
<1>2. ~(\E k \in Goroutines : At(k, "latest") /\ g = WatcherOf(k))
  BY DEF StartInv, RoleInv, WatchPCs, At, Goroutines
<1>3. WaitForBlock(g) \/ QueryEvents(g) => from'[g] = from[g]
  BY DEF WaitForBlock, QueryEvents, NextBlock, Enter, GiveUp, Retry, Fatal
<1> QED BY <1>1, <1>2, <1>3, WatchSteps

LEMMA NextSeenInv ==
  ASSUME SafeInv, PositionInv, StartInv, SeenInv, [Next]_vars
  PROVE  SeenInv'
<1> TypeOK /\ RoleInv /\ ContractInv
  BY DEF SafeInv
<1> SUFFICES ASSUME NEW g \in Goroutines, g.role = "watch", Executes(g)'
             PROVE  /\ pc'[g] # "idle"
                    /\ \E p \in SameDeposit(g.prop) :
                         /\ emitted'[p]["Passed"] # 0
                         /\ emitted'[p]["Passed"] \in from'[g] .. (MaxBlock - 1)
  BY DEF SeenInv, Executes, ExecuteTx
<1>1. pc[g] # "idle" /\ \E p \in SameDeposit(g.prop) :
        emitted[p]["Passed"] # 0 /\ emitted[p]["Passed"] \in from[g] .. (MaxBlock - 1)
  <2>1. CASE Executes(g)
    BY <2>1 DEF SeenInv
  <2>2. CASE QueryEvents(g) /\ pc[g] = "query" /\ PassedEvent(g)
    <3>1. PICK p \in SameDeposit(g.prop) :
            block[g] # 0 /\ emitted[p]["Passed"] = block[g]
      BY <2>2 DEF PassedEvent, EventOf
    <3>2. from[g] <= block[g] /\ block[g] < MaxBlock
      BY <2>2 DEF PositionInv
    <3>3. from[g] \in Nat /\ block[g] \in Nat
      BY ConstantsAssumption DEF TypeOK, Blocks
    <3> QED BY <2>2, <3>1, <3>2, <3>3, ConstantsAssumption
  <2>3. pc[g] # "passed?"
    BY DEF RoleInv, WatchPCs
  <2> QED BY <2>1, <2>2, <2>3, BeginsToExecute
<1>2. PICK p \in SameDeposit(g.prop) :
        emitted[p]["Passed"] # 0 /\ emitted[p]["Passed"] \in from[g] .. (MaxBlock - 1)
  BY <1>1
<1>3. emitted'[p]["Passed"] = emitted[p]["Passed"]
  BY <1>2, NextPassedOnce DEF SameDeposit, PassedOnce
<1>4. from'[g] = from[g] /\ pc'[g] # "idle"
  BY <1>1, FromStays
<1> QED BY <1>2, <1>3, <1>4

\* The event that misled a watcher stays where it is, and an event of the
\* watcher's own proposal can only come in a later block.
LEMMA MisledStays ==
  ASSUME SafeInv, StartInv, [Next]_vars,
         NEW g \in Goroutines, g.role = "watch", pc[g] # "idle",
         NEW p \in SameDeposit(g.prop), emitted[p]["Passed"] # 0,
         emitted[p]["Passed"] \in from[g] .. (MaxBlock - 1),
         \/ emitted[g.prop]["Passed"] = 0
         \/ emitted[p]["Passed"] < emitted[g.prop]["Passed"]
  PROVE  MisledBefore(g)'
<1>0. TypeOK /\ RoleInv /\ ContractInv
  BY DEF SafeInv
<1>1. p \in Proposals /\ g.prop \in Proposals
  BY DEF SameDeposit, Goroutines
<1>2. from'[g] = from[g]
  BY <1>0, FromStays
<1>3. PassedOnce(p) /\ PassedOnce(g.prop)
  BY <1>0, <1>1, NextPassedOnce
<1>4. /\ from[g] \in Nat /\ head \in Nat /\ head' \in Nat /\ MaxBlock \in Nat
      /\ emitted[p]["Passed"] \in Nat /\ emitted[p]["Passed"] <= head
  BY <1>0, <1>1, NextTypeOK, ConstantsAssumption DEF TypeOK, Blocks, Statuses,
     ContractInv
<1>5. emitted'[p]["Passed"] = emitted[p]["Passed"]
  BY <1>3 DEF PassedOnce
<1>6. \/ emitted'[g.prop]["Passed"] = 0
      \/ emitted'[p]["Passed"] < emitted'[g.prop]["Passed"]
  BY <1>3, <1>4, <1>5 DEF PassedOnce
<1> QED BY <1>2, <1>5, <1>6 DEF MisledBefore

LEMMA NextTrackInv ==
  ASSUME SafeInv, StartInv, SeenInv, TrackInv, [Next]_vars
  PROVE  TrackInv'
<1> TypeOK /\ RoleInv /\ ContractInv
  BY DEF SafeInv
<1> SUFFICES ASSUME NEW g \in Goroutines, g.role = "watch", pc'[g] # "idle"
             PROVE  \/ pc'[g] \in {"wait", "query"} \/ Executes(g)'
                    \/ g \in gaveUp'
                    \/ status'[g.prop] \in Finalized
                    \/ MisledBefore(g)'
  BY DEF TrackInv
<1> DEFINE Active == {"wait", "query", "execute", "executeFailed"}
           Tracks == \/ pc[g] \in Active
                     \/ ExecuteTx(g) \in pool
                     \/ g \in gaveUp
           Tracked == \/ pc'[g] \in Active
                      \/ ExecuteTx(g) \in pool'
                      \/ g \in gaveUp'
           Over == status'[g.prop] \in Finalized \/ MisledBefore(g)'
<1>1. pc[g] # "idle" => Tracks \/ Over
  <2>1. status[g.prop] \in Finalized => status'[g.prop] \in Finalized
    BY NextPassedOnce DEF PassedOnce, Goroutines
  <2>2. pc[g] # "idle" /\ MisledBefore(g) => MisledBefore(g)'
    BY MisledStays DEF MisledBefore
  <2> QED BY <2>1, <2>2 DEF TrackInv, Executes
<1>2. SUFFICES ASSUME ~Over PROVE Tracked
  BY DEF Executes, ExecuteTx
<1>3. pc[g] # "idle" => Tracks
  BY <1>1, <1>2
<1> HIDE DEF Over
<1>4. CASE pc' = pc /\ pool' = pool /\ gaveUp' = gaveUp
  BY <1>3, <1>4
<1>5. ASSUME NEW txs \in SUBSET pool, MineBlock(txs)
      PROVE  Tracked
  <2>1. pc' = pc /\ gaveUp' = gaveUp /\ pool' = pool \ txs
    BY <1>5 DEF MineBlock
  <2>2. ASSUME ExecuteTx(g) \in pool, ExecuteTx(g) \notin pool'
        PROVE  Over
    <3>1. /\ ExecuteTx(g) \in txs /\ ExecuteTx(g).kind = "execute"
          /\ ExecuteTx(g).sender.prop = g.prop /\ g.prop \in Proposals
      BY <2>1, <2>2 DEF ExecuteTx, Goroutines
    <3>2. CASE status[g.prop] = "Passed"
      BY <1>5, <3>1, <3>2, MineBlockStatus DEF Finalized, Over
    <3>3. CASE status[g.prop] \in Finalized
      BY <1>5, <3>1, <3>3, MineBlockStatus DEF Over
    <3>4. CASE Open(g.prop)
      <4>1. emitted[g.prop]["Passed"] = 0
        BY <3>1, <3>4 DEF ContractInv
      <4>2. pc[g] # "idle" /\ \E p \in SameDeposit(g.prop) :
              /\ emitted[p]["Passed"] # 0
              /\ emitted[p]["Passed"] \in from[g] .. (MaxBlock - 1)
        BY <2>2 DEF SeenInv, Executes
      <4>3. MisledBefore(g)'
        BY <4>1, <4>2, MisledStays
      <4> QED BY <4>3 DEF Over
    <3> QED BY <3>1, <3>2, <3>3, <3>4 DEF TypeOK, Open, Finalized, Statuses
  <2> QED BY <1>2, <1>3, <2>1, <2>2
<1>6. ASSUME NEW tx \in pool, EvictTx(tx)
      PROVE  Tracked
  <2>1. CASE tx = ExecuteTx(g)
    BY <1>6, <2>1 DEF EvictTx, ExecuteTx
  <2> QED BY <1>3, <1>6, <2>1 DEF EvictTx
<1>7. ASSUME NEW k \in Goroutines, CaptureLatest(k)
      PROVE  Tracked
  <2>1. k # g
    BY <1>7 DEF CaptureLatest, At, RoleInv, WatchPCs
  <2>2. pool' = pool /\ gaveUp' = gaveUp
        /\ (pc'[g] = pc[g] \/ pc'[g] = "wait")
    BY <1>7, <2>1, WatcherType DEF CaptureLatest, StartWatch, Goto, TypeOK
  <2> QED BY <1>3, <2>2
<1>8. ASSUME NEW k \in Goroutines, Deliver(k) \/ Step(k), ~CaptureLatest(k), k # g
      PROVE  Tracked
  <2>1. pc'[g] = pc[g] /\ pool \subseteq pool' /\ gaveUp \subseteq gaveUp'
    BY <1>8 DEF Deliver, Step, CheckComplete, CheckVoted, CheckPassed, Vote,
       VoteFailed, Execute, ExecuteFailed, WaitForBlock, QueryEvents,
       NextBlock, Goto, Enter, GiveUp, Retry, Fatal, Submit, TypeOK
  <2> QED BY <1>3, <2>1
<1>9. CASE Deliver(g) \/ Step(g)
  <2>1. WaitForBlock(g) \/ QueryEvents(g) \/ Execute(g) \/ ExecuteFailed(g)
    BY <1>9 DEF RoleInv, WatchPCs, Deliver, Step, CheckComplete, CheckVoted,
       CheckPassed, CaptureLatest, Vote, VoteFailed, At
  <2>2. CASE WaitForBlock(g)
    BY <2>2 DEF WaitForBlock, Enter, Retry, Fatal, GiveUp, TypeOK
  <2>3. CASE QueryEvents(g)
    BY <2>3 DEF QueryEvents, NextBlock, Enter, GiveUp, TypeOK
  <2>4. CASE Execute(g)
    BY <2>4 DEF Execute, Goto, Submit, GiveUp, TypeOK
  <2>5. CASE ExecuteFailed(g)
    <3>1. status[g.prop] \notin Finalized \/ ~Goto(g, "done")
          \/ status'[g.prop] \in Finalized
      BY DEF Goto
    <3> QED BY <1>2, <2>5, <3>1 DEF ExecuteFailed, Goto, Retry, Fatal, TypeOK, Over
  <2> QED BY <2>1, <2>2, <2>3, <2>4, <2>5
<1>10. ASSUME NEW r \in Relayers, Exit(r)
       PROVE  Tracked
  BY <1>3, <1>10 DEF Exit
<1> QED
  BY <1>4, <1>5, <1>6, <1>7, <1>8, <1>9, <1>10 DEF Next, vars, AdminCancel,
     Stop, Restart

\* The vote of r on p was submitted after its watcher was started, and so is
\* counted in a block no earlier than the one the watcher begins with.
LEMMA NextCountedInv ==
  ASSUME SafeInv, PositionInv, StartInv, CountedInv, [Next]_vars
  PROVE  CountedInv'
<1> TypeOK /\ RoleInv /\ ContractInv
  BY DEF SafeInv
<1> SUFFICES ASSUME NEW p \in Proposals, NEW r \in voters'[p]
             PROVE  \E g \in Goroutines :
                      /\ g.role = "watch" /\ g.relayer = r /\ g.prop = p
                      /\ pc'[g] # "idle"
                      /\ \/ emitted'[p]["Passed"] = 0
                         \/ from'[g] <= emitted'[p]["Passed"]
  BY DEF CountedInv
<1>1. PassedOnce(p)
  BY NextPassedOnce
<1>2. ASSUME NEW g \in Goroutines, g.role = "watch", pc[g] # "idle"
      PROVE  from'[g] = from[g] /\ pc'[g] # "idle"
  BY <1>2, FromStays
<1>3. CASE r \in voters[p]
  <2>1. PICK g \in Goroutines :
          /\ g.role = "watch" /\ g.relayer = r /\ g.prop = p /\ pc[g] # "idle"
          /\ emitted[p]["Passed"] = 0 \/ from[g] <= emitted[p]["Passed"]
    BY <1>3 DEF CountedInv
  <2>2. from'[g] = from[g] /\ pc'[g] # "idle" /\ from[g] <= head
    BY <1>2, <2>1 DEF PositionInv
  <2>3. from[g] \in Nat /\ head \in Nat /\ emitted[p]["Passed"] \in Nat
    BY ConstantsAssumption DEF TypeOK, Blocks, Statuses
  <2>4. head' \in Nat
    BY NextTypeOK, ConstantsAssumption DEF TypeOK, Blocks
  <2>5. emitted'[p]["Passed"] = 0 \/ from'[g] <= emitted'[p]["Passed"]
    BY <1>1, <2>1, <2>2, <2>3, <2>4 DEF PassedOnce
  <2> QED BY <2>1, <2>2, <2>5
<1>4. CASE r \notin voters[p]
  <2>1. PICK txs \in SUBSET pool : MineBlock(txs)
    <3>1. ASSUME NEW q \in Proposals, AdminCancel(q)
          PROVE  FALSE
      BY <1>4, <3>1 DEF AdminCancel
    <3> QED BY <1>4, <3>1, RelayersLeaveContract
  <2>2. PICK counted \in [Proposals -> SUBSET Relayers] :
          /\ \A q \in Proposals :
               counted[q] \in Countable(q, txs,
                   IF head < MaxBlock THEN head + 1 ELSE MaxBlock)
          /\ voters' = [q \in Proposals |-> voters[q] \cup counted[q]]
    BY <2>1 DEF MineBlock
  <2>3. r \in counted[p]
    BY <1>4, <2>2
  <2>4. r \in NewVoters(p, txs) /\ Open(p)
    BY <2>2, <2>3 DEF Countable
  <2>5. PICK tx \in txs : tx.kind = "vote" /\ tx.sender.prop = p
                          /\ tx.sender.relayer = r
    BY <2>4 DEF NewVoters
  <2>6. PICK g \in Goroutines : tx.sender = g /\ tx = VoteTx(g)
    BY <2>1, <2>5 DEF TypeOK, Transactions, VoteTx
  <2>7. g.role = "resolve" /\ pc[WatcherOf(g)] # "idle"
    BY <2>1, <2>6 DEF RoleInv, StartInv
  <2>8. PICK w \in Goroutines : w = WatcherOf(g)
    BY WatcherType
  <2>9. w.role = "watch" /\ w.relayer = r /\ w.prop = p /\ pc[w] # "idle"
    BY <2>5, <2>6, <2>7, <2>8, WatcherType
  <2>10. from'[w] = from[w] /\ pc'[w] # "idle" /\ from[w] <= head
    BY <1>2, <2>9 DEF PositionInv
  <2>11. emitted[p]["Passed"] = 0
    BY <2>4 DEF ContractInv
  <2>12. from[w] \in Nat /\ head \in Nat /\ head' \in Nat
    BY NextTypeOK, ConstantsAssumption DEF TypeOK, Blocks
  <2>13. emitted'[p]["Passed"] = 0 \/ from'[w] <= emitted'[p]["Passed"]
    BY <1>1, <2>10, <2>11, <2>12 DEF PassedOnce
  <2> QED BY <2>9, <2>10, <2>13
<1> QED BY <1>3, <1>4

-----------------------------------------------------------------------------
(* The theorems about watchers.                                            *)

IInv == /\ SafeInv /\ PositionInv /\ WaitInv /\ StartInv /\ SeenInv
        /\ TrackInv /\ CountedInv

LEMMA InitIInv == Init => IInv
<1> SUFFICES ASSUME Init PROVE IInv
  OBVIOUS
<1>1. SafeInv
  BY InitSafeInv
<1>2. PositionInv /\ WaitInv /\ SeenInv /\ TrackInv /\ CountedInv
  BY ConstantsAssumption DEF Init, PositionInv, WaitInv, SeenInv, TrackInv,
     CountedInv, Executes
<1>3. StartInv
  BY WatcherType DEF Init, StartInv
<1> QED BY <1>1, <1>2, <1>3 DEF IInv

LEMMA NextIInv == IInv /\ [Next]_vars => IInv'
BY NextSafeInv, NextPositionInv, NextWaitInv, NextStartInv, NextSeenInv,
   NextTrackInv, NextCountedInv DEF IInv, SafeInv

\* As long as a proposal is passed and not final, the watcher of every relayer
\* whose vote was counted is still going to see the event, is executing, has
\* submitted its execution, gave up on one of the code's own paths, or was
\* misled by an earlier event of other data for the same deposit: voting after
\* the watcher is started closes the window between the two.
THEOREM VotersFollowThrough == Spec => []VotersWillExecute
<1>1. IInv => VotersWillExecute
  <2> SUFFICES ASSUME IInv, NEW p \in Proposals, status[p] = "Passed",
                      NEW r \in voters[p]
               PROVE  \E g \in Goroutines :
                        /\ g.role = "watch" /\ g.relayer = r /\ g.prop = p
                        /\ WillExecute(g) \/ Misled(g)
    BY DEF VotersWillExecute
  <2>1. PICK g \in Goroutines :
          /\ g.role = "watch" /\ g.relayer = r /\ g.prop = p /\ pc[g] # "idle"
          /\ emitted[p]["Passed"] = 0 \/ from[g] <= emitted[p]["Passed"]
    BY DEF IInv, CountedInv
  <2>2. emitted[p]["Passed"] # 0 /\ p \in SameDeposit(p)
    BY DEF IInv, SafeInv, ContractInv, SameDeposit
  <2>3. from[g] \in Nat /\ emitted[p]["Passed"] \in Nat
    BY ConstantsAssumption DEF IInv, SafeInv, TypeOK, Blocks, Statuses
  <2>4. pc[g] \in {"wait", "query"} => block[g] <= emitted[p]["Passed"]
    BY <2>1, <2>2, <2>3 DEF IInv, WaitInv
  <2>5. \/ pc[g] \in {"wait", "query", "execute", "executeFailed"}
        \/ ExecuteTx(g) \in pool
        \/ g \in gaveUp
        \/ MisledBefore(g)
    BY <2>1 DEF IInv, TrackInv, Executes, Finalized
  <2>6. MisledBefore(g) => Misled(g)
    BY <2>3, ConstantsAssumption DEF MisledBefore, Misled
  <2> QED BY <2>1, <2>4, <2>5, <2>6 DEF WillExecute
<1> QED BY InitIInv, NextIInv, <1>1, PTL DEF Spec

\* A watcher never leaves a Passed event of its deposit behind it: it steps
\* through the blocks one by one and queries each only when it is complete.
THEOREM WatchersMissNothing == Spec => []NoEventMissed
<1>1. IInv => NoEventMissed
  <2> SUFFICES ASSUME IInv, NEW g \in Goroutines, pc[g] \in {"wait", "query"},
                      NEW p \in SameDeposit(g.prop),
                      emitted[p]["Passed"] \in (from[g] .. (block[g] - 1)) \ {0}
               PROVE  FALSE
    BY DEF NoEventMissed
  <2>1. from[g] \in Nat /\ block[g] \in Nat
    BY ConstantsAssumption DEF IInv, SafeInv, TypeOK, Blocks
  <2> QED BY <2>1 DEF IInv, WaitInv
<1> QED BY InitIInv, NextIInv, <1>1, PTL DEF Spec

-----------------------------------------------------------------------------
(* Relayers that agree on the data of every deposit.                       *)

\* Nothing passes without a vote.
VotedInv == \A p \in Proposals : emitted[p]["Passed"] # 0 => voters[p] # {}

LEMMA NextVotedInv ==
  ASSUME TypeOK, ContractInv, VotedInv, [Next]_vars
  PROVE  VotedInv'
<1> SUFFICES ASSUME NEW p \in Proposals, emitted'[p]["Passed"] # 0
             PROVE  voters'[p] # {}
  BY DEF VotedInv
<1>1. voters[p] \subseteq voters'[p]
  <2>1. ASSUME NEW txs \in SUBSET pool, MineBlock(txs)
        PROVE  voters[p] \subseteq voters'[p]
    BY <2>1 DEF MineBlock
  <2>2. ASSUME NEW q \in Proposals, AdminCancel(q)
        PROVE  voters[p] \subseteq voters'[p]
    BY <2>2 DEF AdminCancel
  <2> QED BY <2>1, <2>2, RelayersLeaveContract
<1>2. CASE emitted[p]["Passed"] # 0
  BY <1>1, <1>2 DEF VotedInv
<1>3. CASE emitted[p]["Passed"] = 0
  <2>1. PICK txs \in SUBSET pool : MineBlock(txs)
    <3>1. ASSUME NEW q \in Proposals, AdminCancel(q)
          PROVE  FALSE
      BY <1>3, <3>1 DEF AdminCancel, TypeOK, Statuses
    <3> QED BY <1>3, <3>1, RelayersLeaveContract
  <2>2. Open(p) /\ status'[p] \in {"Passed", "Executed"}
    BY <1>3, <2>1, MineBlockStatus
  <2>3. PICK late \in SUBSET Executions(txs) :
          status'[p] = StatusAfter(p, txs,
                         IF head < MaxBlock THEN head + 1 ELSE MaxBlock,
                         voters'[p], late)
    BY <2>1 DEF MineBlock
  <2>4. threshold \in Nat \ {0}
    BY ConstantsAssumption DEF TypeOK
  <2>5. Cardinality(voters'[p]) >= threshold
    BY <2>2, <2>3, <2>4 DEF StatusAfter, AfterVotes, Open
  <2> QED BY <2>4, <2>5, FS_EmptySet
<1> QED BY <1>2, <1>3

\* When all relayers read the same data for a deposit, whoever executes
\* executes a proposal that has passed, and nobody is misled.
THEOREM OneDataExecutesOwn ==
  ASSUME NEW d \in Data, \A r \in Relayers : Read[r] \subseteq {d}
  PROVE  Spec => [](\A g \in Goroutines :
                      (Executes(g) => Passed(g.prop)) /\ ~Misled(g))
<1> DEFINE Own == \A g \in Goroutines :
                    (Executes(g) => Passed(g.prop)) /\ ~Misled(g)
<1>1. IInv /\ VotedInv => Own
  <2> SUFFICES ASSUME IInv, VotedInv, NEW g \in Goroutines
               PROVE  (Executes(g) => Passed(g.prop)) /\ ~Misled(g)
    OBVIOUS
  <2>1. g.prop \in Proposals /\ g.prop.data = d
    BY DEF Goroutines
  <2>2. ASSUME NEW p \in SameDeposit(g.prop), emitted[p]["Passed"] # 0
        PROVE  p = g.prop
    <3>1. p \in Proposals /\ p.deposit = g.prop.deposit
      BY DEF SameDeposit
    <3>2. PICK r \in Relayers : r \in voters[p]
      BY <2>2, <3>1 DEF VotedInv, IInv, SafeInv, TypeOK
    <3>3. PICK h \in Goroutines : h.prop = p
      BY <3>1, <3>2 DEF IInv, CountedInv
    <3>4. p.data = d
      BY <3>3 DEF Goroutines
    <3> QED BY <2>1, <3>1, <3>4 DEF Proposals
  <2>3. Executes(g) => Passed(g.prop)
    BY <2>2 DEF IInv, SafeInv, ExecuteOnlyPassed, Executes, Passed
  <2>4. ~Misled(g)
    <3>1. emitted[g.prop]["Passed"] \in Nat
      BY <2>1, ConstantsAssumption DEF IInv, SafeInv, TypeOK, Blocks, Statuses
    <3> QED BY <2>2, <3>1 DEF Misled
  <2> QED BY <2>3, <2>4
<1>2. Init => VotedInv
  BY DEF Init, VotedInv, Statuses
<1>3. IInv /\ VotedInv /\ [Next]_vars => VotedInv'
  BY NextVotedInv DEF IInv, SafeInv
<1> QED BY InitIInv, NextIInv, <1>1, <1>2, <1>3, PTL DEF Spec
=============================================================================
