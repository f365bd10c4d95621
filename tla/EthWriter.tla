------------------------------ MODULE EthWriter ------------------------------
(***************************************************************************)
(* The Ethereum writers of several relayers on one destination chain:      *)
(* ResolveMessage (chains/ethereum/writer.go) and the create*Proposal,     *)
(* watchThenExecute, voteProposal and executeProposal methods it runs      *)
(* (writer_methods.go).  Every message is resolved in a goroutine of its   *)
(* own and starts a second goroutine that watches for the Passed event, so *)
(* every RPC read below may be stale by the time it is acted upon.         *)
(*                                                                         *)
(* The bridge contract, its transaction pool and its blocks are external:  *)
(* modelled from how the writer calls the contract and reads its events.   *)
(* The three create*Proposal methods differ only in how they encode the    *)
(* payload and are one set of actions here.                                *)
(***************************************************************************)
EXTENDS Integers, FiniteSets

CONSTANTS
  Relayers,
  Deposits,          \* a source chain and the nonce of a deposit on it
  Data,              \* what relayers may have read for a deposit
  Read,              \* Read[r]: the data relayer r reads for a deposit
  MaxDeliveries,     \* bound: times the router hands a relayer one message
  Thresholds,        \* how many votes the contract may need to pass a proposal
  Expiry,            \* blocks after which the contract cancels a proposal
  MaxBlock,          \* bound: the highest block; it stands for all later ones
  Confirmations,     \* cfg.blockConfirmations
  BlockRetryLimit,
  TxRetryLimit,
  WatchLimit,        \* ExecuteBlockWatchLimit
  Faults             \* what may go wrong: subset of FaultKinds

\* Failing queries, failing submissions (and gas or nonce look-ups before
\* them), transactions evicted from the pool, an operator cancelling expired
\* proposals, and processes stopped by a signal or killed.
FaultKinds == {"query", "submit", "evict", "cancel", "stop", "crash"}

ASSUME ConstantsAssumption ==
  /\ IsFiniteSet(Relayers)
  /\ Read \in [Relayers -> SUBSET Data]
  /\ MaxDeliveries \in Nat \ {0}
  /\ Thresholds \subseteq Nat \ {0}
  /\ Expiry \in Nat
  /\ MaxBlock \in Nat \ {0}
  /\ Confirmations \in Nat
  /\ BlockRetryLimit \in Nat \ {0}
  /\ TxRetryLimit \in Nat \ {0}
  /\ WatchLimit \in Nat \ {0}
  /\ Faults \subseteq FaultKinds

\* The contract counts votes for each deposit and hash of its data apart.  Two
\* data for one deposit are there when relayers read it on different forks of
\* the source chain.
Proposals == [deposit : Deposits, data : Data]
SameDeposit(p) == {q \in Proposals : q.deposit = p.deposit}

\* The proposal statuses of the contract; complete is what stops a vote, and
\* finalized is what stops an execution.
Statuses == {"Inactive", "Active", "Passed", "Executed", "Cancelled"}
Complete == {"Passed", "Executed", "Cancelled"}
Finalized == {"Executed", "Cancelled"}

\* The goroutine that resolves delivery k of p's message at relayer r, and the
\* goroutine it starts to watch for the event.
Goroutines ==
  {g \in [role : {"resolve", "watch"}, relayer : Relayers, prop : Proposals,
          delivery : 1 .. MaxDeliveries] : g.prop.data \in Read[g.relayer]}
WatcherOf(g) == [g EXCEPT !.role = "watch"]

VARIABLES
  threshold, \* votes the contract was deployed to need
  head,      \* number of the newest block
  status,    \* status[p]: status of proposal p in the contract
  voters,    \* voters[p]: the relayers whose vote the contract counted
  emitted,   \* emitted[p][s]: block of the ProposalEvent of p for s, or 0
  pool,      \* submitted transactions that are not mined
  process,   \* process[r]: "up", "stopping" once stop is closed, or "down"
  pc,        \* pc[g]: where goroutine g is
  tries,     \* tries[g]: failed attempts in the retry loop g is in
  from,      \* from[g]: the latest block captured before voting
  block,     \* block[g]: the block watchThenExecute looks at
  gaveUp     \* history: goroutines that left a proposal unexecuted

vars == <<threshold, head, status, voters, emitted, pool, process, pc, tries,
          from, block, gaveUp>>

Larger(a, b) == IF a > b THEN a ELSE b
Blocks == 0 .. MaxBlock
PCs == {"idle", "complete?", "voted?", "passed?", "latest", "vote",
        "voteFailed", "wait", "query", "execute", "executeFailed", "done"}

VoteTx(g) == [kind |-> "vote", sender |-> g]
ExecuteTx(g) == [kind |-> "execute", sender |-> g]
Transactions == [kind : {"vote", "execute"}, sender : Goroutines]

-----------------------------------------------------------------------------
(* The destination chain and its bridge contract.                          *)

Open(p) == status[p] \in {"Inactive", "Active"}
Expired(p, h) == h - emitted[p]["Active"] > Expiry

NewVoters(p, txs) ==
  {tx.sender.relayer : tx \in {t \in txs : t.kind = "vote" /\ t.sender.prop = p}}
    \ voters[p]

\* The sets of votes the contract may count in block h: those that come first
\* up to the threshold; the others revert.
Countable(p, txs, h) ==
  LET new == NewVoters(p, txs)
  IN  IF ~Open(p) \/ (status[p] = "Active" /\ Expired(p, h)) THEN {{}}
      ELSE {A \in SUBSET new :
              \/ A = new /\ Cardinality(voters[p] \cup A) <= threshold
              \/ Cardinality(voters[p] \cup A) = threshold}

\* The status of p after the votes in block h, in which txs were mined and
\* after which the relayers in vs have voted.
AfterVotes(p, txs, h, vs) ==
  IF status[p] = "Active" /\ Expired(p, h) /\ NewVoters(p, txs) # {}
  THEN "Cancelled"
  ELSE IF Open(p) /\ Cardinality(vs) >= threshold THEN "Passed"
  ELSE IF status[p] = "Inactive" /\ vs # {} THEN "Active"
  ELSE status[p]

\* An execution of a proposal that has not passed reverts; one that is mined
\* late in the block comes after the votes.
Executions(txs) == {t.sender.prop : t \in {x \in txs : x.kind = "execute"}}
StatusAfter(p, txs, h, vs, late) ==
  LET s == AfterVotes(p, txs, h, vs)
  IN  IF p \in Executions(txs) /\ s = "Passed" /\ (status[p] = "Passed" \/ p \in late)
      THEN "Executed" ELSE s

\* The statuses a proposal goes through in one block; each emits its event.
Emits(p, s) ==
  /\ status[p] # s
  /\ \/ status'[p] = s
     \/ s = "Active" /\ status[p] = "Inactive" /\ status'[p] \in {"Passed", "Executed"}
     \/ s = "Passed" /\ Open(p) /\ status'[p] = "Executed"

MineBlock(txs) ==
  LET h == IF head < MaxBlock THEN head + 1 ELSE MaxBlock IN
  /\ \E counted \in [Proposals -> SUBSET Relayers] :
       /\ \A p \in Proposals : counted[p] \in Countable(p, txs, h)
       /\ voters' = [p \in Proposals |-> voters[p] \cup counted[p]]
  /\ \E late \in SUBSET {p \in Executions(txs) : Open(p)} :
       status' = [p \in Proposals |-> StatusAfter(p, txs, h, voters'[p], late)]
  /\ emitted' = [p \in Proposals |-> [s \in Statuses |->
                   IF Emits(p, s) THEN h ELSE emitted[p][s]]]
  /\ head' = h
  /\ pool' = pool \ txs
  /\ UNCHANGED <<threshold, process, pc, tries, from, block, gaveUp>>

\* The contract lets an administrator cancel a proposal once it has expired.
AdminCancel(p) ==
  /\ "cancel" \in Faults
  /\ status[p] \in {"Active", "Passed"} /\ Expired(p, head)
  /\ status' = [status EXCEPT ![p] = "Cancelled"]
  /\ emitted' = [emitted EXCEPT ![p]["Cancelled"] = head]
  /\ UNCHANGED <<threshold, head, voters, pool, process, pc, tries, from,
                 block, gaveUp>>

\* A transaction is evicted from the pool; nobody waits for its receipt.
EvictTx(tx) ==
  /\ "evict" \in Faults
  /\ pool' = pool \ {tx}
  /\ gaveUp' = IF tx.kind = "execute" THEN gaveUp \cup {tx.sender} ELSE gaveUp
  /\ UNCHANGED <<threshold, head, status, voters, emitted, process, pc,
                 tries, from, block>>

-----------------------------------------------------------------------------
(* Steps of a goroutine.                                                   *)

At(g, label) == pc[g] = label /\ process[g.relayer] # "down"
Goto(g, label) ==
  /\ pc' = [pc EXCEPT ![g] = label]
  /\ UNCHANGED <<threshold, head, status, voters, emitted, pool, process,
                 tries, from, block, gaveUp>>

\* A top of a loop where the code first looks whether stop is closed.
Running(g) == process[g.relayer] = "up"

\* Goroutine g returns and will never submit an execution.
GiveUp(g) ==
  /\ pc' = [pc EXCEPT ![g] = "done"]
  /\ gaveUp' = gaveUp \cup {g}
  /\ UNCHANGED <<threshold, head, status, voters, emitted, pool, process,
                 tries, from, block>>

\* The error is sent on sysErr, upon which the core stops every chain.
Fatal(g) ==
  /\ pc' = [pc EXCEPT ![g] = "done"]
  /\ process' = [process EXCEPT ![g.relayer] = "stopping"]
  /\ gaveUp' = gaveUp \cup {g}
  /\ UNCHANGED <<threshold, head, status, voters, emitted, pool, tries, from,
                 block>>

OneTooMany(g, limit) == tries[g] < limit
AttemptsLeft(g, limit) == tries[g] + 1 < limit

\* One more attempt of a loop of at most limit has failed: go to label, or
\* report a fatal error when it was the last.
Retry(g, label, limit) ==
  IF AttemptsLeft(g, limit)
  THEN /\ tries' = [tries EXCEPT ![g] = @ + 1]
       /\ pc' = [pc EXCEPT ![g] = label]
       /\ UNCHANGED <<threshold, head, status, voters, emitted, pool,
                      process, from, block, gaveUp>>
  ELSE Fatal(g)

Submit(g, tx) ==
  /\ pool' = pool \cup {tx}
  /\ pc' = [pc EXCEPT ![g] = "done"]
  /\ UNCHANGED <<threshold, head, status, voters, emitted, process, tries,
                 from, block, gaveUp>>

\* Go to a loop with all its attempts left.
Enter(g, label) ==
  /\ pc' = [pc EXCEPT ![g] = label]
  /\ tries' = [tries EXCEPT ![g] = 0]
  /\ UNCHANGED <<threshold, head, status, voters, emitted, pool, process,
                 from, block, gaveUp>>

-----------------------------------------------------------------------------
(* ResolveMessage and create*Proposal.                                     *)

\* router.Send starts a goroutine for the message.  A message comes again when
\* the listener processes its block again, after an error or a restart.
Deliver(g) ==
  /\ g.role = "resolve" /\ At(g, "idle")
  /\ g.delivery > 1 => pc[[g EXCEPT !.delivery = @ - 1]] # "idle"
  /\ Goto(g, "complete?")

\* shouldVote, first part: proposalIsComplete, which is false on an RPC error.
CheckComplete(g) ==
  /\ At(g, "complete?")
  /\ \/ status[g.prop] \in Complete /\ Goto(g, "passed?")
     \/ status[g.prop] \notin Complete /\ Goto(g, "voted?")
     \/ "query" \in Faults /\ Goto(g, "voted?")

SomebodyVoted(g) == voters[g.prop] # {}
HasVoted(g) == g.relayer \in voters[g.prop]

\* shouldVote, second part: hasVoted, which is false on an RPC error.
CheckVoted(g) ==
  /\ At(g, "voted?")
  /\ \/ HasVoted(g) /\ Goto(g, "passed?")
     \/ ~HasVoted(g) /\ Goto(g, "latest")
     \/ "query" \in Faults /\ Goto(g, "latest")

\* Not voting: execute when the proposal is ready for it, else return false.
CheckPassed(g) ==
  /\ At(g, "passed?")
  /\ \/ status[g.prop] = "Passed" /\ Enter(g, "execute")
     \/ status[g.prop] # "Passed" /\ Goto(g, "done")
     \/ "query" \in Faults /\ Goto(g, "done")

AfterTheVote == head + Confirmations + 1
WatchStart == head

\* Capture the latest block, start the watcher from it, and only then vote.
StartWatch(g) ==
  /\ from' = [from EXCEPT ![WatcherOf(g)] = WatchStart]
  /\ block' = [block EXCEPT ![WatcherOf(g)] = WatchStart]
  /\ pc' = [pc EXCEPT ![g] = "vote", ![WatcherOf(g)] = "wait"]
  /\ UNCHANGED <<threshold, head, status, voters, emitted, pool, process,
                 tries, gaveUp>>

CaptureLatest(g) ==
  /\ At(g, "latest")
  /\ \/ StartWatch(g)
     \/ "query" \in Faults /\ Goto(g, "done")

-----------------------------------------------------------------------------
(* voteProposal: it returns once the node accepts the transaction.         *)

Vote(g) ==
  /\ At(g, "vote")
  /\ \/ ~Running(g) /\ Goto(g, "done")
     \/ Running(g) /\ Submit(g, VoteTx(g))
     \/ Running(g) /\ "submit" \in Faults /\ Goto(g, "voteFailed")
     \/ \* LockAndUpdateOpts failed: the next attempt without a look at the
        \* proposal.
        Running(g) /\ "submit" \in Faults /\ Retry(g, "vote", TxRetryLimit)

VoteFailed(g) ==
  /\ At(g, "voteFailed")
  /\ \/ status[g.prop] \in Complete /\ Goto(g, "done")
     \/ status[g.prop] \notin Complete /\ Retry(g, "vote", TxRetryLimit)
     \/ "query" \in Faults /\ Retry(g, "vote", TxRetryLimit)

-----------------------------------------------------------------------------
(* executeProposal, called by both kinds of goroutine.                     *)

Execute(g) ==
  /\ At(g, "execute")
  /\ \/ ~Running(g) /\ GiveUp(g)
     \/ Running(g) /\ Submit(g, ExecuteTx(g))
     \/ Running(g) /\ "submit" \in Faults /\ Goto(g, "executeFailed")
     \/ \* LockAndUpdateOpts failed: return without another attempt.
        Running(g) /\ "submit" \in Faults /\ GiveUp(g)

ExecuteFailed(g) ==
  /\ At(g, "executeFailed")
  /\ \/ status[g.prop] \in Finalized /\ Goto(g, "done")
     \/ status[g.prop] \notin Finalized /\ Retry(g, "execute", TxRetryLimit)
     \/ "query" \in Faults /\ Retry(g, "execute", TxRetryLimit)

-----------------------------------------------------------------------------
(* watchThenExecute.                                                       *)

NotWaiting(g) == block[g] < MaxBlock
\* The block is deep enough; the last one stands for all later ones and is
\* never complete.
BlockReady(g) == head - Confirmations >= block[g] /\ block[g] < MaxBlock

\* After stop, WaitForBlock returns an error, and the loop of the watcher ends
\* one way or the other.
WaitForBlock(g) ==
  /\ At(g, "wait")
  /\ \/ BlockReady(g) /\ Enter(g, "query")
     \/ "query" \in Faults /\ Retry(g, "wait", BlockRetryLimit)
     \/ ~Running(g) /\ GiveUp(g)

\* An event of the block matches: same source and nonce, whatever the data of
\* its proposal are, and a status in the given set.
EventOf(g, statuses) ==
  /\ block[g] # 0
  /\ \E p \in SameDeposit(g.prop) : \E s \in statuses : emitted[p][s] = block[g]

AtTheLatest(g) ==
  EventOf(g, {"Passed"}) \/ block[g] + 1 - from[g] >= WatchLimit
ExecutedEvent(g) == EventOf(g, {"Executed"})
PassedEvent(g) == EventOf(g, {"Passed"})

NextBlock(g) ==
  /\ block' = [block EXCEPT ![g] = @ + 1]
  /\ pc' = [pc EXCEPT ![g] = "wait"]
  /\ UNCHANGED <<threshold, head, status, voters, emitted, pool, process,
                 tries, from, gaveUp>>

\* A failed FilterLogs ends the watch, as does the last block of the limit.
QueryEvents(g) ==
  /\ At(g, "query")
  /\ \/ PassedEvent(g) /\ Enter(g, "execute")
     \/ /\ ~PassedEvent(g)
        /\ IF block[g] + 1 - from[g] < WatchLimit THEN NextBlock(g) ELSE GiveUp(g)
     \/ "query" \in Faults /\ GiveUp(g)

-----------------------------------------------------------------------------
(* The relayer process.                                                    *)

\* A signal reaches the core, which closes the stop channels.
Stop(r) ==
  /\ "stop" \in Faults /\ process[r] = "up"
  /\ process' = [process EXCEPT ![r] = "stopping"]
  /\ UNCHANGED <<threshold, head, status, voters, emitted, pool, pc, tries,
                 from, block, gaveUp>>

\* The process ends with all its goroutines, after a stop or by a crash.
Exit(r) ==
  LET live == {g \in Goroutines : g.relayer = r /\ pc[g] \notin {"idle",
      "done"}}
  IN  /\ process[r] = "stopping" \/ ("crash" \in Faults /\ process[r] = "up")
      /\ process' = [process EXCEPT ![r] = "down"]
      /\ pc' = [g \in Goroutines |-> IF g \in live THEN "done" ELSE pc[g]]
      /\ gaveUp' = gaveUp \cup live
      /\ UNCHANGED <<threshold, head, status, voters, emitted, pool, tries,
                     from, block>>

Restart(r) ==
  /\ process[r] = "down"
  /\ process' = [process EXCEPT ![r] = "up"]
  /\ UNCHANGED <<threshold, head, status, voters, emitted, pool, pc, tries,
                 from, block, gaveUp>>

-----------------------------------------------------------------------------
Init ==
  /\ threshold \in Thresholds
  /\ head = 0
  /\ status = [p \in Proposals |-> "Inactive"]
  /\ voters = [p \in Proposals |-> {}]
  /\ emitted = [p \in Proposals |-> [s \in Statuses |-> 0]]
  /\ pool = {}
  /\ process = [r \in Relayers |-> "up"]
  /\ pc = [g \in Goroutines |-> "idle"]
  /\ tries = [g \in Goroutines |-> 0]
  /\ from = [g \in Goroutines |-> 0]
  /\ block = [g \in Goroutines |-> 0]
  /\ gaveUp = {}

\* What goroutine g does next.
Step(g) ==
  \/ CheckComplete(g) \/ CheckVoted(g) \/ CheckPassed(g) \/ CaptureLatest(g)
  \/ Vote(g) \/ VoteFailed(g) \/ Execute(g) \/ ExecuteFailed(g)
  \/ WaitForBlock(g) \/ QueryEvents(g)

Next ==
  \/ \E g \in Goroutines : Deliver(g) \/ Step(g)
  \/ \E txs \in SUBSET pool : MineBlock(txs)
  \/ \E p \in Proposals : AdminCancel(p)
  \/ \E tx \in pool : EvictTx(tx)
  \/ \E r \in Relayers : Stop(r) \/ Exit(r) \/ Restart(r)

Spec == Init /\ [][Next]_vars

\* The Go scheduler runs every goroutine, blocks keep coming, and a
\* transaction that stays in the pool is mined.
FairSpec ==
  /\ Spec
  /\ \A g \in Goroutines : WF_vars(Step(g))
  /\ WF_vars(MineBlock(pool))

-----------------------------------------------------------------------------
(* Properties.                                                             *)

\* Every variable keeps its type.
TypeOK ==
  /\ threshold \in Thresholds
  /\ head \in Blocks
  /\ status \in [Proposals -> Statuses]
  /\ voters \in [Proposals -> SUBSET Relayers]
  /\ emitted \in [Proposals -> [Statuses -> Blocks]]
  /\ pool \subseteq Transactions
  /\ process \in [Relayers -> {"up", "stopping", "down"}]
  /\ pc \in [Goroutines -> PCs]
  /\ tries \in [Goroutines -> 0 .. Larger(TxRetryLimit, BlockRetryLimit) - 1]
  /\ from \in [Goroutines -> Blocks]
  /\ block \in [Goroutines -> Nat]
  /\ gaveUp \subseteq Goroutines

\* The writer executes on evidence only: when an execution is about to be or
\* has been submitted, its proposal has passed; or it comes from a watcher, to
\* which the Passed event of any data of the deposit is evidence enough.
Passed(p) == status[p] \in Complete /\ emitted[p]["Passed"] # 0
ExecuteOnlyPassed ==
  \A g \in Goroutines :
    pc[g] \in {"execute", "executeFailed"} \/ ExecuteTx(g) \in pool
      => \/ Passed(g.prop)
         \/ g.role = "watch" /\ \E p \in SameDeposit(g.prop) : Passed(p)

\* The watcher of g's relayer and proposal will still see the Passed event, is
\* executing, has submitted the execution, or has left by one of the paths on
\* which the code abandons a proposal.
WillExecute(g) ==
  \/ pc[g] \in {"wait", "query"} /\ block[g] <= emitted[g.prop]["Passed"]
  \/ pc[g] \in {"execute", "executeFailed"}
  \/ ExecuteTx(g) \in pool
  \/ g \in gaveUp

\* Other data of the same deposit have passed while g watched and before g's
\* own: their event ended the watch, and the execution came too early.
Misled(g) ==
  \E q \in SameDeposit(g.prop) :
    /\ emitted[q]["Passed"] # 0 /\ from[g] <= emitted[q]["Passed"]
    /\ \/ emitted[g.prop]["Passed"] = 0
       \/ emitted[q]["Passed"] < emitted[g.prop]["Passed"]

\* The watcher is started from a block captured before the vote is submitted,
\* so the event of the vote that passes the proposal cannot slip between the
\* two: as long as a proposal is passed and not executed, every relayer whose
\* vote was counted is on its way to execute it, or was misled by other data
\* for its deposit, which had passed before.
VotersWillExecute ==
  \A p \in Proposals : status[p] = "Passed" =>
    \A r \in voters[p] : \E g \in Goroutines :
      /\ g.role = "watch" /\ g.relayer = r /\ g.prop = p
      /\ WillExecute(g) \/ Misled(g)

\* A watcher that has left the blocks below its position behind has not
\* missed a Passed event of its deposit in any of them.
NoEventMissed ==
  \A g \in Goroutines : pc[g] \in {"wait", "query"} =>
    \A p \in SameDeposit(g.prop) :
      emitted[p]["Passed"] \notin (from[g] .. (block[g] - 1)) \ {0}

\* When enough relayers have received a message and nothing fails, its
\* proposal is decided.
DeliveredIsDecided ==
  \A p \in Proposals :
    (\E R \in SUBSET Relayers : Cardinality(R) >= threshold
       /\ \A r \in R : \E g \in Goroutines :
            g.role = "resolve" /\ g.relayer = r /\ g.prop = p /\ pc[g] # "idle")
      ~> status[p] \in Complete

\* A passed proposal is executed or cancelled, unless it passed so late that
\* the bound on blocks hides the event, or the watcher of each of its voters
\* was misled or had looked at its last block before.
PassedIsExecuted ==
  \A p \in Proposals :
    status[p] = "Passed" ~>
      \/ status[p] \in Finalized
      \/ emitted[p]["Passed"] + Larger(Confirmations, 1) > MaxBlock
      \/ \A r \in voters[p] : \E g \in Goroutines :
           /\ g.role = "watch" /\ g.relayer = r /\ g.prop = p /\ pc[g] # "idle"
           /\ Misled(g) \/ emitted[p]["Passed"] >= from[g] + WatchLimit

=============================================================================
