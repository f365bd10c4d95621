------------------------------- MODULE Delivery -------------------------------
(***************************************************************************)
(* A bridge from end to end: the deposits of a source chain, the listeners *)
(* and writers of several relayer processes that do not talk to each       *)
(* other, and the bridge contract of the destination chain, where they     *)
(* meet.  Processes crash and start again from their blockstores, read     *)
(* some deposits twice and lose others.                                    *)
(*                                                                         *)
(* The contract keeps one proposal for each nonce AND data: two relayers   *)
(* that had read different deposits with the same nonce, on two forks of   *)
(* the source chain, could have both of them executed.  That they never do *)
(* is a matter of what each relayer reads (blockConfirmations).            *)
(*                                                                         *)
(* A relayer is coarser here than in EthListener and EthWriter: it reads   *)
(* and routes a block in one step, and its transactions are in the         *)
(* contract at once.  The contract and both chains are external.           *)
(***************************************************************************)
EXTENDS Integers, Sequences, FiniteSets

CONSTANTS
  Relayers,
  Data,             \* what deposits are about: token, amount, recipient
  NoDeposit,        \* a block without a deposit
  MaxBlock,         \* bound: the length of the source chain
  ReorgDepth,       \* the chain replaces at most this many of its newest blocks
  Confirmations,    \* cfg.blockConfirmations
  Threshold,        \* votes the contract needs to pass a proposal
  MaxCrashes,       \* bound: crashes of all relayers together
  Faults            \* what may go wrong: subset of FaultKinds

\* A blockstore that is not written, a message or a watch that is given up, a
\* restart with --fresh, an administrator who cancels an expired proposal.
FaultKinds == {"store", "abandon", "fresh", "cancel"}

ASSUME ConstantsAssumption ==
  /\ IsFiniteSet(Relayers)
  /\ NoDeposit \notin Data
  /\ MaxBlock \in Nat
  /\ ReorgDepth \in Nat
  /\ Confirmations \in Nat
  /\ Threshold \in Nat \ {0}
  /\ MaxCrashes \in Nat
  /\ Faults \subseteq FaultKinds

\* What the operators rely on when choosing blockConfirmations.
ASSUME ConfirmationsCoverReorgs == ReorgDepth <= Confirmations

Nonces == 1 .. MaxBlock
Messages == [nonce : Nonces, data : Data]
Blocks == [data : Data \cup {NoDeposit}, nonce : 0 .. MaxBlock]

VARIABLES
  chain,       \* the source chain: what a block deposits, and the count so far
  up,          \* up[r]: the process of relayer r runs
  cursor,      \* cursor[r]: the block its listener is at
  routed,      \* routed[r]: that block has been routed but not stored
  stored,      \* stored[r]: the block in its blockstore file, or 0
  voting,      \* voting[r]: messages its writer has yet to vote on
  watching,    \* watching[r]: messages it waits for the Passed event of
  votes,       \* votes[m]: relayers whose vote the contract has counted
  cancelled,   \* proposals the contract has cancelled
  executions,  \* executions[n]: the data the contract executed for nonce n
  crashes,     \* crashes so far
  lostBy       \* history, lostBy[m]: relayers that no longer work on m

relayerVars == <<up, cursor, routed, stored, voting, watching>>
contractVars == <<votes, cancelled, executions>>
vars == <<chain, up, cursor, routed, stored, voting, watching, votes,
          cancelled, executions, crashes, lostBy>>

-----------------------------------------------------------------------------
(* The source chain.                                                       *)

CountAt(b) == IF b = 0 THEN 0 ELSE chain[b].nonce

\* The block that follows block b and deposits d, if that is a deposit.
After(b, d) ==
  [data |-> d, nonce |-> IF d = NoDeposit THEN CountAt(b) ELSE CountAt(b) + 1]

ProduceBlock ==
  /\ Len(chain) < MaxBlock
  /\ \E d \in Data \cup {NoDeposit} :
       chain' = Append(chain, After(Len(chain), d))
  /\ UNCHANGED <<relayerVars, contractVars, crashes, lostBy>>

\* The blocks from b on are replaced: b by one with another deposit or none,
\* the others by empty ones.
Reorg ==
  /\ \E b \in 1 .. Len(chain), d \in Data \cup {NoDeposit} :
       /\ Len(chain) - ReorgDepth < b
       /\ chain' = [i \in 1 .. Len(chain) |->
                      IF i < b THEN chain[i]
                      ELSE IF i = b THEN After(b - 1, d)
                      ELSE [data |-> NoDeposit, nonce |-> After(b - 1, d).nonce]]
  /\ UNCHANGED <<relayerVars, contractVars, crashes, lostBy>>

-----------------------------------------------------------------------------
(* The bridge contract of the destination chain.                           *)

Executed(m) == \E i \in DOMAIN executions[m.nonce] : executions[m.nonce][i] = m.data
Finalized(m) == Executed(m) \/ m \in cancelled
Decided(m) == Cardinality(votes[m]) >= Threshold
Passed(m) == Decided(m) /\ ~Finalized(m)
Complete(m) == Decided(m) \/ Finalized(m)

\* An administrator cancels a proposal that has expired; when it does is left
\* open here.
Cancel(m) ==
  /\ "cancel" \in Faults
  /\ votes[m] # {} /\ ~Finalized(m)
  /\ cancelled' = cancelled \cup {m}
  /\ UNCHANGED <<chain, relayerVars, votes, executions, crashes, lostBy>>

-----------------------------------------------------------------------------
(* The listener of relayer r.                                              *)

OneBlockEarly(b) == Len(chain) - b >= Confirmations - 1 /\ b <= Len(chain)
OneBlockLate(b) == Len(chain) - b > Confirmations
DeepEnough(b) == Len(chain) - b >= Confirmations
MessageIn(b) == [nonce |-> chain[b].nonce, data |-> chain[b].data]

\* The listener reads its block once it is deep enough and hands the deposit
\* to the router, which starts a goroutine of the writer.
Route(r) ==
  /\ up[r] /\ ~routed[r] /\ DeepEnough(cursor[r])
  /\ routed' = [routed EXCEPT ![r] = TRUE]
  /\ IF chain[cursor[r]].data = NoDeposit
     THEN UNCHANGED <<voting, lostBy>>
     ELSE LET m == MessageIn(cursor[r])
          IN  /\ voting' = [voting EXCEPT ![r] = @ \cup {m}]
              /\ lostBy' = [lostBy EXCEPT ![m] = @ \ {r}]
  /\ UNCHANGED <<chain, up, cursor, stored, watching, contractVars, crashes>>

\* It writes the blockstore, whose errors are only logged, and goes on.
StoreBlock(r) ==
  /\ up[r] /\ routed[r]
  /\ \/ stored' = [stored EXCEPT ![r] = cursor[r]]
     \/ "store" \in Faults /\ stored' = stored
  /\ cursor' = [cursor EXCEPT ![r] = @ + 1]
  /\ routed' = [routed EXCEPT ![r] = FALSE]
  /\ UNCHANGED <<chain, up, voting, watching, contractVars, crashes, lostBy>>

-----------------------------------------------------------------------------
(* The writer of relayer r: one step of a goroutine for message m.         *)

HasVoted(r, m) == r \in votes[m]
ShouldVote(r, m) == ~Complete(m) /\ ~HasVoted(r, m)

\* Before it votes it starts a watcher, which waits for the Passed event.
Watch(r, m) ==
  /\ m \in voting[r] \ watching[r] /\ ShouldVote(r, m)
  /\ watching' = [watching EXCEPT ![r] = @ \cup {m}]
  /\ UNCHANGED <<chain, up, cursor, routed, stored, voting, contractVars,
                 crashes, lostBy>>

\* The contract counts the vote, or refuses it because others have decided the
\* proposal meanwhile.
Vote(r, m) ==
  /\ m \in voting[r] \cap watching[r]
  /\ votes' = [votes EXCEPT ![m] = IF ShouldVote(r, m) THEN @ \cup {r} ELSE @]
  /\ voting' = [voting EXCEPT ![r] = @ \ {m}]
  /\ UNCHANGED <<chain, up, cursor, routed, stored, watching, cancelled,
                 executions, crashes, lostBy>>

\* There is nothing to vote on: it goes straight to the execution if the
\* proposal has passed, and leaves it alone otherwise.
Skip(r, m) ==
  /\ m \in voting[r] \ watching[r] /\ ~ShouldVote(r, m)
  /\ voting' = [voting EXCEPT ![r] = @ \ {m}]
  /\ IF Passed(m)
     THEN /\ watching' = [watching EXCEPT ![r] = @ \cup {m}]
          /\ UNCHANGED lostBy
     ELSE /\ lostBy' = [lostBy EXCEPT ![m] = @ \cup {r}]
          /\ UNCHANGED watching
  /\ UNCHANGED <<chain, up, cursor, routed, stored, contractVars, crashes>>

\* The Passed event has been seen: the proposal is executed.
Execute(r, m) ==
  /\ m \in watching[r] /\ Passed(m)
  /\ executions' = [executions EXCEPT ![m.nonce] = Append(@, m.data)]
  /\ watching' = [watching EXCEPT ![r] = @ \ {m}]
  /\ UNCHANGED <<chain, up, cursor, routed, stored, voting, votes, cancelled,
                 crashes, lostBy>>

\* Another relayer has executed it, or it was cancelled.
Finish(r, m) ==
  /\ m \in watching[r] /\ Finalized(m)
  /\ watching' = [watching EXCEPT ![r] = @ \ {m}]
  /\ UNCHANGED <<chain, up, cursor, routed, stored, voting, contractVars,
                 crashes, lostBy>>

\* An error or a limit ends the work on m: the vote, the watch or both.
Abandon(r, m) ==
  /\ "abandon" \in Faults /\ m \in voting[r] \cup watching[r]
  /\ voting' = [voting EXCEPT ![r] = @ \ {m}]
  /\ \/ m \in voting[r] /\ UNCHANGED watching
     \/ watching' = [watching EXCEPT ![r] = @ \ {m}]
  /\ lostBy' = [lostBy EXCEPT ![m] = @ \cup {r}]
  /\ UNCHANGED <<chain, up, cursor, routed, stored, contractVars, crashes>>

-----------------------------------------------------------------------------
(* The process of relayer r.                                               *)

\* It ends with all its goroutines; only the blockstore file stays.
Crash(r) ==
  /\ up[r] /\ crashes < MaxCrashes
  /\ crashes' = crashes + 1
  /\ up' = [up EXCEPT ![r] = FALSE]
  /\ lostBy' = [m \in Messages |->
                  IF m \in voting[r] \cup watching[r]
                  THEN lostBy[m] \cup {r} ELSE lostBy[m]]
  /\ voting' = [voting EXCEPT ![r] = {}]
  /\ watching' = [watching EXCEPT ![r] = {}]
  /\ UNCHANGED <<chain, cursor, routed, stored, contractVars>>

StoredOnly(r) == stored[r]

\* The stored block is read again.
FirstBlock(r) == IF stored[r] = 0 THEN 1 ELSE stored[r]

Restart(r) ==
  /\ ~up[r]
  /\ up' = [up EXCEPT ![r] = TRUE]
  /\ routed' = [routed EXCEPT ![r] = FALSE]
  /\ \/ cursor' = [cursor EXCEPT ![r] = FirstBlock(r)]
     \/ "fresh" \in Faults /\ cursor' = [cursor EXCEPT ![r] = 1]
  /\ UNCHANGED <<chain, stored, voting, watching, contractVars, crashes,
                 lostBy>>

-----------------------------------------------------------------------------
Init ==
  /\ chain = <<>>
  /\ up = [r \in Relayers |-> TRUE]
  /\ cursor = [r \in Relayers |-> 1]
  /\ routed = [r \in Relayers |-> FALSE]
  /\ stored = [r \in Relayers |-> 0]
  /\ voting = [r \in Relayers |-> {}]
  /\ watching = [r \in Relayers |-> {}]
  /\ votes = [m \in Messages |-> {}]
  /\ cancelled = {}
  /\ executions = [n \in Nonces |-> <<>>]
  /\ crashes = 0
  /\ lostBy = [m \in Messages |-> {}]

Listen(r) == Route(r) \/ StoreBlock(r)
Resolve(r, m) ==
  Watch(r, m) \/ Vote(r, m) \/ Skip(r, m) \/ Execute(r, m) \/ Finish(r, m)

Next ==
  \/ ProduceBlock
  \/ Reorg
  \/ \E m \in Messages : Cancel(m)
  \/ \E r \in Relayers : Listen(r) \/ Crash(r) \/ Restart(r)
  \/ \E r \in Relayers, m \in Messages : Resolve(r, m) \/ Abandon(r, m)

Spec == Init /\ [][Next]_vars

\* The scheduler runs the goroutines of each relayer, RPCs answer in the end,
\* and the operator starts a relayer again that has ended.
FairSpec ==
  /\ Spec
  /\ \A r \in Relayers : WF_vars(Listen(r)) /\ WF_vars(Restart(r))
  /\ \A r \in Relayers, m \in Messages : WF_vars(Resolve(r, m))

-----------------------------------------------------------------------------
(* Properties.                                                             *)

TypeOK ==
  /\ chain \in Seq(Blocks) /\ Len(chain) <= MaxBlock
  /\ up \in [Relayers -> BOOLEAN]
  /\ cursor \in [Relayers -> 1 .. MaxBlock + 1]
  /\ routed \in [Relayers -> BOOLEAN]
  /\ stored \in [Relayers -> 0 .. MaxBlock]
  /\ voting \in [Relayers -> SUBSET Messages]
  /\ watching \in [Relayers -> SUBSET Messages]
  /\ votes \in [Messages -> SUBSET Relayers]
  /\ cancelled \subseteq Messages
  /\ executions \in [Nonces -> Seq(Data)]
  /\ crashes \in 0 .. MaxCrashes
  /\ lostBy \in [Messages -> SUBSET Relayers]

\* The deposits that no reorganisation can take away any more.
FinalMessages ==
  {MessageIn(b) : b \in {c \in 1 .. Len(chain) :
                           /\ Len(chain) - c >= Confirmations
                           /\ chain[c].data # NoDeposit}}

DataOf(F, n) ==
  IF \E m \in F : m.nonce = n THEN (CHOOSE m \in F : m.nonce = n).data
  ELSE NoDeposit
FinalData == [n \in Nonces |-> DataOf(FinalMessages, n)]

B == INSTANCE Bridge WITH final <- FinalData

\* However relayers crash, repeat themselves and read the source chain at
\* different times, and whichever forks they see, each deposit is executed at
\* most once and with the data that became final.
ImplementsBridge == B!BridgeSpec

\* A deposit that is final is executed in the end, or cancelled, if enough
\* relayers keep working on it: those that lost it, by a crash after the block
\* was stored or by giving up, must leave at least Threshold others.
EnoughRelayers(m) == Cardinality(Relayers \ lostBy[m]) >= Threshold

FinalIsDelivered ==
  \A m \in Messages :
    m \in FinalMessages ~> (Finalized(m) \/ ~EnoughRelayers(m))
==============================================================================
