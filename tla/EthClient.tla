------------------------------ MODULE EthClient ------------------------------
(***************************************************************************)
(* The client that tests and tools use to deploy, fund and administer the  *)
(* contracts (shared/ethereum).  A helper sends one transaction after      *)
(* another through the Opts of its client, whose nonce it sets from the    *)
(* pending nonce under nonceLock and keeps locked until the transaction    *)
(* has a receipt, or until it has waited long enough.                      *)
(*                                                                         *)
(* Two kinds of helper write the nonce without the lock: FundErc20Handler  *)
(* counts it up after its approval, and the deposits of the end-to-end     *)
(* tests refresh it.  A helper that returns an error does not unlock.      *)
(*                                                                         *)
(* A helper is modelled by the kinds of its transactions.  The account's   *)
(* transactions and their mining are external.                             *)
(***************************************************************************)
EXTENDS Integers, Sequences

CONSTANTS
  Callers,       \* goroutines that call one helper each
  Programs,      \* the helpers they may call
  NoCaller,
  WaitRetries,   \* WaitForTx asks this often for the receipt
  MaxNonce,      \* bound: nonces of the account
  Faults         \* what may go wrong: subset of FaultKinds

\* PendingNonceAt, a query, a submission or the look for a receipt fails, or a
\* transaction reverts.
FaultKinds == {"nonce", "query", "submit", "receipt", "revert"}

\* How a helper sends one transaction.
Locked == "locked"        \* under the lock, until its receipt
WithRole == "with role"   \* the same, with a query before the submission
Brief == "brief"          \* the lock is released after the submission
CountedUp == "counted up" \* without the lock: the nonce is counted up
Refreshed == "refreshed"  \* without the lock: the nonce is set anew
Kinds == {Locked, WithRole, Brief, CountedUp, Refreshed}
Unlocked == {CountedUp, Refreshed}

ASSUME ConstantsAssumption ==
  /\ Programs \subseteq Seq(Kinds) \ {<<>>}
  /\ NoCaller \notin Callers
  /\ WaitRetries \in Nat
  /\ MaxNonce \in Nat
  /\ Faults \subseteq FaultKinds

\* Only FundErc20Handler counts the nonce up, after its approval.
ASSUME CountsUpLater == \A p \in Programs : p[1] # CountedUp

Nonces == 0 .. MaxNonce

-----------------------------------------------------------------------------
(* The helpers.                                                            *)

DeployContracts == <<Locked, Locked, Locked, Locked>>
RegisterResource == <<Locked>>
RegisterGenericResource == <<Locked>>
SetBurnable == <<Locked>>
DeployAssetStore == <<Locked>>
DeployMintApproveErc20 == <<Locked, Locked, Locked>>
DeployAndMintErc20 == <<Locked, Locked>>
Erc20Approve == <<Locked>>
Erc20Mint == <<Locked>>
Erc20AddMinter == <<WithRole>>
FundErc20Handler == Erc20Approve \o <<CountedUp>>
DeployErc721 == <<Locked>>
Erc721Mint == <<Locked>>
ApproveErc721 == <<Locked>>
Erc721AddMinter == <<WithRole>>
FundErc721Handler == ApproveErc721 \o <<Locked>>

\* The deposits of the end-to-end tests and of the deployment test.
CreateErc721Deposit == <<Refreshed>>
CreateGenericDeposit == <<Refreshed>>
submitEthDeposit == <<Locked>>
CreateFungibleDeposit == Erc20Approve \o <<Brief>>

VARIABLES
  program,    \* program[c]: the helper caller c runs
  step,       \* step[c]: its transaction at hand
  pc,         \* pc[c]: where in that transaction it is
  retry,      \* retry[c]: looks for the receipt that are left
  nonceLock,  \* who holds the lock of the client, or NoCaller
  nonce,      \* Opts.Nonce of the client
  slots,      \* slots[n]: the transaction the node holds with nonce n, or NoTx
  mined,      \* nonces below this one are in blocks
  reverted,   \* nonces of transactions that failed on chain
  raced       \* history: the nonce was written while another signed with it

clientVars == <<nonceLock, nonce>>
chainVars == <<slots, mined, reverted>>
vars == <<program, step, pc, retry, nonceLock, nonce, slots, mined, reverted,
          raced>>

PCs == {"start", "update", "query", "submit", "wait", "done", "failed"}

NoTx == <<>>
Kind(c) == program[c][step[c]]

-----------------------------------------------------------------------------
(* The account.                                                            *)

Free(n) == slots[n] = NoTx
IsConfirmed(n) == n = mined
IsPending(n) == n >= mined /\ Free(n) /\ \A k \in mined .. n - 1 : ~Free(k)

Mine ==
  /\ mined < MaxNonce /\ ~Free(mined)
  /\ mined' = mined + 1
  /\ \/ UNCHANGED reverted
     \/ "revert" \in Faults /\ reverted' = reverted \cup {mined}
  /\ UNCHANGED <<program, step, pc, retry, clientVars, slots, raced>>

-----------------------------------------------------------------------------
(* Writing the nonce.                                                      *)

Goto(c, l) == pc' = [pc EXCEPT ![c] = l]

\* Between its write of the nonce and its submission.
Signing(c) == pc[c] \in {"query", "submit"}

\* c writes the nonce another signs with, one of them without the lock, or it
\* counts on from the nonce of one that has failed.
Races(c) ==
  \E d \in Callers \ {c} :
    \/ Signing(d) /\ {Kind(c), Kind(d)} \cap Unlocked # {}
    \/ pc[d] = "failed" /\ Kind(c) = CountedUp

NoLock == TRUE
LockFree == nonceLock = NoCaller

Lock(c) ==
  /\ pc[c] = "start" /\ Kind(c) \notin Unlocked /\ LockFree
  /\ nonceLock' = c
  /\ Goto(c, "update")
  /\ UNCHANGED <<program, step, retry, nonce, chainVars, raced>>

Update(c) ==
  /\ pc[c] = "update"
  /\ \E n \in Nonces : IsPending(n) /\ nonce' = n
  /\ Goto(c, IF Kind(c) = WithRole THEN "query" ELSE "submit")
  /\ raced' = (raced \/ Races(c))
  /\ UNCHANGED <<program, step, retry, nonceLock, chainVars>>

\* LockNonceAndUpdate unlocks when the pending nonce cannot be read.
UpdateError(c) ==
  /\ pc[c] = "update" /\ "nonce" \in Faults
  /\ nonceLock' = NoCaller
  /\ Goto(c, "failed")
  /\ UNCHANGED <<program, step, retry, nonce, chainVars, raced>>

CountUp(c) ==
  /\ pc[c] = "start" /\ Kind(c) = CountedUp /\ nonce < MaxNonce
  /\ nonce' = nonce + 1
  /\ Goto(c, "submit")
  /\ raced' = (raced \/ Races(c))
  /\ UNCHANGED <<program, step, retry, nonceLock, chainVars>>

UpdateNonce(c) ==
  /\ pc[c] = "start" /\ Kind(c) = Refreshed
  /\ \/ \E n \in Nonces : IsPending(n) /\ nonce' = n /\ Goto(c, "submit")
     \/ "nonce" \in Faults /\ nonce' = nonce /\ Goto(c, "failed")
  /\ raced' = (raced \/ Races(c))
  /\ UNCHANGED <<program, step, retry, nonceLock, chainVars>>

\* MINTERROLE.
Query(c) ==
  /\ pc[c] = "query"
  /\ \/ Goto(c, "submit")
     \/ "query" \in Faults /\ Goto(c, "failed")
  /\ UNCHANGED <<program, step, retry, clientVars, chainVars, raced>>

-----------------------------------------------------------------------------
(* Sending and waiting.                                                    *)

KeepLocked(c) == nonceLock
Released(c) == IF nonceLock = c THEN NoCaller ELSE nonceLock

AfterSubmission(c) == IF Kind(c) = Brief THEN Released(c) ELSE nonceLock

Place(c) == slots' = [slots EXCEPT ![nonce] = <<c, step[c]>>]

\* The node takes the transaction if its nonce is free.
Submit(c) ==
  /\ pc[c] = "submit"
  /\ IF Free(nonce)
     THEN Place(c) /\ Goto(c, "wait") /\ retry' = [retry EXCEPT ![c] = WaitRetries]
     ELSE Goto(c, "failed") /\ UNCHANGED <<slots, retry>>
  /\ nonceLock' = AfterSubmission(c)
  /\ UNCHANGED <<program, step, nonce, mined, reverted, raced>>

\* The call fails before or after the node has taken the transaction.
SubmitError(c) ==
  /\ pc[c] = "submit" /\ "submit" \in Faults
  /\ UNCHANGED slots \/ (Free(nonce) /\ Place(c))
  /\ Goto(c, "failed")
  /\ nonceLock' = AfterSubmission(c)
  /\ UNCHANGED <<program, step, retry, nonce, mined, reverted, raced>>

NonceOf(c) == CHOOSE n \in Nonces : slots[n] = <<c, step[c]>>
HasReceipt(c) == NonceOf(c) < mined

\* The transaction counts as sent: the lock is released, and the next
\* transaction begins or the helper returns.
Advance(c) ==
  /\ nonceLock' = Released(c)
  /\ IF step[c] = Len(program[c])
     THEN Goto(c, "done") /\ UNCHANGED step
     ELSE Goto(c, "start") /\ step' = [step EXCEPT ![c] = @ + 1]

Fail(c) == Goto(c, "failed") /\ UNCHANGED <<step, nonceLock>>

OneTooMany(c) == retry[c] >= 0
RetriesLeft(c) == retry[c] > 0

Receipt(c) ==
  /\ pc[c] = "wait" /\ RetriesLeft(c) /\ HasReceipt(c)
  /\ IF NonceOf(c) \in reverted THEN Fail(c) ELSE Advance(c)
  /\ UNCHANGED <<program, retry, nonce, chainVars, raced>>

NotFound(c) ==
  /\ pc[c] = "wait" /\ RetriesLeft(c) /\ ~HasReceipt(c)
  /\ retry' = [retry EXCEPT ![c] = @ - 1]
  /\ UNCHANGED <<program, step, pc, clientVars, chainVars, raced>>

\* Only the deployment test tries again after another error, and only it
\* takes a missing receipt for an error.
ReceiptError(c) ==
  /\ pc[c] = "wait" /\ RetriesLeft(c) /\ "receipt" \in Faults
  /\ IF Kind(c) = Brief
     THEN retry' = [retry EXCEPT ![c] = @ - 1] /\ UNCHANGED <<step, pc, nonceLock>>
     ELSE Fail(c) /\ UNCHANGED retry
  /\ UNCHANGED <<program, nonce, chainVars, raced>>

WaitedLongEnough(c) ==
  /\ pc[c] = "wait" /\ ~RetriesLeft(c)
  /\ IF Kind(c) = Brief THEN Fail(c) ELSE Advance(c)
  /\ UNCHANGED <<program, retry, nonce, chainVars, raced>>

-----------------------------------------------------------------------------
Init ==
  /\ program \in [Callers -> Programs]
  /\ step = [c \in Callers |-> 1]
  /\ pc = [c \in Callers |-> "start"]
  /\ retry = [c \in Callers |-> 0]
  /\ nonceLock = NoCaller
  /\ nonce = 0
  /\ slots = [n \in Nonces |-> NoTx]
  /\ mined = 0
  /\ reverted = {}
  /\ raced = FALSE

WaitForTx(c) ==
  Receipt(c) \/ NotFound(c) \/ ReceiptError(c) \/ WaitedLongEnough(c)

Step(c) ==
  \/ Lock(c) \/ Update(c) \/ UpdateError(c) \/ CountUp(c) \/ UpdateNonce(c)
  \/ Query(c) \/ Submit(c) \/ SubmitError(c) \/ WaitForTx(c)

Next == Mine \/ \E c \in Callers : Step(c)

Spec == Init /\ [][Next]_vars

\* Every goroutine goes on, and every call to the node returns.  The chain owes
\* nothing: it need not mine.
FairSpec == Spec /\ \A c \in Callers : WF_vars(Step(c))

-----------------------------------------------------------------------------
(* Properties.                                                             *)

\* The nonces of the transactions the node has taken.
Sent == {n \in Nonces : ~Free(n)}

TypeOK ==
  /\ program \in [Callers -> Programs]
  /\ step \in [Callers -> Nat]
  /\ \A c \in Callers : step[c] \in 1 .. Len(program[c])
  /\ pc \in [Callers -> PCs]
  /\ retry \in [Callers -> 0 .. WaitRetries]
  /\ nonceLock \in Callers \cup {NoCaller}
  /\ nonce \in Nonces
  /\ slots \in [Nonces -> {NoTx} \cup (Callers \X (Nat \ {0}))]
  /\ mined \in Nonces
  /\ reverted \subseteq Nonces
  /\ raced \in BOOLEAN

\* Unless somebody writes the nonce without the lock while another signs with
\* it, a transaction is never refused, and those of all callers follow each
\* other without a gap.  A contract is thus deployed before it is used, also
\* when WaitForTx has given up waiting for it.
InOrderUnlessRaced ==
  raced \/ /\ \A n \in Sent : \A k \in 0 .. n : ~Free(k)
           /\ \A c \in Callers : pc[c] = "submit" => Free(nonce)
           /\ \A n, k \in Sent :
                slots[n][1] = slots[k][1] /\ n < k => slots[n][2] < slots[k][2]

Lane == INSTANCE TxLane WITH lane <- slots, disturbed <- raced,
          Txs <- Callers \X (Nat \ {0})

\* No helper's transaction takes the place of another one.
ImplementsLane == Lane!LaneSpec

\* A helper returns, whether or not its transactions are mined, unless a
\* helper that has returned an error has kept the lock.
Leaked == \E c \in Callers : nonceLock = c /\ pc[c] = "failed"

EveryHelperReturns ==
  \A c \in Callers : <>(pc[c] \in {"done", "failed"} \/ Leaked)
==============================================================================
