------------------------------ MODULE SubClient ------------------------------
(***************************************************************************)
(* The client that sets up and drives the Substrate pallet for the tests   *)
(* (shared/substrate).  SubmitTx sends one extrinsic and waits until it is *)
(* in a block.  BatchSubmit sends several with consecutive nonces, starts  *)
(* a watcher for each, and waits for all of them.                          *)
(*                                                                         *)
(* Both take the nonce from the account's state in the best block, which   *)
(* does not count what is still in the pool, and there is no lock: two     *)
(* clients of one key, or a client and a fork, can choose the same nonce.  *)
(*                                                                         *)
(* A helper is modelled by the extrinsics it sends.  The account, its pool *)
(* and the forks of the best chain are external.                           *)
(***************************************************************************)
EXTENDS Integers, Sequences

CONSTANTS
  Callers,    \* goroutines or processes with a client of the same key
  Programs,   \* the helpers they call, one after another
  MaxCalls,   \* the largest batch
  MaxNonce,   \* bound: above every number of extrinsics
  MaxForks,   \* bound: how often a fork retracts the newest extrinsic
  Faults      \* what may go wrong: subset of FaultKinds

\* A failing query or submission, an extrinsic that is dropped or found invalid,
\* and one that another with its nonce replaces in the pool.
FaultKinds == {"query", "submit", "drop", "usurp"}

Single == [batch |-> FALSE, calls |-> 1]
Batch(n) == [batch |-> TRUE, calls |-> n]

Submissions == {Single} \cup {Batch(n) : n \in 1 .. MaxCalls}

ASSUME ConstantsAssumption ==
  /\ MaxCalls \in Nat \ {0}
  /\ Programs \subseteq Seq(Submissions) \ {<<>>}
  /\ MaxNonce \in Nat
  /\ MaxForks \in Nat
  /\ Faults \subseteq FaultKinds

Nonces == 0 .. MaxNonce

-----------------------------------------------------------------------------
(* The helpers.                                                            *)

SetRelayerThreshold == <<Single>>
AddRelayer == <<Single>>
WhitelistChain == <<Single>>
RegisterResource == <<Single>>
InitiateNativeTransfer == <<Single>>
InitiateNonFungibleTransfer == <<Single>>
InitiateHashTransfer == <<Single>>
MintErc721 == <<Single>>

\* One call per relayer, chain and resource, and one for the threshold.
InitializeChain(relayers, chains, resources) ==
  <<Batch(relayers + chains + resources + 1)>>

\* The parallel end-to-end test.
submitSubToEth(numberOfTxs) == <<Batch(numberOfTxs)>>

VARIABLES
  program,  \* program[c]: what caller c has to send
  step,     \* step[c]: the submission at hand
  pc,       \* pc[c]: where in that submission it is
  call,     \* call[c]: the next call of the batch
  nonce,    \* nonce[c]: the nonce of the next extrinsic, o.Nonce
  wg,       \* wg[c]: the counter of the batch's WaitGroup
  told,     \* told[c][k]: what the pool has told the watcher of call k
  account,  \* the account's nonce in the best block
  txs,      \* txs[n]: the extrinsic with nonce n in pool or block, or NoTx
  forks,    \* retractions so far
  lost,     \* history: an extrinsic was dropped or replaced
  raced     \* history: a nonce was read while another caller's were in use

callerVars == <<program, step, pc, call, nonce, wg>>
chainVars == <<account, txs, forks>>
vars == <<program, step, pc, call, nonce, wg, told, account, txs, forks, lost,
          raced>>

PCs == {"query", "submit", "watch", "wait", "done", "failed"}
Statuses == {"nothing", "in block", "dropped", "usurped", "read"}

NoTx == <<>>
At(c) == program[c][step[c]]

-----------------------------------------------------------------------------
(* The account.                                                            *)

Free(n) == txs[n] = NoTx

\* The extrinsic belongs to the submission at hand, its submission returned a
\* subscription, and nothing has come through it yet.
Subscribed(c, s, k) ==
  s = step[c] /\ (pc[c] = "watch" \/ k < call[c]) /\ told[c][k] = "nothing"

Tell(tx, status) ==
  LET c == tx[1]
      k == tx[3]
  IN  told' = IF Subscribed(c, tx[2], k)
              THEN [told EXCEPT ![c][k] = status]
              ELSE told

Include ==
  /\ account < MaxNonce /\ ~Free(account)
  /\ account' = account + 1
  /\ Tell(txs[account], "in block")
  /\ UNCHANGED <<callerVars, txs, forks, lost, raced>>

\* A fork retracts the newest extrinsic, which goes back to the pool.
Retract ==
  /\ forks < MaxForks /\ account > 0
  /\ forks' = forks + 1
  /\ account' = account - 1
  /\ UNCHANGED <<callerVars, told, txs, lost, raced>>

Drop(n) ==
  /\ "drop" \in Faults /\ n >= account /\ ~Free(n)
  /\ Tell(txs[n], "dropped")
  /\ txs' = [txs EXCEPT ![n] = NoTx]
  /\ lost' = TRUE
  /\ UNCHANGED <<callerVars, account, forks, raced>>

-----------------------------------------------------------------------------
(* SubmitTx and BatchSubmit.                                               *)

Goto(c, label) == pc' = [pc EXCEPT ![c] = label]

\* Another caller has chosen a nonce, or its extrinsic is still in the pool.
OthersSend(c) ==
  \/ \E d \in Callers \ {c} : pc[d] = "submit"
  \/ \E n \in Nonces : n >= account /\ ~Free(n) /\ txs[n][1] # c

Queried == account
OneTooFew(c) == At(c).calls - 1
Added(c) == At(c).calls

\* The nonce of the account's state in the best block.
QueryAccount(c) ==
  /\ pc[c] = "query"
  /\ nonce' = [nonce EXCEPT ![c] = Queried]
  /\ call' = [call EXCEPT ![c] = 1]
  /\ wg' = [wg EXCEPT ![c] = Added(c)]
  /\ told' = [told EXCEPT ![c] = [k \in 1 .. MaxCalls |-> "nothing"]]
  /\ raced' = (raced \/ OthersSend(c))
  /\ Goto(c, "submit")
  /\ UNCHANGED <<program, step, chainVars, lost>>

QueryError(c) ==
  /\ pc[c] = "query" /\ "query" \in Faults
  /\ Goto(c, "failed")
  /\ UNCHANGED <<program, step, call, nonce, wg, told, chainVars, lost, raced>>

Same(c) == nonce[c]
Following(c) == nonce[c] + 1

\* The node has taken the extrinsic.  A batch goes on with the next call, and
\* waits after the last one.
Sent(c) ==
  IF ~At(c).batch
  THEN Goto(c, "watch") /\ UNCHANGED <<call, nonce>>
  ELSE /\ nonce' = [nonce EXCEPT ![c] = Following(c)]
       /\ call' = [call EXCEPT ![c] = @ + 1]
       /\ IF call[c] = At(c).calls THEN Goto(c, "wait") ELSE UNCHANGED pc

Place(c) == txs' = [txs EXCEPT ![nonce[c]] = <<c, step[c], call[c]>>]

Submit(c) ==
  /\ pc[c] = "submit" /\ nonce[c] \in Nonces
  /\ Free(nonce[c])
  /\ Place(c)
  /\ Sent(c)
  /\ UNCHANGED <<program, step, wg, told, account, forks, lost, raced>>

\* The nonce is used in a block, or taken in the pool.
Refused(c) ==
  /\ pc[c] = "submit" /\ nonce[c] \in Nonces
  /\ ~Free(nonce[c])
  /\ Goto(c, "failed")
  /\ UNCHANGED <<program, step, call, nonce, wg, told, chainVars, lost, raced>>

\* The extrinsic has the higher priority and replaces another in the pool.
Usurp(c) ==
  /\ "usurp" \in Faults
  /\ pc[c] = "submit" /\ nonce[c] \in Nonces
  /\ nonce[c] >= account /\ ~Free(nonce[c])
  /\ Tell(txs[nonce[c]], "usurped")
  /\ Place(c)
  /\ Sent(c)
  /\ lost' = TRUE
  /\ UNCHANGED <<program, step, wg, account, forks, raced>>

\* The call fails before or after the node has taken the extrinsic.  Nobody
\* watches it then, and a batch leaves its earlier extrinsics in the pool.
SubmitError(c) ==
  /\ "submit" \in Faults
  /\ pc[c] = "submit" /\ nonce[c] \in Nonces
  /\ UNCHANGED txs \/ (Free(nonce[c]) /\ Place(c))
  /\ Goto(c, "failed")
  /\ UNCHANGED <<program, step, call, nonce, wg, told, account, forks, lost,
                 raced>>

\* The statuses the loops act on: IsInBlock, IsDropped and IsInvalid.
FailuresOnly == {"dropped"}
Ends == {"in block", "dropped"}

Advance(c) ==
  IF step[c] = Len(program[c])
  THEN Goto(c, "done") /\ UNCHANGED step
  ELSE Goto(c, "query") /\ step' = [step EXCEPT ![c] = @ + 1]

\* SubmitTx: a loss is an error.
Status(c) ==
  /\ pc[c] = "watch" /\ told[c][1] \in Ends
  /\ IF told[c][1] = "in block" THEN Advance(c)
                                ELSE Goto(c, "failed") /\ UNCHANGED step
  /\ told' = [told EXCEPT ![c][1] = "read"]
  /\ UNCHANGED <<program, call, nonce, wg, chainVars, lost, raced>>

\* BatchSubmit: a watcher is done either way.
Watcher(c, k) ==
  /\ At(c).batch /\ told[c][k] \in Ends
  /\ told' = [told EXCEPT ![c][k] = "read"]
  /\ wg' = [wg EXCEPT ![c] = @ - 1]
  /\ UNCHANGED <<program, step, pc, call, nonce, chainVars, lost, raced>>

Wait(c) ==
  /\ pc[c] = "wait" /\ wg[c] = 0
  /\ Advance(c)
  /\ UNCHANGED <<program, call, nonce, wg, told, chainVars, lost, raced>>

-----------------------------------------------------------------------------
Init ==
  /\ program \in [Callers -> Programs]
  /\ step = [c \in Callers |-> 1]
  /\ pc = [c \in Callers |-> "query"]
  /\ call = [c \in Callers |-> 1]
  /\ nonce = [c \in Callers |-> 0]
  /\ wg = [c \in Callers |-> 0]
  /\ told = [c \in Callers |-> [k \in 1 .. MaxCalls |-> "nothing"]]
  /\ account = 0
  /\ txs = [n \in Nonces |-> NoTx]
  /\ forks = 0
  /\ lost = FALSE
  /\ raced = FALSE

CallerStep(c) ==
  \/ QueryAccount(c) \/ QueryError(c)
  \/ Submit(c) \/ Refused(c) \/ Usurp(c) \/ SubmitError(c)
  \/ Status(c) \/ Wait(c)

Next ==
  \/ Include
  \/ Retract
  \/ \E n \in Nonces : Drop(n)
  \/ \E c \in Callers : CallerStep(c)
  \/ \E c \in Callers : \E k \in 1 .. MaxCalls : Watcher(c, k)

Spec == Init /\ [][Next]_vars

\* Goroutines go on, calls to the node return, and the chain takes the next
\* extrinsic of the account into a block.
FairSpec ==
  /\ Spec
  /\ WF_vars(Include)
  /\ \A c \in Callers :
       /\ WF_vars(CallerStep(c))
       /\ \A k \in 1 .. MaxCalls : WF_vars(Watcher(c, k))

-----------------------------------------------------------------------------
(* Properties.                                                             *)

\* The WaitGroup in particular never goes below zero, which would be a panic.
TypeOK ==
  /\ program \in [Callers -> Programs]
  /\ step \in [Callers -> Nat]
  /\ \A c \in Callers : step[c] \in 1 .. Len(program[c])
  /\ pc \in [Callers -> PCs]
  /\ call \in [Callers -> 1 .. MaxCalls + 1]
  /\ nonce \in [Callers -> 0 .. MaxNonce + 1]
  /\ wg \in [Callers -> 0 .. MaxCalls]
  /\ told \in [Callers -> [1 .. MaxCalls -> Statuses]]
  /\ account \in Nonces
  /\ txs \in [Nonces -> {NoTx} \cup (Callers \X Nat \X Nat)]
  /\ forks \in 0 .. MaxForks
  /\ lost \in BOOLEAN
  /\ raced \in BOOLEAN

\* As long as no caller reads the account's nonce while another has one in use,
\* no fork retracts an extrinsic and none is lost, no submission finds its nonce
\* taken, and a caller's calls are in the order of its program.
Undisturbed == ~raced /\ forks = 0 /\ ~lost

Before(a, b) == a[2] < b[2] \/ (a[2] = b[2] /\ a[3] < b[3])

InOrderIfUndisturbed ==
  Undisturbed =>
    /\ \A c \in Callers :
         pc[c] = "submit" /\ nonce[c] \in Nonces => Free(nonce[c])
    /\ \A n, m \in Nonces :
         (n < m /\ ~Free(n) /\ ~Free(m) /\ txs[n][1] = txs[m][1])
           => Before(txs[n], txs[m])

\* SubmitTx and BatchSubmit return, also when two callers or a fork make them
\* choose the same nonce, unless an extrinsic is dropped or replaced: a watcher
\* waits for ever for an extrinsic behind a dropped one, or for a replaced one.
EverySubmitReturns ==
  \A c \in Callers : <>(pc[c] \in {"done", "failed"} \/ lost)
==============================================================================
