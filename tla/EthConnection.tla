----------------------------- MODULE EthConnection -----------------------------
(***************************************************************************)
(* The connection all goroutines of an Ethereum writer share               *)
(* (connections/ethereum/connection.go, egs/egs.go), seen from the retry   *)
(* loops of voteProposal and executeProposal that use it.                  *)
(*                                                                         *)
(* There is one TransactOpts for all of them.  LockAndUpdateOpts takes     *)
(* optsLock, fetches a gas price and the account's pending nonce over RPC, *)
(* writes both into the shared opts and returns with the lock held; the    *)
(* caller submits with the shared opts and calls UnlockOpts.  The node is  *)
(* external: it numbers, mines and evicts the account's transactions.      *)
(***************************************************************************)
EXTENDS Integers

CONSTANTS
  Callers,         \* goroutines in voteProposal or executeProposal
  Voters,          \* the callers that are in voteProposal
  TxRetryLimit,
  MaxNonce,        \* bound: the last nonce; above every number of attempts
  MaxGasPrice,
  Multiplier,      \* gasMultiplier, as <<numerator, denominator>>
  NodePrices,      \* what SuggestGasPrice may answer
  EgsAnswers,      \* what the gas station may answer; {} without an API key
  EgsUnit,         \* the gas station counts in units of 10^8 wei
  NoTx, NoCaller,
  ConnFaults       \* what may go wrong: subset of ConnFaultKinds

\* Failing gas station, failing RPCs, a submission the node refuses, one it
\* accepts although the answer is lost, evictions, and a stop.
ConnFaultKinds == {"egs", "rpc", "refuse", "lostAnswer", "evict", "stop"}

Nonces == 0 .. MaxNonce

ASSUME ConnAssumption ==
  /\ Voters \subseteq Callers
  /\ TxRetryLimit \in Nat \ {0}
  /\ MaxNonce \in Nat
  /\ MaxGasPrice \in Nat
  /\ Multiplier[1] \in Nat /\ Multiplier[2] \in Nat \ {0}
  /\ NodePrices \subseteq Nat
  /\ EgsAnswers \subseteq Int
  /\ EgsUnit \in Nat \ {0}
  /\ NoCaller \notin Callers
  /\ NoTx \notin [sender : Callers, price : Int]
  /\ ConnFaults \subseteq ConnFaultKinds

VARIABLES
  holder,    \* who holds optsLock, or NoCaller
  opts,      \* the shared opts, with the callers that wrote each field
  pc,        \* pc[c]: where caller c is
  tries,     \* tries[c]: failed attempts of c's retry loop
  stop,      \* the stop channel is closed
  txs,       \* txs[n]: the account's transaction with nonce n, or NoTx
  mined,     \* transactions below this nonce are in a block
  evicted    \* history: the node has evicted a transaction

nodeVars == <<txs, mined, evicted>>
connVars == <<holder, opts, pc, tries, stop, txs, mined, evicted>>

PCs == {"top", "lock", "gas", "nonce", "submit", "unlock", "unlockFailed",
        "check", "done"}

-----------------------------------------------------------------------------
(* The gas price.                                                          *)

Larger(a, b) == IF a > b THEN a ELSE b

\* parsePrice: never less than one unit.
EgsPrice(answer) == Larger(answer, 1) * EgsUnit

\* The gas station comes first; the node is the fallback.
Suggested ==
  {EgsPrice(a) : a \in EgsAnswers}
    \cup (IF EgsAnswers = {} \/ "egs" \in ConnFaults THEN NodePrices ELSE {})

\* multiplyGasPrice: the product, truncated.
Multiplied(price) == (price * Multiplier[1]) \div Multiplier[2]

\* SafeEstimateGas: no more than maxGasPrice.
Capped(price) == IF price > MaxGasPrice THEN MaxGasPrice ELSE price
SafePrices == {Capped(Multiplied(s)) : s \in Suggested}

-----------------------------------------------------------------------------
(* The node.                                                               *)

Confirmed(n) == n = mined
\* PendingNonceAt: the first nonce that is free.
Pending(n) == txs[n] = NoTx /\ \A m \in Nonces : m < n => txs[m] # NoTx

\* The node takes a transaction on a free nonce, and one on the nonce of a
\* pending transaction when it pays more.
Accepts(n, price) == n >= mined /\ (txs[n] # NoTx => txs[n].price < price)

Mine ==
  /\ mined \in Nonces /\ txs[mined] # NoTx
  /\ mined' = mined + 1
  /\ UNCHANGED <<holder, opts, pc, tries, stop, txs, evicted>>

Evict(n) ==
  /\ "evict" \in ConnFaults /\ n >= mined /\ txs[n] # NoTx
  /\ txs' = [txs EXCEPT ![n] = NoTx]
  /\ evicted' = TRUE
  /\ UNCHANGED <<holder, opts, pc, tries, stop, mined>>

-----------------------------------------------------------------------------
(* The retry loop around the connection.                                   *)

OneTooMany(c) == tries[c] < TxRetryLimit
AttemptsLeft(c) == tries[c] + 1 < TxRetryLimit

\* The next attempt, or ErrFatalTx on sysErr, upon which the core stops.
NextAttempt(c) ==
  IF AttemptsLeft(c)
  THEN /\ tries' = [tries EXCEPT ![c] = @ + 1]
       /\ pc' = [pc EXCEPT ![c] = "top"]
       /\ UNCHANGED stop
  ELSE /\ pc' = [pc EXCEPT ![c] = "done"]
       /\ stop' = TRUE
       /\ UNCHANGED tries

\* The top of the loop looks at the stop channel, waiting for the lock does not.
Top(c) ==
  /\ pc[c] = "top"
  /\ pc' = [pc EXCEPT ![c] = IF stop THEN "done" ELSE "lock"]
  /\ UNCHANGED <<holder, opts, tries, stop, nodeVars>>

NoLock == TRUE
LockFree == holder = NoCaller

Lock(c) ==
  /\ pc[c] = "lock" /\ LockFree
  /\ holder' = c
  /\ pc' = [pc EXCEPT ![c] = "gas"]
  /\ UNCHANGED <<opts, tries, stop, nodeVars>>

KeepLocked == holder
Released == NoCaller

\* LockAndUpdateOpts unlocks and returns an error: voteProposal counts an
\* attempt, executeProposal returns.
UpdateFailed(c) ==
  /\ "rpc" \in ConnFaults
  /\ holder' = Released
  /\ IF c \in Voters THEN NextAttempt(c)
     ELSE pc' = [pc EXCEPT ![c] = "done"] /\ UNCHANGED <<tries, stop>>
  /\ UNCHANGED <<opts, nodeVars>>

\* The node is asked when there is no price from the gas station, and may fail.
EstimateGas(c) ==
  /\ pc[c] = "gas"
  /\ \/ /\ \E price \in SafePrices :
             opts' = [price |-> price, priceBy |-> c,
                      nonce |-> opts.nonce, nonceBy |-> opts.nonceBy]
        /\ pc' = [pc EXCEPT ![c] = "nonce"]
        /\ UNCHANGED <<holder, tries, stop, nodeVars>>
     \/ (EgsAnswers = {} \/ "egs" \in ConnFaults) /\ UpdateFailed(c)

UpdateNonce(c) ==
  /\ pc[c] = "nonce"
  /\ \/ /\ \E n \in Nonces :
             /\ Pending(n)
             /\ opts' = [price |-> opts.price, priceBy |-> opts.priceBy,
                         nonce |-> n, nonceBy |-> c]
        /\ pc' = [pc EXCEPT ![c] = "submit"]
        /\ UNCHANGED <<holder, tries, stop, nodeVars>>
     \/ UpdateFailed(c)

\* bridgeContract.VoteProposal or ExecuteProposal with the shared opts.
Submit(c) ==
  /\ pc[c] = "submit"
  /\ \/ /\ Accepts(opts.nonce, opts.price)
        /\ txs' = [txs EXCEPT ![opts.nonce] =
                     [sender |-> c, price |-> opts.price]]
        /\ \/ pc' = [pc EXCEPT ![c] = "unlock"]
           \/ /\ "lostAnswer" \in ConnFaults
              /\ pc' = [pc EXCEPT ![c] = "unlockFailed"]
     \/ /\ ~Accepts(opts.nonce, opts.price) \/ "refuse" \in ConnFaults
        /\ pc' = [pc EXCEPT ![c] = "unlockFailed"]
        /\ UNCHANGED txs
  /\ UNCHANGED <<holder, opts, tries, stop, mined, evicted>>

\* UnlockOpts, then return, or sleep before the look at the proposal.
Unlock(c) ==
  /\ pc[c] \in {"unlock", "unlockFailed"}
  /\ holder' = NoCaller
  /\ pc' = [pc EXCEPT ![c] = IF pc[c] = "unlock" THEN "done" ELSE "check"]
  /\ UNCHANGED <<opts, tries, stop, nodeVars>>

\* proposalIsComplete or proposalIsFinalized answers either way.
Check(c) ==
  /\ pc[c] = "check"
  /\ \/ pc' = [pc EXCEPT ![c] = "done"] /\ UNCHANGED <<tries, stop>>
     \/ NextAttempt(c)
  /\ UNCHANGED <<holder, opts, nodeVars>>

Stop ==
  /\ "stop" \in ConnFaults /\ ~stop
  /\ stop' = TRUE
  /\ UNCHANGED <<holder, opts, pc, tries, nodeVars>>

-----------------------------------------------------------------------------
ConnInit ==
  /\ holder = NoCaller
  /\ opts = [price |-> MaxGasPrice, priceBy |-> NoCaller,
             nonce |-> 0, nonceBy |-> NoCaller]
  /\ pc = [c \in Callers |-> "top"]
  /\ tries = [c \in Callers |-> 0]
  /\ stop = FALSE
  /\ txs = [n \in Nonces |-> NoTx]
  /\ mined = 0
  /\ evicted = FALSE

Step(c) ==
  \/ Top(c) \/ Lock(c) \/ EstimateGas(c) \/ UpdateNonce(c)
  \/ Submit(c) \/ Unlock(c) \/ Check(c)

ConnNext ==
  \/ \E c \in Callers : Step(c)
  \/ Mine
  \/ \E n \in Nonces : Evict(n)
  \/ Stop

ConnSpec == ConnInit /\ [][ConnNext]_connVars

\* The Go scheduler runs every goroutine, and RPCs return: with a result or
\* an error.  A mutex is handed to a goroutine that waits when it is free.
ConnFairSpec == ConnSpec /\ \A c \in Callers : WF_connVars(Step(c))

-----------------------------------------------------------------------------
(* Properties.                                                             *)

\* Every variable keeps its type.
ConnTypeOK ==
  /\ holder \in Callers \cup {NoCaller}
  /\ opts \in [price : 0 .. MaxGasPrice, priceBy : Callers \cup {NoCaller},
               nonce : Nonces, nonceBy : Callers \cup {NoCaller}]
  /\ pc \in [Callers -> PCs]
  /\ tries \in [Callers -> 0 .. TxRetryLimit - 1]
  /\ stop \in BOOLEAN
  /\ txs \in [Nonces -> [sender : Callers, price : 0 .. MaxGasPrice]
                          \cup {NoTx}]
  /\ mined \in 0 .. MaxNonce + 1
  /\ evicted \in BOOLEAN

\* The lock of LockAndUpdateOpts spans the submission: the price and the nonce
\* a caller submits with are those it has just fetched itself.
SubmitsOwnOpts ==
  \A c \in Callers : pc[c] = "submit" => opts.priceBy = c /\ opts.nonceBy = c

Lane == INSTANCE TxLane WITH lane <- txs, disturbed <- evicted,
          Txs <- [sender : Callers, price : 0 .. MaxGasPrice]

\* The shared opts, the lock and the node together behave like a lane of
\* nonces: no transaction of the relayer replaces another, none pays more than
\* the maximum, and without evictions there is no gap before a transaction.
ImplementsLane == Lane!LaneSpec

\* No error path keeps the lock: every attempt of every caller comes to an end,
\* also when others fail.
EveryCallReturns == \A c \in Callers : <>(pc[c] = "done")

===============================================================================
