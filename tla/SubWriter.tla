------------------------------- MODULE SubWriter -------------------------------
(***************************************************************************)
(* The Substrate writer of one relayer: ResolveMessage and proposalValid   *)
(* (chains/substrate/writer.go) with SubmitTx and watchSubmission          *)
(* (connection.go).  Every message is resolved in a goroutine of its own,  *)
(* and all of them share the connection's account nonce.                   *)
(*                                                                         *)
(* The bridge pallet, the votes of the other relayers, the transaction     *)
(* pool and the forks of the best chain are external.                      *)
(***************************************************************************)
EXTENDS Integers

CONSTANTS
  Resolvers,       \* goroutines in ResolveMessage
  Proposals,
  PropOf,          \* PropOf[g]: the proposal of g's message
  Threshold,       \* votes that decide a proposal
  Others,          \* bound: votes of the other relayers on one proposal
  BlockRetryLimit,
  StartNonce,      \* the account's nonce when the relayer starts
  MaxNonce,        \* bound: above every number of submissions
  MaxForks,        \* bound: how often a fork retracts the newest extrinsic
  NoTx, Nobody,
  Faults           \* what may go wrong: subset of FaultKinds

\* Failing RPCs, a proposal that cannot be constructed, a submission the node
\* refuses or that does not reach it, a broken subscription, an extrinsic that
\* is dropped or found invalid, and a stop.
FaultKinds == {"rpc", "construct", "refuse", "subscription", "drop", "stop"}

Nonces == StartNonce .. MaxNonce

ASSUME ConstantsAssumption ==
  /\ PropOf \in [Resolvers -> Proposals]
  /\ Threshold \in Nat \ {0}
  /\ Others \in Nat
  /\ BlockRetryLimit \in Nat \ {0}
  /\ StartNonce \in Nat /\ MaxNonce \in Nat /\ StartNonce <= MaxNonce
  /\ MaxForks \in Nat
  /\ Nobody \notin Resolvers
  /\ NoTx \notin [by : Resolvers, place : {"pool", "block", "gone"},
                  counted : BOOLEAN, included : BOOLEAN]
  /\ Faults \subseteq FaultKinds

VARIABLES
  support,   \* support[p]: votes on p in the best chain; Threshold decides it
  mine,      \* mine[p]: this relayer's vote is one of them
  nonce,     \* the account's nonce in the best chain
  txs,       \* txs[n]: the relayer's extrinsic with nonce n, or NoTx
  connNonce, \* c.nonce: the nonce of the next extrinsic
  holder,    \* who holds nonceLock, or Nobody
  pc,        \* pc[g]: where goroutine g is
  attempt,   \* attempt[g]: failed attempts of ResolveMessage
  sent,      \* sent[g]: nonce of the extrinsic g watches
  stop,      \* the stop channel is closed
  forks,     \* retractions so far
  gaveUp,    \* history: goroutines that returned without a vote
  mishaps    \* history: submissions that failed and extrinsics that were lost

chainVars == <<support, mine, nonce, txs, forks>>
vars == <<support, mine, nonce, txs, connNonce, holder, pc, attempt, sent,
    stop,
          forks, gaveUp, mishaps>>

PCs == {"idle", "build", "valid?", "call", "lock", "nonce", "sign", "submit",
        "watch", "voted", "done"}

-----------------------------------------------------------------------------
(* The chain.                                                              *)

Decided(p) == support[p] >= Threshold

OtherVote(p) ==
  /\ ~Decided(p)
  /\ support[p] < Others + (IF mine[p] THEN 1 ELSE 0)
  /\ support' = [support EXCEPT ![p] = @ + 1]
  /\ UNCHANGED <<mine, nonce, txs, connNonce, holder, pc, attempt, sent, stop,
                 forks, gaveUp, mishaps>>

\* The next extrinsic of the account is included in a block.  The pallet counts
\* its vote unless the proposal is decided or has the relayer's vote already.
Include ==
  /\ nonce \in Nonces /\ txs[nonce] # NoTx /\ txs[nonce].place = "pool"
  /\ LET p == PropOf[txs[nonce].by]
         counts == ~Decided(p) /\ ~mine[p]
     IN  /\ IF counts
            THEN /\ mine' = [mine EXCEPT ![p] = TRUE]
                 /\ support' = [support EXCEPT ![p] = @ + 1]
            ELSE UNCHANGED <<support, mine>>
         /\ txs' = [txs EXCEPT ![nonce] = [by |-> @.by, place |-> "block",
                                           counted |-> counts,
                                           included |-> TRUE]]
  /\ nonce' = nonce + 1
  /\ UNCHANGED <<connNonce, holder, pc, attempt, sent, stop, forks, gaveUp,
                 mishaps>>

\* A fork retracts the block of the last extrinsic, which goes back to the pool.
Retract ==
  /\ forks < MaxForks /\ nonce > StartNonce
  /\ forks' = forks + 1
  /\ LET last == nonce - 1
         p == PropOf[txs[last].by]
     IN  /\ IF txs[last].counted
            THEN /\ mine' = [mine EXCEPT ![p] = FALSE]
                 /\ support' = [support EXCEPT ![p] = @ - 1]
            ELSE UNCHANGED <<support, mine>>
         /\ txs' = [txs EXCEPT ![last] = [by |-> @.by, place |-> "pool",
                                          counted |-> FALSE,
                                              included |-> TRUE]]
         /\ nonce' = last
  /\ UNCHANGED <<connNonce, holder, pc, attempt, sent, stop, gaveUp, mishaps>>

\* The pool drops an extrinsic or finds it invalid.
Drop(n) ==
  /\ "drop" \in Faults /\ txs[n] # NoTx /\ txs[n].place = "pool"
  /\ txs' = [txs EXCEPT ![n].place = "gone"]
  /\ mishaps' = mishaps \cup {n}
  /\ UNCHANGED <<support, mine, nonce, forks, connNonce, holder, pc, attempt,
                 sent, stop, gaveUp>>

-----------------------------------------------------------------------------
(* ResolveMessage.                                                         *)

Goto(g, label) ==
  /\ pc' = [pc EXCEPT ![g] = label]
  /\ UNCHANGED <<attempt, gaveUp>>

OneTooMany(g) == attempt[g] < BlockRetryLimit
AttemptsLeft(g) == attempt[g] + 1 < BlockRetryLimit

\* An attempt failed.  After the last one ResolveMessage returns, and nothing
\* tells the core.
Fail(g) ==
  IF AttemptsLeft(g)
  THEN /\ pc' = [pc EXCEPT ![g] = "valid?"]
       /\ attempt' = [attempt EXCEPT ![g] = @ + 1]
       /\ UNCHANGED gaveUp
  ELSE /\ pc' = [pc EXCEPT ![g] = "done"]
       /\ gaveUp' = gaveUp \cup {g}
       /\ UNCHANGED attempt

\* router.Send starts the goroutine.
Deliver(g) ==
  /\ pc[g] = "idle" /\ Goto(g, "build")
  /\ UNCHANGED <<chainVars, connNonce, holder, sent, stop, mishaps>>

Build(g) ==
  /\ pc[g] = "build" /\ Goto(g, "valid?")
  /\ UNCHANGED <<chainVars, connNonce, holder, sent, stop, mishaps>>

\* A message of an unknown type or for an unknown resource, or a failing look-up
\* of the resource: the error goes to sysErr, and the core stops everything.
BuildError(g) ==
  /\ pc[g] = "build" /\ "construct" \in Faults
  /\ pc' = [pc EXCEPT ![g] = "done"]
  /\ stop' = TRUE
  /\ gaveUp' = gaveUp \cup {g}
  /\ UNCHANGED <<chainVars, connNonce, holder, attempt, sent, mishaps>>

Untouched(p) == support[p] = 0
\* proposalValid: no vote has been cast, or it is active and lacks our vote.
Valid(p) == support[p] = 0 \/ (~Decided(p) /\ ~mine[p])

ProposalValid(g) ==
  /\ pc[g] = "valid?"
  /\ Goto(g, IF Valid(PropOf[g]) THEN "call" ELSE "done")
  /\ UNCHANGED <<chainVars, connNonce, holder, sent, stop, mishaps>>

\* SubmitTx constructs the call and asks for the runtime version.
ConstructCall(g) ==
  /\ pc[g] = "call" /\ Goto(g, "lock")
  /\ UNCHANGED <<chainVars, connNonce, holder, sent, stop, mishaps>>

\* Either of the two queries above fails.
QueryError(g) ==
  /\ pc[g] \in {"valid?", "call"} /\ "rpc" \in Faults
  /\ Fail(g)
  /\ UNCHANGED <<chainVars, connNonce, holder, sent, stop, mishaps>>

-----------------------------------------------------------------------------
(* SubmitTx, from nonceLock on.                                            *)

NoLock == TRUE
LockFree == holder = Nobody

Lock(g) ==
  /\ pc[g] = "lock" /\ LockFree
  /\ holder' = g
  /\ Goto(g, "nonce")
  /\ UNCHANGED <<chainVars, connNonce, sent, stop, mishaps>>

Newer == IF nonce > connNonce THEN nonce ELSE connNonce

\* getLatestNonce reads the account in the best block; the greater one counts.
UpdateNonce(g) ==
  /\ pc[g] = "nonce"
  /\ connNonce' = Newer
  /\ Goto(g, "sign")
  /\ UNCHANGED <<chainVars, holder, sent, stop, mishaps>>

\* The signed extrinsic carries the nonce.
Sign(g) ==
  /\ pc[g] = "sign" /\ connNonce \in Nonces
  /\ sent' = [sent EXCEPT ![g] = connNonce]
  /\ Goto(g, "submit")
  /\ UNCHANGED <<chainVars, connNonce, holder, stop, mishaps>>

Skipped == connNonce + 1
Kept == connNonce

\* The look-up or the signature fails.
UpdateNonceError(g) ==
  /\ pc[g] \in {"nonce", "sign"} /\ "rpc" \in Faults
  /\ holder' = Nobody
  /\ connNonce' = Kept
  /\ Fail(g)
  /\ UNCHANGED <<chainVars, sent, stop, mishaps>>

\* The node takes an extrinsic on a nonce that is neither used nor taken.
Accepts(n) == n >= nonce /\ (txs[n] # NoTx => txs[n].place = "gone")

\* The nonce is counted up and the lock released whatever the node answers.
Submit(g) ==
  /\ pc[g] = "submit" /\ Accepts(sent[g])
  /\ txs' = [txs EXCEPT ![sent[g]] = [by |-> g, place |-> "pool",
                                      counted |-> FALSE, included |-> FALSE]]
  /\ connNonce' = connNonce + 1
  /\ holder' = Nobody
  /\ Goto(g, "watch")
  /\ UNCHANGED <<support, mine, nonce, forks, sent, stop, mishaps>>

SubmitError(g) ==
  /\ pc[g] = "submit"
  /\ "refuse" \in Faults \/ ~Accepts(sent[g])
  /\ mishaps' = mishaps \cup {sent[g]}
  /\ connNonce' = connNonce + 1
  /\ holder' = Nobody
  /\ Fail(g)
  /\ UNCHANGED <<chainVars, sent, stop>>

-----------------------------------------------------------------------------
(* watchSubmission.                                                        *)

Accepted(g) == TRUE
\* The first status the loop returns on: the extrinsic is in a block.  Later
\* ones, about a fork, come when nobody listens any more.
InBlock(g) == txs[sent[g]].included

WatchInBlock(g) ==
  /\ pc[g] = "watch" /\ InBlock(g)
  /\ Goto(g, "voted")
  /\ UNCHANGED <<chainVars, connNonce, holder, sent, stop, mishaps>>

\* Dropped and invalid are errors; a status like future keeps the loop waiting.
WatchLost(g) ==
  /\ pc[g] = "watch" /\ txs[sent[g]].place = "gone"
  /\ Fail(g)
  /\ UNCHANGED <<chainVars, connNonce, holder, sent, stop, mishaps>>

WatchError(g) ==
  /\ pc[g] = "watch" /\ "subscription" \in Faults
  /\ Fail(g)
  /\ UNCHANGED <<chainVars, connNonce, holder, sent, stop, mishaps>>

\* TerminatedError: ResolveMessage returns false.
WatchStop(g) ==
  /\ pc[g] = "watch" /\ stop
  /\ pc' = [pc EXCEPT ![g] = "done"]
  /\ gaveUp' = gaveUp \cup {g}
  /\ UNCHANGED <<chainVars, connNonce, holder, attempt, sent, stop, mishaps>>

Stop ==
  /\ "stop" \in Faults /\ ~stop
  /\ stop' = TRUE
  /\ UNCHANGED <<chainVars, connNonce, holder, pc, attempt, sent, gaveUp,
      mishaps>>

-----------------------------------------------------------------------------
Init ==
  /\ support = [p \in Proposals |-> 0]
  /\ mine = [p \in Proposals |-> FALSE]
  /\ nonce = StartNonce
  /\ txs = [n \in Nonces |-> NoTx]
  /\ connNonce = 0
  /\ holder = Nobody
  /\ pc = [g \in Resolvers |-> "idle"]
  /\ attempt = [g \in Resolvers |-> 0]
  /\ sent = [g \in Resolvers |-> StartNonce]
  /\ stop = FALSE
  /\ forks = 0
  /\ gaveUp = {}
  /\ mishaps = {}

\* What goroutine g does when nothing fails, and when something does.
Proceed(g) ==
  \/ Build(g) \/ ProposalValid(g) \/ ConstructCall(g)
  \/ Lock(g) \/ UpdateNonce(g) \/ Sign(g) \/ Submit(g)
  \/ WatchInBlock(g) \/ WatchLost(g) \/ WatchStop(g)
Fault(g) ==
  \/ BuildError(g) \/ QueryError(g) \/ UpdateNonceError(g) \/ SubmitError(g)
  \/ WatchError(g)

Next ==
  \/ \E g \in Resolvers : Deliver(g) \/ Proceed(g) \/ Fault(g)
  \/ \E p \in Proposals : OtherVote(p)
  \/ Include \/ Retract
  \/ \E n \in Nonces : Drop(n)
  \/ Stop

Spec == Init /\ [][Next]_vars

\* The Go scheduler runs every goroutine, queries are answered, and the chain
\* includes an extrinsic whose turn it is.
FairSpec ==
  /\ Spec
  /\ \A g \in Resolvers : WF_vars(Proceed(g))
  /\ WF_vars(Include)

-----------------------------------------------------------------------------
(* Properties.                                                             *)

Extrinsics == [by : Resolvers, place : {"pool", "block", "gone"},
               counted : BOOLEAN, included : BOOLEAN]

\* Every variable keeps its type.
TypeOK ==
  /\ support \in [Proposals -> 0 .. Threshold]
  /\ mine \in [Proposals -> BOOLEAN]
  /\ nonce \in StartNonce .. MaxNonce + 1
  /\ txs \in [Nonces -> Extrinsics \cup {NoTx}]
  /\ connNonce \in 0 .. MaxNonce + 1
  /\ holder \in Resolvers \cup {Nobody}
  /\ pc \in [Resolvers -> PCs]
  /\ attempt \in [Resolvers -> 0 .. BlockRetryLimit - 1]
  /\ sent \in [Resolvers -> Nonces]
  /\ stop \in BOOLEAN
  /\ forks \in 0 .. MaxForks
  /\ gaveUp \subseteq Resolvers
  /\ mishaps \subseteq Nonces

\* nonceLock with the count kept in the connection: whoever is about to submit
\* has signed for a nonce no other goroutine's extrinsic has, and none the chain
\* has passed, so the node never refuses it for its nonce.
NonceIsFree ==
  \A g \in Resolvers :
    pc[g] = "submit" => txs[sent[g]] = NoTx /\ sent[g] >= nonce

\* When ResolveMessage counts a vote as submitted, the vote is on the chain or
\* comes too late to matter.  Only a fork can take it back.
AcknowledgedIsVoted ==
  \A g \in Resolvers : pc[g] = "voted" =>
    \/ mine[PropOf[g]] \/ Decided(PropOf[g])
    \/ txs[sent[g]].included /\ txs[sent[g]].place # "block"

\* The extrinsics follow each other without a gap, and each can be included,
\* until a submission fails or the pool loses one of them.
NoGapWithoutMishap ==
  mishaps = {} => \A n \in Nonces : nonce <= n /\ n < connNonce =>
                    txs[n] # NoTx /\ txs[n].place = "pool"

\* Whose extrinsic has nonce n, wherever it is.
Authors == [n \in Nonces |-> IF txs[n] = NoTx THEN Nobody ELSE txs[n].by]

Lane == INSTANCE TxLane WITH lane <- Authors, disturbed <- mishaps # {},
          Txs <- Resolvers, NoTx <- Nobody

\* The connection's nonce, the lock and the account together behave like a lane
\* of nonces, which only a mishap disturbs: also a nonce whose extrinsic the
\* pool has lost is never used again.
ImplementsLane == Lane!LaneSpec

\* The relayer votes: once a message has been delivered, its proposal gets the
\* relayer's vote or is decided by the others, unless ResolveMessage has used up
\* its attempts or been stopped, or an extrinsic was refused or lost.
DeliveredIsVoted ==
  \A g \in Resolvers :
    pc[g] = "build" ~> \/ mine[PropOf[g]] \/ Decided(PropOf[g])
                       \/ g \in gaveUp \/ mishaps # {}

-----------------------------------------------------------------------------
(* A claim of a comment that the code does not keep.                       *)

\* writer.go, ResolveMessage: "If active submit call, otherwise skip it. Retry
\* on failure."  After a failed submission with attempts left, the relayer's
\* vote is cast, or the proposal decided without it, or the retries end.
RetryOnFailure ==
  \A g \in Resolvers :
    (pc[g] = "valid?" /\ attempt[g] > 0)
      ~> (mine[PropOf[g]] \/ Decided(PropOf[g]) \/ pc[g] = "done")

===============================================================================
