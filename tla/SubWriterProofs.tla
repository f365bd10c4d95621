---------------------------- MODULE SubWriterProofs ----------------------------
(***************************************************************************)
(* Proofs about SubWriter, for any number of messages, attempts and        *)
(* relayers, any forks and any faults.                                     *)
(*                                                                         *)
(* WriterInv is the ownership of nonceLock: between Lock and the end of    *)
(* the submission the holder's signed nonce is the count of the            *)
(* connection.  ChainInv says what the count means on the chain: every     *)
(* extrinsic lies below it, included ones come first, and each proposal's  *)
(* vote is counted with one extrinsic at most.                             *)
(***************************************************************************)
EXTENDS SubWriter, TLAPS

\* Blocks hold the extrinsics in the order of their nonces.
InOrder ==
  \A n \in Nonces :
    /\ n < nonce => txs[n] # NoTx /\ txs[n].place = "block"
    /\ txs[n] # NoTx /\ txs[n].place = "block" => n < nonce /\ txs[n].included

BelowCount == \A n \in Nonces : txs[n] # NoTx => n < connNonce

Counted(n, p) ==
  txs[n] # NoTx /\ txs[n].counted /\ txs[n].place = "block" /\ PropOf[txs[n].by] = p

CountedIsIncluded ==
  \A n \in Nonces : txs[n] # NoTx /\ txs[n].counted => txs[n].place = "block"

\* Our vote on a proposal is the one of exactly one extrinsic.
OneVote ==
  \A p \in Proposals :
    /\ mine[p] => support[p] >= 1 /\ \E n \in Nonces : Counted(n, p)
    /\ \A n \in Nonces : Counted(n, p) => mine[p]
    /\ \A m, n \in Nonces : Counted(m, p) /\ Counted(n, p) => m = n

\* An included extrinsic whose vote does not count came after one whose vote
\* does, or found the proposal decided by the others.
LateVotes ==
  \A n \in Nonces :
    txs[n] # NoTx /\ txs[n].place = "block" /\ ~txs[n].counted =>
      \/ \E m \in Nonces : m < n /\ Counted(m, PropOf[txs[n].by])
      \/ Decided(PropOf[txs[n].by]) /\ ~mine[PropOf[txs[n].by]]

ChainInv ==
  /\ InOrder /\ BelowCount /\ CountedIsIncluded /\ OneVote /\ LateVotes
  /\ NoGapWithoutMishap

LockOwned ==
  \A g \in Resolvers : pc[g] \in {"nonce", "sign", "submit"} => holder = g

SignedIsNext ==
  \A g \in Resolvers :
    /\ pc[g] \in {"sign", "submit"} => nonce <= connNonce
    /\ pc[g] = "submit" => sent[g] = connNonce

WatchesItsOwn ==
  \A g \in Resolvers :
    /\ pc[g] \in {"watch", "voted"} =>
         txs[sent[g]] # NoTx /\ txs[sent[g]].by = g
    /\ pc[g] = "voted" => txs[sent[g]].included

WriterInv == LockOwned /\ SignedIsNext /\ WatchesItsOwn

IInv == TypeOK /\ ChainInv /\ WriterInv

-----------------------------------------------------------------------------
\* What NoTx and Nobody are not.
LEMMA NotNoTx == \A e \in Extrinsics : e # NoTx
BY ConstantsAssumption DEF Extrinsics

LEMMA InitIInv == Init => IInv
<1> SUFFICES ASSUME Init PROVE IInv OBVIOUS
<1>1. TypeOK
  <2>1. support \in [Proposals -> 0 .. Threshold]
    BY ConstantsAssumption DEF Init
  <2>2. mine \in [Proposals -> BOOLEAN] /\ stop \in BOOLEAN
    BY DEF Init
  <2>3. /\ nonce \in StartNonce .. MaxNonce + 1 /\ connNonce \in 0 .. MaxNonce + 1
        /\ forks \in 0 .. MaxForks
    BY ConstantsAssumption DEF Init
  <2>4. /\ txs \in [Nonces -> Extrinsics \cup {NoTx}]
        /\ pc \in [Resolvers -> PCs] /\ holder \in Resolvers \cup {Nobody}
        /\ gaveUp \subseteq Resolvers /\ mishaps \subseteq Nonces
    BY DEF Init, PCs
  <2>5. attempt \in [Resolvers -> 0 .. BlockRetryLimit - 1]
    BY ConstantsAssumption DEF Init
  <2>6. sent \in [Resolvers -> Nonces]
    BY ConstantsAssumption DEF Init, Nonces
  <2>7. QED BY <2>1, <2>2, <2>3, <2>4, <2>5, <2>6 DEF TypeOK
<1>2. ChainInv
  BY ConstantsAssumption DEF Init, ChainInv, InOrder, BelowCount, Nonces,
    CountedIsIncluded, OneVote, Counted, LateVotes, NoGapWithoutMishap
<1>3. WriterInv
  BY DEF Init, WriterInv, LockOwned, SignedIsNext, WatchesItsOwn
<1>4. QED BY <1>1, <1>2, <1>3 DEF IInv

-----------------------------------------------------------------------------
(* Steps that leave the chain and the nonces alone.                        *)

\* ChainInv speaks of the chain, the count and the mishaps only.
LEMMA ChainUntouched ==
  ASSUME ChainInv, UNCHANGED <<chainVars, connNonce, mishaps>>
  PROVE  ChainInv'
BY DEF ChainInv, chainVars, InOrder, BelowCount, CountedIsIncluded, OneVote,
  Counted, LateVotes, Decided, NoGapWithoutMishap

\* A goroutine moves somewhere outside the lock.
LEMMA QuietStep ==
  ASSUME IInv, NEW g \in Resolvers,
         NEW l \in {"build", "valid?", "call", "lock", "done"},
         pc' = [pc EXCEPT ![g] = l],
         UNCHANGED <<chainVars, connNonce, holder, sent, mishaps>>,
         attempt' \in [Resolvers -> 0 .. BlockRetryLimit - 1],
         gaveUp' \subseteq Resolvers, stop' \in BOOLEAN
  PROVE  IInv'
<1>1. TypeOK' BY DEF IInv, TypeOK, PCs, chainVars
<1>2. ChainInv' BY ChainUntouched DEF IInv
<1>3. WriterInv'
  BY DEF IInv, TypeOK, WriterInv, LockOwned, SignedIsNext, WatchesItsOwn,
    chainVars
<1>4. QED BY <1>1, <1>2, <1>3 DEF IInv

\* Goto is a quiet move.
LEMMA GotoIsQuiet ==
  ASSUME IInv, NEW g \in Resolvers,
         NEW l \in {"build", "valid?", "call", "lock", "done"}, Goto(g, l),
         UNCHANGED <<chainVars, connNonce, holder, sent, stop, mishaps>>
  PROVE  IInv'
<1>1. /\ pc' = [pc EXCEPT ![g] = l] /\ attempt' = attempt /\ gaveUp' = gaveUp
      /\ stop' = stop
  BY DEF Goto
<1>2. QED BY <1>1, QuietStep DEF IInv, TypeOK

\* A failed attempt starts another one or ends the goroutine.
LEMMA FailStays ==
  ASSUME TypeOK, NEW g \in Resolvers, Fail(g)
  PROVE  /\ attempt' \in [Resolvers -> 0 .. BlockRetryLimit - 1]
         /\ gaveUp' \subseteq Resolvers
         /\ \E l \in {"valid?", "done"} : pc' = [pc EXCEPT ![g] = l]
<1>1. CASE AttemptsLeft(g)
  <2>1. /\ pc' = [pc EXCEPT ![g] = "valid?"] /\ gaveUp' = gaveUp
        /\ attempt' = [attempt EXCEPT ![g] = @ + 1]
    BY <1>1 DEF Fail
  <2>2. attempt[g] + 1 \in 0 .. BlockRetryLimit - 1
    BY <1>1, ConstantsAssumption DEF TypeOK, AttemptsLeft
  <2>3. QED BY <2>1, <2>2 DEF TypeOK
<1>2. CASE ~AttemptsLeft(g)
  BY <1>2 DEF Fail, TypeOK
<1>3. QED BY <1>1, <1>2

LEMMA FailIsQuiet ==
  ASSUME IInv, NEW g \in Resolvers, Fail(g),
         UNCHANGED <<chainVars, connNonce, holder, sent, stop, mishaps>>
  PROVE  IInv'
<1>1. PICK l \in {"valid?", "done"} : pc' = [pc EXCEPT ![g] = l]
  BY FailStays DEF IInv
<1>2. QED BY <1>1, FailStays, QuietStep DEF IInv, TypeOK

\* Every quiet step of a goroutine preserves the invariant.
LEMMA Quiet ==
  ASSUME IInv, NEW g \in Resolvers,
         \/ Deliver(g) \/ Build(g) \/ BuildError(g) \/ ProposalValid(g)
         \/ ConstructCall(g) \/ QueryError(g) \/ WatchLost(g) \/ WatchError(g)
         \/ WatchStop(g)
  PROVE  IInv'
<1>1. CASE Deliver(g) BY <1>1, GotoIsQuiet DEF Deliver
<1>2. CASE Build(g) BY <1>2, GotoIsQuiet DEF Build
<1>3. CASE BuildError(g)
  <2>1. /\ pc' = [pc EXCEPT ![g] = "done"] /\ stop' = TRUE
        /\ gaveUp' = gaveUp \cup {g} /\ attempt' = attempt
        /\ UNCHANGED <<chainVars, connNonce, holder, sent, mishaps>>
    BY <1>3 DEF BuildError
  <2>2. QED BY <2>1, QuietStep DEF IInv, TypeOK
<1>4. CASE ProposalValid(g)
  <2>1. Goto(g, "call") \/ Goto(g, "done") BY <1>4 DEF ProposalValid
  <2>2. QED BY <1>4, <2>1, GotoIsQuiet DEF ProposalValid
<1>5. CASE ConstructCall(g) BY <1>5, GotoIsQuiet DEF ConstructCall
<1>6. CASE QueryError(g) BY <1>6, FailIsQuiet DEF QueryError
<1>7. CASE WatchLost(g) BY <1>7, FailIsQuiet DEF WatchLost
<1>8. CASE WatchError(g) BY <1>8, FailIsQuiet DEF WatchError
<1>9. CASE WatchStop(g)
  <2>1. /\ pc' = [pc EXCEPT ![g] = "done"] /\ stop' = stop
        /\ gaveUp' = gaveUp \cup {g} /\ attempt' = attempt
        /\ UNCHANGED <<chainVars, connNonce, holder, sent, mishaps>>
    BY <1>9 DEF WatchStop
  <2>2. QED BY <2>1, QuietStep DEF IInv, TypeOK
<1>10. QED BY <1>1, <1>2, <1>3, <1>4, <1>5, <1>6, <1>7, <1>8, <1>9

-----------------------------------------------------------------------------
(* Steps under the lock, and the end of the watch.                         *)

\* The count of the connection grows, or stays, up to the chain's nonce.
LEMMA LockStep ==
  ASSUME IInv, NEW g \in Resolvers, Lock(g)
  PROVE  IInv'
<1>1. /\ holder = Nobody /\ holder' = g /\ pc' = [pc EXCEPT ![g] = "nonce"]
      /\ UNCHANGED <<chainVars, connNonce, attempt, sent, stop, gaveUp, mishaps>>
  BY DEF Lock, LockFree, Goto
<1>2. TypeOK' BY <1>1 DEF IInv, TypeOK, PCs, chainVars
<1>3. ChainInv' BY <1>1, ChainUntouched DEF IInv
<1>4. LockOwned'
  BY <1>1, ConstantsAssumption DEF IInv, TypeOK, WriterInv, LockOwned
<1>5. SignedIsNext' /\ WatchesItsOwn'
  BY <1>1 DEF IInv, TypeOK, WriterInv, SignedIsNext, WatchesItsOwn, chainVars
<1>6. QED BY <1>2, <1>3, <1>4, <1>5 DEF IInv, WriterInv

LEMMA UpdateNonceStep ==
  ASSUME IInv, NEW g \in Resolvers, UpdateNonce(g)
  PROVE  IInv'
<1>1. /\ pc[g] = "nonce" /\ pc' = [pc EXCEPT ![g] = "sign"]
      /\ connNonce' = Newer
      /\ UNCHANGED <<chainVars, holder, attempt, sent, stop, gaveUp, mishaps>>
  BY DEF UpdateNonce, Goto
<1>2. /\ connNonce' \in 0 .. MaxNonce + 1
      /\ connNonce <= connNonce' /\ nonce <= connNonce'
      /\ connNonce' = connNonce \/ connNonce' = nonce
  BY <1>1, ConstantsAssumption DEF IInv, TypeOK, Newer
<1>3. TypeOK' BY <1>1, <1>2 DEF IInv, TypeOK, PCs, chainVars
<1>4. ChainInv'
  <2>1. /\ InOrder' /\ CountedIsIncluded' /\ OneVote' /\ LateVotes'
    BY <1>1 DEF IInv, ChainInv, chainVars, InOrder, CountedIsIncluded, OneVote,
      Counted, LateVotes, Decided
  <2>2. BelowCount'
    <3> SUFFICES ASSUME NEW n \in Nonces, txs'[n] # NoTx PROVE n < connNonce'
      BY DEF BelowCount
    <3>1. n < connNonce BY <1>1 DEF IInv, ChainInv, BelowCount, chainVars
    <3>2. QED BY <1>2, <3>1, ConstantsAssumption DEF IInv, TypeOK, Nonces
  <2>3. NoGapWithoutMishap'
    <3> SUFFICES ASSUME mishaps' = {}, NEW n \in Nonces,
                        nonce' <= n, n < connNonce'
                 PROVE  txs'[n] # NoTx /\ txs'[n].place = "pool"
      BY DEF NoGapWithoutMishap
    <3>1. connNonce' = connNonce
      BY <1>1, <1>2, ConstantsAssumption DEF IInv, TypeOK, Nonces, chainVars
    <3>2. QED BY <1>1, <3>1 DEF IInv, ChainInv, NoGapWithoutMishap, chainVars
  <2>4. QED BY <2>1, <2>2, <2>3 DEF ChainInv
<1>5. LockOwned' /\ WatchesItsOwn'
  BY <1>1 DEF IInv, TypeOK, WriterInv, LockOwned, WatchesItsOwn, chainVars
<1>6. SignedIsNext'
  <2>1. \A h \in Resolvers : pc'[h] # "submit"
    BY <1>1 DEF IInv, TypeOK, WriterInv, LockOwned
  <2>2. nonce' <= connNonce' BY <1>1, <1>2 DEF chainVars
  <2>3. QED BY <2>1, <2>2 DEF SignedIsNext
<1>7. QED BY <1>3, <1>4, <1>5, <1>6 DEF IInv, WriterInv

LEMMA SignStep ==
  ASSUME IInv, NEW g \in Resolvers, Sign(g)
  PROVE  IInv'
<1>1. /\ pc[g] = "sign" /\ pc' = [pc EXCEPT ![g] = "submit"]
      /\ connNonce \in Nonces /\ sent' = [sent EXCEPT ![g] = connNonce]
      /\ UNCHANGED <<chainVars, connNonce, holder, attempt, stop, gaveUp, mishaps>>
  BY DEF Sign, Goto
<1>2. TypeOK' BY <1>1 DEF IInv, TypeOK, PCs, chainVars
<1>3. ChainInv' BY <1>1, ChainUntouched DEF IInv
<1>4. WriterInv'
  BY <1>1 DEF IInv, TypeOK, WriterInv, LockOwned, SignedIsNext, WatchesItsOwn,
    chainVars
<1>5. QED BY <1>2, <1>3, <1>4 DEF IInv

LEMMA UpdateNonceErrorStep ==
  ASSUME IInv, NEW g \in Resolvers, UpdateNonceError(g)
  PROVE  IInv'
<1>1. /\ pc[g] \in {"nonce", "sign"} /\ Fail(g) /\ holder' = Nobody
      /\ UNCHANGED <<chainVars, connNonce, sent, stop, mishaps>>
  BY DEF UpdateNonceError, Kept
<1>2. PICK l \in {"valid?", "done"} : pc' = [pc EXCEPT ![g] = l]
  BY <1>1, FailStays DEF IInv
<1>3. TypeOK'
  BY <1>1, <1>2, FailStays DEF IInv, TypeOK, PCs, chainVars
<1>4. ChainInv' BY <1>1, ChainUntouched DEF IInv
<1>5. LockOwned'
  BY <1>1, <1>2 DEF IInv, TypeOK, WriterInv, LockOwned
<1>6. SignedIsNext' /\ WatchesItsOwn'
  BY <1>1, <1>2 DEF IInv, TypeOK, WriterInv, SignedIsNext, WatchesItsOwn,
    chainVars
<1>7. QED BY <1>3, <1>4, <1>5, <1>6 DEF IInv, WriterInv

\* The extrinsic whose block watchSubmission waited for is the goroutine's own.
LEMMA WatchInBlockStep ==
  ASSUME IInv, NEW g \in Resolvers, WatchInBlock(g)
  PROVE  IInv'
<1>1. /\ pc[g] = "watch" /\ txs[sent[g]].included
      /\ pc' = [pc EXCEPT ![g] = "voted"]
      /\ UNCHANGED <<chainVars, connNonce, holder, attempt, sent, stop, gaveUp,
                     mishaps>>
  BY DEF WatchInBlock, InBlock, Goto
<1>2. TypeOK' BY <1>1 DEF IInv, TypeOK, PCs, chainVars
<1>3. ChainInv' BY <1>1, ChainUntouched DEF IInv
<1>4. WriterInv'
  BY <1>1 DEF IInv, TypeOK, WriterInv, LockOwned, SignedIsNext, WatchesItsOwn,
    chainVars
<1>5. QED BY <1>2, <1>3, <1>4 DEF IInv

-----------------------------------------------------------------------------
(* Submissions.                                                            *)

\* The nonce of the extrinsic is the count, so it is above every other one.
LEMMA SubmitStep ==
  ASSUME IInv, NEW g \in Resolvers, Submit(g)
  PROVE  IInv'
<1> DEFINE s == sent[g]
           tx == [by |-> g, place |-> "pool", counted |-> FALSE,
                  included |-> FALSE]
<1>1. /\ pc[g] = "submit" /\ pc' = [pc EXCEPT ![g] = "watch"]
      /\ txs' = [txs EXCEPT ![s] = tx]
      /\ connNonce' = connNonce + 1 /\ holder' = Nobody
      /\ UNCHANGED <<support, mine, nonce, forks, sent, stop, mishaps, attempt,
                     gaveUp>>
  BY DEF Submit, Goto
<1>2. s \in Nonces /\ s = connNonce /\ nonce <= s /\ txs[s] = NoTx
  BY <1>1, ConstantsAssumption
  DEF IInv, TypeOK, WriterInv, SignedIsNext, ChainInv, BelowCount, Nonces
<1>3. tx \in Extrinsics /\ tx # NoTx
  <2>1. tx \in Extrinsics BY DEF Extrinsics
  <2>2. QED BY <2>1, NotNoTx
<1>4. /\ txs'[s] = tx
      /\ \A n \in Nonces \ {s} : txs'[n] = txs[n]
  BY <1>1, <1>2 DEF IInv, TypeOK
<1>5. connNonce' \in 0 .. MaxNonce + 1
  BY <1>1, <1>2, ConstantsAssumption DEF Nonces
<1>6. TypeOK'
  <2>1. txs' \in [Nonces -> Extrinsics \cup {NoTx}]
    BY <1>1, <1>3 DEF IInv, TypeOK
  <2>2. QED BY <1>1, <1>5, <2>1 DEF IInv, TypeOK, PCs
<1>7. ChainInv'
  <2>1. InOrder'
    <3> SUFFICES ASSUME NEW n \in Nonces
                 PROVE  /\ n < nonce => txs'[n] # NoTx /\ txs'[n].place = "block"
                        /\ txs'[n] # NoTx /\ txs'[n].place = "block"
                             => n < nonce /\ txs'[n].included
      BY <1>1 DEF InOrder
    <3>1. CASE n = s
      <4>1. ~(n < nonce) BY <1>2, <3>1, ConstantsAssumption DEF IInv, TypeOK, Nonces
      <4>2. QED BY <1>4, <3>1, <4>1
    <3>2. CASE n # s BY <1>4, <3>2 DEF IInv, ChainInv, InOrder
    <3>3. QED BY <3>1, <3>2
  <2>2. BelowCount'
    <3> SUFFICES ASSUME NEW n \in Nonces, txs'[n] # NoTx PROVE n < connNonce'
      BY DEF BelowCount
    <3>1. CASE n = s BY <1>1, <1>2, <3>1, ConstantsAssumption DEF Nonces
    <3>2. CASE n # s
      <4>1. n < connNonce BY <1>4, <3>2 DEF IInv, ChainInv, BelowCount
      <4>2. QED BY <1>1, <1>2, <4>1, ConstantsAssumption DEF Nonces
    <3>3. QED BY <3>1, <3>2
  <2>3. CountedIsIncluded'
    BY <1>4 DEF IInv, ChainInv, CountedIsIncluded
  <2>4. \A n \in Nonces, p \in Proposals : Counted(n, p)' <=> Counted(n, p)
    BY <1>2, <1>4 DEF Counted
  <2>5. OneVote'
    BY <1>1, <2>4 DEF IInv, ChainInv, OneVote
  <2>6. LateVotes'
    <3> SUFFICES ASSUME NEW n \in Nonces, txs'[n] # NoTx,
                        txs'[n].place = "block", ~txs'[n].counted
                 PROVE  \/ \E m \in Nonces : m < n /\ Counted(m, PropOf[txs[n].by])'
                        \/ Decided(PropOf[txs[n].by]) /\ ~mine[PropOf[txs[n].by]]
      BY <1>1, <1>4 DEF LateVotes, Decided
    <3>1. n # s /\ txs'[n] = txs[n] BY <1>4
    <3>2. txs[n].by \in Resolvers BY <3>1 DEF IInv, TypeOK, Extrinsics
    <3>3. PropOf[txs[n].by] \in Proposals BY <3>2, ConstantsAssumption
    <3>4. QED BY <2>4, <3>1, <3>3 DEF IInv, ChainInv, LateVotes
  <2>7. NoGapWithoutMishap'
    <3> SUFFICES ASSUME mishaps = {}, NEW n \in Nonces, nonce <= n,
                        n < connNonce + 1
                 PROVE  txs'[n] # NoTx /\ txs'[n].place = "pool"
      BY <1>1 DEF NoGapWithoutMishap
    <3>1. CASE n = s BY <1>3, <1>4, <3>1
    <3>2. CASE n # s
      <4>1. n < connNonce
        BY <1>2, <3>2, ConstantsAssumption DEF Nonces
      <4>2. QED BY <1>4, <3>2, <4>1 DEF IInv, ChainInv, NoGapWithoutMishap
    <3>3. QED BY <3>1, <3>2
  <2>8. QED BY <2>1, <2>2, <2>3, <2>5, <2>6, <2>7 DEF ChainInv
<1>8. WriterInv'
  <2>1. LockOwned' BY <1>1 DEF IInv, TypeOK, WriterInv, LockOwned
  <2>2. SignedIsNext'
    <3>1. \A h \in Resolvers : pc'[h] \notin {"sign", "submit"}
      BY <1>1 DEF IInv, TypeOK, WriterInv, LockOwned
    <3>2. QED BY <3>1 DEF SignedIsNext
  <2>3. WatchesItsOwn'
    <3> SUFFICES ASSUME NEW h \in Resolvers, pc'[h] \in {"watch", "voted"}
                 PROVE  /\ txs'[sent[h]] # NoTx /\ txs'[sent[h]].by = h
                        /\ pc'[h] = "voted" => txs'[sent[h]].included
      BY <1>1 DEF WatchesItsOwn
    <3>1. CASE h = g
      BY <1>1, <1>3, <1>4, <3>1 DEF IInv, TypeOK
    <3>2. CASE h # g
      <4>1. pc'[h] = pc[h] /\ sent[h] \in Nonces
        BY <1>1, <3>2 DEF IInv, TypeOK
      <4>2. txs[sent[h]] # NoTx
        BY <4>1 DEF IInv, WriterInv, WatchesItsOwn
      <4>3. txs'[sent[h]] = txs[sent[h]] BY <1>2, <1>4, <4>1, <4>2
      <4>4. QED BY <4>1, <4>3 DEF IInv, WriterInv, WatchesItsOwn
    <3>3. QED BY <3>1, <3>2
  <2>4. QED BY <2>1, <2>2, <2>3 DEF WriterInv
<1>9. QED BY <1>6, <1>7, <1>8 DEF IInv

LEMMA SubmitErrorStep ==
  ASSUME IInv, NEW g \in Resolvers, SubmitError(g)
  PROVE  IInv'
<1>1. /\ pc[g] = "submit" /\ Fail(g) /\ holder' = Nobody
      /\ connNonce' = connNonce + 1 /\ mishaps' = mishaps \cup {sent[g]}
      /\ UNCHANGED <<chainVars, sent, stop>>
  BY DEF SubmitError
<1>2. PICK l \in {"valid?", "done"} : pc' = [pc EXCEPT ![g] = l]
  BY <1>1, FailStays DEF IInv
<1>3. sent[g] \in Nonces /\ connNonce = sent[g]
  BY <1>1 DEF IInv, TypeOK, WriterInv, SignedIsNext
<1>4. connNonce' \in 0 .. MaxNonce + 1
  BY <1>1, <1>3, ConstantsAssumption DEF Nonces
<1>5. TypeOK'
  <2>1. mishaps' \subseteq Nonces BY <1>1, <1>3 DEF IInv, TypeOK
  <2>2. QED BY <1>1, <1>2, <1>4, <2>1, FailStays DEF IInv, TypeOK, PCs, chainVars
<1>6. ChainInv'
  <2>1. /\ InOrder' /\ CountedIsIncluded' /\ OneVote' /\ LateVotes'
    BY <1>1 DEF IInv, ChainInv, chainVars, InOrder, CountedIsIncluded, OneVote,
      Counted, LateVotes, Decided
  <2>2. BelowCount'
    <3> SUFFICES ASSUME NEW n \in Nonces, txs'[n] # NoTx PROVE n < connNonce'
      BY DEF BelowCount
    <3>1. n < connNonce BY <1>1 DEF IInv, ChainInv, BelowCount, chainVars
    <3>2. QED BY <1>1, <1>3, <3>1, ConstantsAssumption DEF Nonces
  <2>3. NoGapWithoutMishap' BY <1>1 DEF NoGapWithoutMishap
  <2>4. QED BY <2>1, <2>2, <2>3 DEF ChainInv
<1>7. LockOwned' /\ SignedIsNext'
  <2>1. \A h \in Resolvers : pc'[h] \notin {"nonce", "sign", "submit"}
    BY <1>1, <1>2 DEF IInv, TypeOK, WriterInv, LockOwned
  <2>2. QED BY <2>1 DEF LockOwned, SignedIsNext
<1>8. WatchesItsOwn'
  BY <1>1, <1>2 DEF IInv, TypeOK, WriterInv, WatchesItsOwn, chainVars
<1>9. QED BY <1>5, <1>6, <1>7, <1>8 DEF IInv, WriterInv

-----------------------------------------------------------------------------
(* Steps of the chain.                                                     *)

\* WriterInv survives when no goroutine moves, the chain's nonce stays within
\* the count, and every extrinsic keeps its sender and its inclusion.
LEMMA WritersUntouched ==
  ASSUME IInv, UNCHANGED <<connNonce, holder, pc, sent>>,
         nonce' <= connNonce \/ nonce' = nonce,
         \A n \in Nonces : txs[n] # NoTx =>
           /\ txs'[n] # NoTx /\ txs'[n].by = txs[n].by
           /\ txs[n].included => txs'[n].included
  PROVE  WriterInv'
<1>1. LockOwned' BY DEF IInv, WriterInv, LockOwned
<1>2. SignedIsNext' BY DEF IInv, WriterInv, SignedIsNext
<1>3. WatchesItsOwn'
  <2> SUFFICES ASSUME NEW g \in Resolvers, pc[g] \in {"watch", "voted"}
               PROVE  /\ txs'[sent[g]] # NoTx /\ txs'[sent[g]].by = g
                      /\ pc[g] = "voted" => txs'[sent[g]].included
    BY DEF WatchesItsOwn
  <2>1. sent[g] \in Nonces BY DEF IInv, TypeOK
  <2>2. /\ txs[sent[g]] # NoTx /\ txs[sent[g]].by = g
        /\ pc[g] = "voted" => txs[sent[g]].included
    BY DEF IInv, WriterInv, WatchesItsOwn
  <2>3. QED BY <2>1, <2>2
<1>4. QED BY <1>1, <1>2, <1>3 DEF WriterInv

\* The others' votes end when the proposal is decided.
LEMMA OtherVoteStep ==
  ASSUME IInv, NEW p \in Proposals, OtherVote(p)
  PROVE  IInv'
<1>1. /\ ~Decided(p) /\ support' = [support EXCEPT ![p] = @ + 1]
      /\ UNCHANGED <<mine, nonce, txs, forks, connNonce, holder, pc, attempt,
                     sent, stop, gaveUp, mishaps>>
  BY DEF OtherVote
<1>2. support[p] + 1 \in 0 .. Threshold
  BY <1>1, ConstantsAssumption DEF IInv, TypeOK, Decided
<1>3. TypeOK' BY <1>1, <1>2 DEF IInv, TypeOK
<1>4. \A q \in Proposals : support'[q] >= support[q] /\ support[q] \in Nat
  BY <1>1, <1>2, ConstantsAssumption DEF IInv, TypeOK
<1>5. ChainInv'
  <2>1. InOrder' /\ BelowCount' /\ CountedIsIncluded' /\ NoGapWithoutMishap'
    BY <1>1 DEF IInv, ChainInv, InOrder, BelowCount, CountedIsIncluded,
      NoGapWithoutMishap
  <2>2. \A n \in Nonces, q \in Proposals : Counted(n, q)' <=> Counted(n, q)
    BY <1>1 DEF Counted
  <2>3. OneVote'
    <3>1. \A q \in Proposals : mine[q] => support'[q] >= 1
      <4> SUFFICES ASSUME NEW q \in Proposals, mine[q] PROVE support'[q] >= 1
        OBVIOUS
      <4>1. support[q] >= 1 BY DEF IInv, ChainInv, OneVote
      <4>2. support'[q] \in Nat BY <1>3, ConstantsAssumption DEF TypeOK
      <4>3. QED BY <1>4, <4>1, <4>2
    <3>2. QED BY <1>1, <2>2, <3>1 DEF IInv, ChainInv, OneVote
  <2>4. LateVotes'
    <3> SUFFICES ASSUME NEW n \in Nonces, txs[n] # NoTx,
                        txs[n].place = "block", ~txs[n].counted
                 PROVE  \/ \E m \in Nonces : m < n /\ Counted(m, PropOf[txs[n].by])'
                        \/ /\ support'[PropOf[txs[n].by]] >= Threshold
                           /\ ~mine[PropOf[txs[n].by]]
      BY <1>1 DEF LateVotes, Decided
    <3> DEFINE q == PropOf[txs[n].by]
    <3>1. q \in Proposals
      BY ConstantsAssumption DEF IInv, TypeOK, Extrinsics
    <3>2. support[q] >= Threshold => support'[q] >= Threshold
      <4>1. support'[q] \in Nat BY <1>3, <3>1, ConstantsAssumption DEF TypeOK
      <4>2. QED BY <1>4, <3>1, <4>1, ConstantsAssumption
    <3>3. QED BY <1>1, <2>2, <3>1, <3>2 DEF IInv, ChainInv, LateVotes, Decided
  <2>5. QED BY <2>1, <2>3, <2>4 DEF ChainInv
<1>6. WriterInv' BY <1>1, WritersUntouched
<1>7. QED BY <1>3, <1>5, <1>6 DEF IInv

\* An extrinsic the pool loses was not in a block.
LEMMA DropStep ==
  ASSUME IInv, NEW n \in Nonces, Drop(n)
  PROVE  IInv'
<1> DEFINE tx == [by |-> txs[n].by, place |-> "gone", counted |-> txs[n].counted,
                  included |-> txs[n].included]
<1>1. /\ txs[n] # NoTx /\ txs[n].place = "pool"
      /\ txs' = [txs EXCEPT ![n].place = "gone"]
      /\ mishaps' = mishaps \cup {n}
      /\ UNCHANGED <<support, mine, nonce, forks, connNonce, holder, pc, attempt,
                     sent, stop, gaveUp>>
  BY DEF Drop
<1>2. tx \in Extrinsics /\ tx # NoTx
  <2>1. tx \in Extrinsics BY <1>1 DEF IInv, TypeOK, Extrinsics
  <2>2. QED BY <2>1, NotNoTx
<1>3. txs'[n] = tx /\ \A m \in Nonces \ {n} : txs'[m] = txs[m]
  <2>1. txs[n] \in Extrinsics BY <1>1 DEF IInv, TypeOK
  <2>2. QED BY <1>1, <2>1 DEF IInv, TypeOK, Extrinsics
<1>4. TypeOK'
  <2>1. txs' \in [Nonces -> Extrinsics \cup {NoTx}]
    <3>1. txs' = [m \in Nonces |-> txs'[m]] BY <1>1 DEF IInv, TypeOK
    <3>2. \A m \in Nonces : txs'[m] \in Extrinsics \cup {NoTx}
      BY <1>2, <1>3 DEF IInv, TypeOK
    <3>3. QED BY <3>1, <3>2
  <2>2. QED BY <1>1, <2>1 DEF IInv, TypeOK
<1>5. ChainInv'
  <2>1. InOrder' /\ BelowCount' /\ CountedIsIncluded'
    BY <1>1, <1>2, <1>3 DEF IInv, ChainInv, InOrder, BelowCount,
      CountedIsIncluded
  <2>2. \A m \in Nonces, q \in Proposals : Counted(m, q)' <=> Counted(m, q)
    BY <1>1, <1>2, <1>3 DEF Counted
  <2>3. OneVote' BY <1>1, <2>2 DEF IInv, ChainInv, OneVote
  <2>4. LateVotes'
    <3> SUFFICES ASSUME NEW m \in Nonces, txs'[m] # NoTx,
                        txs'[m].place = "block", ~txs'[m].counted
                 PROVE  \/ \E k \in Nonces : k < m /\ Counted(k, PropOf[txs[m].by])'
                        \/ Decided(PropOf[txs[m].by]) /\ ~mine[PropOf[txs[m].by]]
      BY <1>1, <1>3 DEF LateVotes, Decided
    <3>1. m # n /\ txs'[m] = txs[m] BY <1>3
    <3>2. PropOf[txs[m].by] \in Proposals
      BY <3>1, ConstantsAssumption DEF IInv, TypeOK, Extrinsics
    <3>3. QED BY <2>2, <3>1, <3>2 DEF IInv, ChainInv, LateVotes
  <2>5. NoGapWithoutMishap' BY <1>1 DEF NoGapWithoutMishap
  <2>6. QED BY <2>1, <2>3, <2>4, <2>5 DEF ChainInv
<1>6. WriterInv' BY <1>1, <1>2, <1>3, WritersUntouched
<1>7. QED BY <1>4, <1>5, <1>6 DEF IInv

\* A stop changes the stop channel only.
LEMMA StopStep ==
  ASSUME IInv, Stop
  PROVE  IInv'
<1>1. /\ stop' = TRUE
      /\ UNCHANGED <<chainVars, connNonce, holder, pc, attempt, sent, gaveUp,
                     mishaps>>
  BY DEF Stop
<1>2. TypeOK' BY <1>1 DEF IInv, TypeOK, chainVars
<1>3. ChainInv' BY <1>1, ChainUntouched DEF IInv
<1>4. WriterInv' BY <1>1, WritersUntouched DEF chainVars
<1>5. QED BY <1>2, <1>3, <1>4 DEF IInv

\* The next extrinsic counts the relayer's vote unless it comes too late.
LEMMA IncludeStep ==
  ASSUME IInv, Include
  PROVE  IInv'
<1>1. PICK k \in Nonces : k = nonce BY DEF Include
<1>2. /\ txs[k] # NoTx /\ txs[k].place = "pool" /\ nonce' = k + 1
      /\ UNCHANGED <<connNonce, holder, pc, attempt, sent, stop, forks, gaveUp,
                     mishaps>>
  BY <1>1 DEF Include
<1>3. txs[k] \in Extrinsics BY <1>2 DEF IInv, TypeOK
<1>4. PICK p \in Proposals : p = PropOf[txs[k].by]
  BY <1>3, ConstantsAssumption DEF Extrinsics
<1> DEFINE counts == ~Decided(p) /\ ~mine[p]
           tx == [by |-> txs[k].by, place |-> "block", counted |-> counts,
                  included |-> TRUE]
<1>5. /\ txs' = [txs EXCEPT ![k] = tx]
      /\ IF counts THEN /\ mine' = [mine EXCEPT ![p] = TRUE]
                        /\ support' = [support EXCEPT ![p] = @ + 1]
                   ELSE UNCHANGED <<support, mine>>
  BY <1>1, <1>4 DEF Include
<1>6. tx \in Extrinsics /\ tx # NoTx
  <2>1. counts \in BOOLEAN BY DEF Decided
  <2>2. tx \in Extrinsics BY <1>3, <2>1 DEF Extrinsics
  <2>3. QED BY <2>2, NotNoTx
<1>7. TypeOK'
  <2>1. txs' \in [Nonces -> Extrinsics \cup {NoTx}]
    BY <1>5, <1>6 DEF IInv, TypeOK
  <2>2. mine' \in [Proposals -> BOOLEAN]
    BY <1>5 DEF IInv, TypeOK
  <2>3. support' \in [Proposals -> 0 .. Threshold]
    <3>1. support[p] \in 0 .. Threshold BY DEF IInv, TypeOK
    <3>2. counts => support[p] + 1 \in 0 .. Threshold
      BY <3>1, ConstantsAssumption DEF Decided
    <3>3. QED BY <1>5, <3>2 DEF IInv, TypeOK
  <2>4. nonce' \in StartNonce .. MaxNonce + 1
    BY <1>2, ConstantsAssumption DEF Nonces
  <2>5. QED BY <1>2, <2>1, <2>2, <2>3, <2>4 DEF IInv, TypeOK
\* What the step does to extrinsic k, to proposal p, and to the others.
<1>8. /\ txs'[k] # NoTx /\ txs'[k].by = txs[k].by /\ txs'[k].place = "block"
      /\ txs'[k].counted = counts /\ txs'[k].included
      /\ \A n \in Nonces \ {k} : txs'[n] = txs[n]
  BY <1>5, <1>6 DEF IInv, TypeOK
<1>9. /\ counts => mine'[p] /\ support'[p] = support[p] + 1
      /\ ~counts => mine'[p] = mine[p] /\ support'[p] = support[p]
      /\ \A q \in Proposals \ {p} :
           mine'[q] = mine[q] /\ support'[q] = support[q]
  BY <1>5 DEF IInv, TypeOK
<1>10. \A n \in Nonces \ {k}, q \in Proposals :
         Counted(n, q)' <=> Counted(n, q)
  BY <1>8 DEF Counted
<1>11. \A q \in Proposals :
         ~Counted(k, q) /\ (Counted(k, q)' <=> counts /\ q = p)
  <2>1. \A q \in Proposals : ~Counted(k, q) BY <1>2 DEF Counted
  <2>2. \A q \in Proposals : Counted(k, q)' <=> counts /\ q = p
    BY <1>4, <1>8 DEF Counted
  <2>3. QED BY <2>1, <2>2
<1>12. InOrder' /\ BelowCount' /\ CountedIsIncluded'
  <2>1. InOrder'
    <3> SUFFICES ASSUME NEW n \in Nonces
                 PROVE  /\ n < k + 1 => txs'[n] # NoTx /\ txs'[n].place = "block"
                        /\ txs'[n] # NoTx /\ txs'[n].place = "block"
                             => n < k + 1 /\ txs'[n].included
      BY <1>2 DEF InOrder
    <3>1. CASE n = k
      BY <1>8, <3>1, ConstantsAssumption DEF Nonces
    <3>2. CASE n # k
      <4>1. n < k + 1 <=> n < nonce
        BY <1>1, <3>2, ConstantsAssumption DEF Nonces
      <4>2. QED BY <1>8, <3>2, <4>1 DEF IInv, ChainInv, InOrder
    <3>3. QED BY <3>1, <3>2
  <2>2. BelowCount' BY <1>2, <1>8 DEF IInv, ChainInv, BelowCount
  <2>3. CountedIsIncluded' BY <1>8 DEF IInv, ChainInv, CountedIsIncluded
  <2>4. QED BY <2>1, <2>2, <2>3
<1>13. OneVote'
  <2>1. ASSUME NEW q \in Proposals, mine'[q]
        PROVE  support'[q] >= 1 /\ \E n \in Nonces : Counted(n, q)'
    <3>1. CASE q = p /\ counts
      <4>1. support'[p] = support[p] + 1 /\ support[p] \in 0 .. Threshold
        BY <1>9, <3>1 DEF IInv, TypeOK
      <4>2. support'[p] >= 1 BY <4>1, ConstantsAssumption
      <4>3. QED BY <1>11, <3>1, <4>2
    <3>2. CASE ~(q = p /\ counts)
      <4>1. mine[q] /\ support'[q] = support[q] BY <1>9, <2>1, <3>2
      <4>2. support[q] >= 1 /\ \E n \in Nonces : Counted(n, q)
        BY <4>1 DEF IInv, ChainInv, OneVote
      <4>3. PICK n \in Nonces : Counted(n, q) BY <4>2
      <4>4. Counted(n, q)' BY <1>10, <1>11, <4>3
      <4>5. QED BY <4>1, <4>2, <4>4
    <3>3. QED BY <3>1, <3>2
  <2>2. ASSUME NEW q \in Proposals, NEW n \in Nonces, Counted(n, q)'
        PROVE  mine'[q] /\ (n # k => mine[q])
    <3>1. CASE n = k BY <1>9, <1>11, <2>2, <3>1
    <3>2. CASE n # k
      <4>1. mine[q] BY <1>10, <2>2, <3>2 DEF IInv, ChainInv, OneVote
      <4>2. QED BY <1>9, <4>1
    <3>3. QED BY <3>1, <3>2
  <2>3. ASSUME NEW q \in Proposals, NEW m \in Nonces, NEW n \in Nonces,
               Counted(m, q)', Counted(n, q)'
        PROVE  m = n
    <3>1. CASE m # k /\ n # k
      BY <1>10, <2>3, <3>1 DEF IInv, ChainInv, OneVote
    <3>2. CASE m = k \/ n = k
      <4>1. q = p /\ ~mine[q] BY <1>11, <2>3, <3>2
      <4>2. QED BY <2>2, <2>3, <4>1
    <3>3. QED BY <3>1, <3>2
  <2>4. QED BY <2>1, <2>2, <2>3 DEF OneVote
<1>14. LateVotes'
  <2> SUFFICES ASSUME NEW n \in Nonces, txs'[n] # NoTx,
                      txs'[n].place = "block", ~txs'[n].counted,
                      NEW q \in Proposals, q = PropOf[txs'[n].by]
               PROVE  \/ \E m \in Nonces : m < n /\ Counted(m, q)'
                      \/ support'[q] >= Threshold /\ ~mine'[q]
    <3>1. ASSUME NEW n \in Nonces, txs'[n] # NoTx
          PROVE  PropOf[txs'[n].by] \in Proposals
      BY <1>7, <3>1, ConstantsAssumption DEF TypeOK, Extrinsics
    <3>2. ASSUME NEW n \in Nonces, NEW m \in Nonces
          PROVE Counted(m, PropOf[txs[n].by])' <=>
                  \E q \in {PropOf[txs'[n].by]} : Counted(m, q)'
      BY DEF Counted
    <3>3. QED BY <3>1, <3>2 DEF LateVotes, Decided
  <2>1. CASE n # k
    <3>1. txs'[n] = txs[n] BY <1>8, <2>1
    <3>2. CASE \E m \in Nonces : m < n /\ Counted(m, q)
      <4>1. PICK m \in Nonces : m < n /\ Counted(m, q) BY <3>2
      <4>2. Counted(m, q)' BY <1>10, <1>11, <4>1
      <4>3. QED BY <4>1, <4>2
    <3>3. CASE Decided(q) /\ ~mine[q]
      <4>1. q = p => ~counts BY <3>3
      <4>2. support'[q] = support[q] /\ mine'[q] = mine[q] BY <1>9, <3>3, <4>1
      <4>3. QED BY <3>3, <4>2 DEF Decided
    <3>4. QED BY <3>1, <3>2, <3>3 DEF IInv, ChainInv, LateVotes
  <2>2. CASE n = k
    <3>1. q = p /\ ~counts BY <1>4, <1>8, <2>2
    <3>2. CASE mine[p]
      <4>1. PICK m \in Nonces : Counted(m, p)
        BY <3>2 DEF IInv, ChainInv, OneVote
      <4>2. m < k BY <1>1, <4>1 DEF Counted, IInv, ChainInv, InOrder
      <4>3. Counted(m, p)' BY <1>10, <1>11, <4>1
      <4>4. QED BY <2>2, <3>1, <4>2, <4>3
    <3>3. CASE ~mine[p]
      <4>1. Decided(p) BY <3>1, <3>3
      <4>2. support'[p] = support[p] /\ mine'[p] = mine[p]
        BY <1>9, <3>1, <3>3
      <4>3. QED BY <3>1, <3>3, <4>1, <4>2 DEF Decided
    <3>4. QED BY <3>2, <3>3
  <2>3. QED BY <2>1, <2>2
<1>15. NoGapWithoutMishap'
  <2> SUFFICES ASSUME mishaps = {}, NEW n \in Nonces, k + 1 <= n,
                      n < connNonce
               PROVE  txs'[n] # NoTx /\ txs'[n].place = "pool"
    BY <1>2 DEF NoGapWithoutMishap
  <2>1. n # k /\ nonce <= n BY <1>1, ConstantsAssumption DEF Nonces
  <2>2. QED BY <1>8, <2>1 DEF IInv, ChainInv, NoGapWithoutMishap
<1>16. WriterInv'
  <2>1. nonce' <= connNonce
    <3>1. k < connNonce BY <1>2 DEF IInv, ChainInv, BelowCount
    <3>2. QED BY <1>2, <3>1, ConstantsAssumption DEF IInv, TypeOK, Nonces
  <2>2. \A n \in Nonces : txs[n] # NoTx =>
          /\ txs'[n] # NoTx /\ txs'[n].by = txs[n].by
          /\ txs[n].included => txs'[n].included
    BY <1>8
  <2>3. QED BY <1>2, <2>1, <2>2, WritersUntouched
<1>17. QED
  BY <1>7, <1>12, <1>13, <1>14, <1>15, <1>16 DEF IInv, ChainInv

\* A fork undoes exactly what the last extrinsic did.
LEMMA RetractStep ==
  ASSUME IInv, Retract
  PROVE  IInv'
<1>1. PICK k \in Nonces : k = nonce - 1
  <2>1. nonce > StartNonce /\ nonce \in StartNonce .. MaxNonce + 1
    BY DEF Retract, IInv, TypeOK
  <2>2. nonce - 1 \in StartNonce .. MaxNonce BY <2>1, ConstantsAssumption
  <2>3. QED BY <2>2 DEF Nonces
<1>2. k < nonce /\ nonce' = k
  <2>1. nonce' = nonce - 1 BY DEF Retract
  <2>2. QED BY <1>1, <2>1, ConstantsAssumption DEF Nonces, IInv, TypeOK
<1>3. txs[k] # NoTx /\ txs[k].place = "block"
  BY <1>2 DEF IInv, ChainInv, InOrder
<1>4. txs[k] \in Extrinsics BY <1>3 DEF IInv, TypeOK
<1>5. PICK p \in Proposals : p = PropOf[txs[k].by]
  BY <1>4, ConstantsAssumption DEF Extrinsics
<1> DEFINE tx == [by |-> txs[k].by, place |-> "pool", counted |-> FALSE,
                  included |-> TRUE]
<1>6. /\ txs' = [txs EXCEPT ![k] = tx]
      /\ IF txs[k].counted THEN /\ mine' = [mine EXCEPT ![p] = FALSE]
                                /\ support' = [support EXCEPT ![p] = @ - 1]
                           ELSE UNCHANGED <<support, mine>>
      /\ forks < MaxForks /\ forks' = forks + 1
      /\ UNCHANGED <<connNonce, holder, pc, attempt, sent, stop, gaveUp, mishaps>>
  BY <1>1, <1>5 DEF Retract
<1>7. tx \in Extrinsics /\ tx # NoTx
  <2>1. tx \in Extrinsics BY <1>4 DEF Extrinsics
  <2>2. QED BY <2>1, NotNoTx
<1>8. txs[k].counted => mine[p] /\ support[p] >= 1 /\ Counted(k, p)
  <2>1. txs[k].counted => Counted(k, p) BY <1>3, <1>5 DEF Counted
  <2>2. QED BY <2>1 DEF IInv, ChainInv, OneVote
<1>9. TypeOK'
  <2>1. txs' \in [Nonces -> Extrinsics \cup {NoTx}]
    BY <1>6, <1>7 DEF IInv, TypeOK
  <2>2. mine' \in [Proposals -> BOOLEAN] BY <1>6 DEF IInv, TypeOK
  <2>3. support' \in [Proposals -> 0 .. Threshold]
    <3>1. support[p] \in 0 .. Threshold BY DEF IInv, TypeOK
    <3>2. txs[k].counted => support[p] - 1 \in 0 .. Threshold
      BY <1>8, <3>1, ConstantsAssumption
    <3>3. QED BY <1>6, <3>2 DEF IInv, TypeOK
  <2>4. nonce' \in StartNonce .. MaxNonce + 1
    BY <1>2, ConstantsAssumption DEF Nonces
  <2>5. forks' \in 0 .. MaxForks
    BY <1>6, ConstantsAssumption DEF IInv, TypeOK
  <2>6. QED BY <1>6, <2>1, <2>2, <2>3, <2>4, <2>5 DEF IInv, TypeOK
\* What the step does to extrinsic k, to proposal p, and to the others.
<1>10. /\ txs'[k] = tx
       /\ \A n \in Nonces \ {k} : txs'[n] = txs[n]
  BY <1>6 DEF IInv, TypeOK
<1>11. /\ txs[k].counted => ~mine'[p]
       /\ \A q \in Proposals : q # p \/ ~txs[k].counted
            => mine'[q] = mine[q] /\ support'[q] = support[q]
  BY <1>6 DEF IInv, TypeOK
<1>12. \A q \in Proposals :
         /\ \A n \in Nonces \ {k} : Counted(n, q)' <=> Counted(n, q)
         /\ ~Counted(k, q)'
         /\ Counted(k, q) => q = p /\ txs[k].counted
  <2>1. \A q \in Proposals, n \in Nonces \ {k} :
          Counted(n, q)' <=> Counted(n, q)
    BY <1>10 DEF Counted
  <2>2. \A q \in Proposals : ~Counted(k, q)' BY <1>10 DEF Counted
  <2>3. \A q \in Proposals : Counted(k, q) => q = p /\ txs[k].counted
    BY <1>5 DEF Counted
  <2>4. QED BY <2>1, <2>2, <2>3
<1>13. InOrder' /\ BelowCount' /\ CountedIsIncluded'
  <2>1. InOrder'
    <3> SUFFICES ASSUME NEW n \in Nonces
                 PROVE  /\ n < k => txs'[n] # NoTx /\ txs'[n].place = "block"
                        /\ txs'[n] # NoTx /\ txs'[n].place = "block"
                             => n < k /\ txs'[n].included
      BY <1>2 DEF InOrder
    <3>1. CASE n = k
      BY <1>10, <3>1, ConstantsAssumption DEF Nonces
    <3>2. CASE n # k
      <4>1. n < k <=> n < nonce
        BY <1>1, <3>2, ConstantsAssumption DEF Nonces, IInv, TypeOK
      <4>2. QED BY <1>10, <3>2, <4>1 DEF IInv, ChainInv, InOrder
    <3>3. QED BY <3>1, <3>2
  <2>2. BelowCount' BY <1>3, <1>6, <1>10 DEF IInv, ChainInv, BelowCount
  <2>3. CountedIsIncluded' BY <1>10 DEF IInv, ChainInv, CountedIsIncluded
  <2>4. QED BY <2>1, <2>2, <2>3
<1>14. OneVote'
  <2>1. ASSUME NEW q \in Proposals, mine'[q]
        PROVE  support'[q] >= 1 /\ \E n \in Nonces : Counted(n, q)'
    <3>1. q # p \/ ~txs[k].counted BY <1>11, <2>1
    <3>2. mine[q] /\ support'[q] = support[q] BY <1>11, <2>1, <3>1
    <3>3. support[q] >= 1 /\ \E n \in Nonces : Counted(n, q)
      BY <3>2 DEF IInv, ChainInv, OneVote
    <3>4. PICK n \in Nonces : Counted(n, q) BY <3>3
    <3>5. Counted(n, q)' BY <1>12, <3>1, <3>4
    <3>6. QED BY <3>2, <3>3, <3>5
  <2>2. ASSUME NEW q \in Proposals, NEW n \in Nonces, Counted(n, q)'
        PROVE  mine'[q]
    <3>1. n # k /\ Counted(n, q) BY <1>12, <2>2
    <3>2. mine[q] BY <3>1 DEF IInv, ChainInv, OneVote
    <3>3. ~(q = p /\ txs[k].counted)
      BY <1>8, <3>1 DEF IInv, ChainInv, OneVote
    <3>4. QED BY <1>11, <3>2, <3>3
  <2>3. ASSUME NEW q \in Proposals, NEW m \in Nonces, NEW n \in Nonces,
               Counted(m, q)', Counted(n, q)'
        PROVE  m = n
    BY <1>12, <2>3 DEF IInv, ChainInv, OneVote
  <2>4. QED BY <2>1, <2>2, <2>3 DEF OneVote
<1>15. LateVotes'
  <2> SUFFICES ASSUME NEW n \in Nonces, txs'[n] # NoTx,
                      txs'[n].place = "block", ~txs'[n].counted,
                      NEW q \in Proposals, q = PropOf[txs'[n].by]
               PROVE  \/ \E m \in Nonces : m < n /\ Counted(m, q)'
                      \/ support'[q] >= Threshold /\ ~mine'[q]
    <3>1. ASSUME NEW n \in Nonces, txs'[n] # NoTx
          PROVE  PropOf[txs'[n].by] \in Proposals
      BY <1>9, <3>1, ConstantsAssumption DEF TypeOK, Extrinsics
    <3>2. ASSUME NEW n \in Nonces, NEW m \in Nonces
          PROVE Counted(m, PropOf[txs[n].by])' <=>
                  \E q \in {PropOf[txs'[n].by]} : Counted(m, q)'
      BY DEF Counted
    <3>3. QED BY <3>1, <3>2 DEF LateVotes, Decided
  <2>1. n # k /\ txs'[n] = txs[n] BY <1>10
  <2>2. n < k
    <3>1. n < nonce BY <2>1 DEF IInv, ChainInv, InOrder
    <3>2. QED BY <1>1, <2>1, <3>1, ConstantsAssumption DEF Nonces, IInv, TypeOK
  <2>3. CASE \E m \in Nonces : m < n /\ Counted(m, q)
    <3>1. PICK m \in Nonces : m < n /\ Counted(m, q) BY <2>3
    <3>2. m # k BY <2>2, <3>1, ConstantsAssumption DEF Nonces
    <3>3. Counted(m, q)' BY <1>12, <3>1, <3>2
    <3>4. QED BY <3>1, <3>3
  <2>4. CASE Decided(q) /\ ~mine[q]
    <3>1. ~(q = p /\ txs[k].counted) BY <1>8, <2>4
    <3>2. support'[q] = support[q] /\ mine'[q] = mine[q] BY <1>11, <3>1
    <3>3. QED BY <2>4, <3>2 DEF Decided
  <2>5. QED BY <2>1, <2>3, <2>4 DEF IInv, ChainInv, LateVotes
<1>16. NoGapWithoutMishap'
  <2> SUFFICES ASSUME mishaps = {}, NEW n \in Nonces, k <= n, n < connNonce
               PROVE  txs'[n] # NoTx /\ txs'[n].place = "pool"
    BY <1>2, <1>6 DEF NoGapWithoutMishap
  <2>1. CASE n = k BY <1>7, <1>10, <2>1
  <2>2. CASE n # k
    <3>1. nonce <= n
      BY <1>1, <2>2, ConstantsAssumption DEF Nonces, IInv, TypeOK
    <3>2. QED BY <1>10, <2>2, <3>1 DEF IInv, ChainInv, NoGapWithoutMishap
  <2>3. QED BY <2>1, <2>2
<1>17. WriterInv'
  <2>1. nonce' <= connNonce
    <3>1. k < connNonce BY <1>3 DEF IInv, ChainInv, BelowCount
    <3>2. QED BY <1>2, <3>1, ConstantsAssumption DEF IInv, TypeOK, Nonces
  <2>2. \A n \in Nonces : txs[n] # NoTx =>
          /\ txs'[n] # NoTx /\ txs'[n].by = txs[n].by
          /\ txs[n].included => txs'[n].included
    BY <1>7, <1>10
  <2>3. QED BY <1>6, <2>1, <2>2, WritersUntouched
<1>18. QED
  BY <1>9, <1>13, <1>14, <1>15, <1>16, <1>17 DEF IInv, ChainInv

-----------------------------------------------------------------------------
(* The invariant and what follows from it.                                 *)

LEMMA NextIInv ==
  ASSUME IInv, [Next]_vars
  PROVE  IInv'
<1>1. ASSUME NEW g \in Resolvers, Deliver(g) \/ Proceed(g) \/ Fault(g)
      PROVE  IInv'
  <2>1. CASE \/ Deliver(g) \/ Build(g) \/ BuildError(g) \/ ProposalValid(g)
             \/ ConstructCall(g) \/ QueryError(g) \/ WatchLost(g)
             \/ WatchError(g) \/ WatchStop(g)
    BY <2>1, Quiet
  <2>2. CASE Lock(g) BY <2>2, LockStep
  <2>3. CASE UpdateNonce(g) BY <2>3, UpdateNonceStep
  <2>4. CASE Sign(g) BY <2>4, SignStep
  <2>5. CASE UpdateNonceError(g) BY <2>5, UpdateNonceErrorStep
  <2>6. CASE Submit(g) BY <2>6, SubmitStep
  <2>7. CASE SubmitError(g) BY <2>7, SubmitErrorStep
  <2>8. CASE WatchInBlock(g) BY <2>8, WatchInBlockStep
  <2>9. QED
    BY <1>1, <2>1, <2>2, <2>3, <2>4, <2>5, <2>6, <2>7, <2>8 DEF Proceed, Fault
<1>2. ASSUME NEW p \in Proposals, OtherVote(p) PROVE IInv'
  BY <1>2, OtherVoteStep
<1>3. CASE Include BY <1>3, IncludeStep
<1>4. CASE Retract BY <1>4, RetractStep
<1>5. ASSUME NEW n \in Nonces, Drop(n) PROVE IInv' BY <1>5, DropStep
<1>6. CASE Stop BY <1>6, StopStep
<1>7. CASE UNCHANGED vars
  <2>1. TypeOK' BY <1>7 DEF IInv, TypeOK, vars
  <2>2. ChainInv' BY <1>7, ChainUntouched DEF IInv, vars, chainVars
  <2>3. WriterInv' BY <1>7, WritersUntouched DEF vars
  <2>4. QED BY <2>1, <2>2, <2>3 DEF IInv
<1>8. QED BY <1>1, <1>2, <1>3, <1>4, <1>5, <1>6, <1>7 DEF Next

THEOREM Invariance == Spec => []IInv
<1>1. Init => IInv BY InitIInv
<1>2. IInv /\ [Next]_vars => IInv' BY NextIInv
<1>3. QED BY <1>1, <1>2, PTL DEF Spec

\* Every variable keeps its type.
THEOREM TypeCorrect == Spec => []TypeOK
<1>1. IInv => TypeOK BY DEF IInv
<1>2. QED BY <1>1, Invariance, PTL

LEMMA SignedIsFree == IInv => NonceIsFree
<1> SUFFICES ASSUME IInv, NEW g \in Resolvers, pc[g] = "submit"
             PROVE  txs[sent[g]] = NoTx /\ sent[g] >= nonce
  BY DEF NonceIsFree
<1>1. sent[g] = connNonce /\ nonce <= connNonce /\ sent[g] \in Nonces
  BY DEF IInv, TypeOK, WriterInv, SignedIsNext
<1>2. txs[sent[g]] = NoTx
  BY <1>1, ConstantsAssumption DEF IInv, ChainInv, BelowCount, Nonces
<1>3. QED BY <1>1, <1>2, ConstantsAssumption DEF Nonces, IInv, TypeOK

\* Whoever is about to submit has signed for a free nonce.
THEOREM NonceFree == Spec => []NonceIsFree
BY SignedIsFree, Invariance, PTL

\* The extrinsics follow each other until a submission fails or one is lost.
THEOREM NoGap == Spec => []NoGapWithoutMishap
<1>1. IInv => NoGapWithoutMishap BY DEF IInv, ChainInv
<1>2. QED BY <1>1, Invariance, PTL

\* A vote the writer counts as submitted is on the chain, too late to matter,
\* or taken back by a fork.
THEOREM Acknowledged == Spec => []AcknowledgedIsVoted
<1>1. IInv => AcknowledgedIsVoted
  <2> SUFFICES ASSUME IInv, NEW g \in Resolvers, pc[g] = "voted",
                      txs[sent[g]].place = "block"
               PROVE  mine[PropOf[g]] \/ Decided(PropOf[g])
    BY DEF AcknowledgedIsVoted, IInv, WriterInv, WatchesItsOwn
  <2>1. /\ sent[g] \in Nonces /\ txs[sent[g]] # NoTx /\ txs[sent[g]].by = g
    BY DEF IInv, TypeOK, WriterInv, WatchesItsOwn
  <2>2. PropOf[g] \in Proposals BY ConstantsAssumption
  <2>3. CASE txs[sent[g]].counted
    <3>1. Counted(sent[g], PropOf[g]) BY <2>1, <2>3 DEF Counted
    <3>2. QED BY <2>1, <2>2, <3>1 DEF IInv, ChainInv, OneVote
  <2>4. CASE ~txs[sent[g]].counted
    <3>1. \/ \E m \in Nonces : Counted(m, PropOf[g])
          \/ Decided(PropOf[g])
      BY <2>1, <2>4 DEF IInv, ChainInv, LateVotes
    <3>2. QED BY <2>2, <3>1 DEF IInv, ChainInv, OneVote
  <2>5. QED BY <2>3, <2>4
<1>2. QED BY <1>1, Invariance, PTL

-----------------------------------------------------------------------------
(* The lane of nonces.                                                     *)

\* What a step does to the authors is what it does to txs.
LEMMA AuthorsStay ==
  ASSUME TypeOK, \A n \in Nonces : \/ txs'[n] = txs[n]
                                  \/ /\ txs[n] # NoTx /\ txs'[n] # NoTx
                                     /\ txs'[n].by = txs[n].by
  PROVE  Authors' = Authors
BY DEF Authors

\* An extrinsic is submitted at the front of the lane, or after a mishap.
LEMMA SubmitIsNext ==
  ASSUME IInv, NEW g \in Resolvers, Submit(g)
  PROVE  Lane!Place(sent[g])
<1> DEFINE s == sent[g]
           tx == [by |-> g, place |-> "pool", counted |-> FALSE,
                  included |-> FALSE]
<1>1. /\ pc[g] = "submit" /\ txs' = [txs EXCEPT ![s] = tx]
      /\ UNCHANGED mishaps
  BY DEF Submit
<1>2. /\ s \in Nonces /\ txs[s] = NoTx /\ s = connNonce /\ nonce \in Int
      /\ txs \in [Nonces -> Extrinsics \cup {NoTx}]
  BY <1>1, SignedIsFree DEF NonceIsFree, IInv, TypeOK, WriterInv, SignedIsNext
<1>3. tx # NoTx
  BY NotNoTx DEF Extrinsics
<1>4. Authors' = [Authors EXCEPT ![s] = g]
  BY <1>1, <1>2, <1>3 DEF Authors
<1>5. Authors'[s] = g
  BY <1>2, <1>4 DEF Authors
<1>6. Lane!Empty(s)
  BY <1>2 DEF Lane!Empty, Authors
<1>7. Lane!Front(s) \/ mishaps # {}
  <2> SUFFICES ASSUME mishaps = {}, NEW m \in Nonces, m < s
               PROVE  Authors[m] # Nobody
    BY DEF Lane!Front, Lane!Empty
  <2>1. txs[m] # NoTx
    BY <1>2, ConstantsAssumption
      DEF Nonces, IInv, ChainInv, InOrder, NoGapWithoutMishap
  <2>2. Authors[m] \in Resolvers
    BY <1>2, <2>1 DEF Authors, Extrinsics
  <2>3. QED BY <2>2, ConstantsAssumption
<1>8. QED BY <1>1, <1>4, <1>5, <1>6, <1>7 DEF Lane!Place

\* What the chain and the pool do leaves the authors in their places.
LEMMA ChainKeepsAuthors ==
  ASSUME IInv, Include \/ Retract \/ \E n \in Nonces : Drop(n)
  PROVE  Authors' = Authors
<1>1. PICK k \in Nonces : \E tx \in Extrinsics :
        txs[k] # NoTx /\ txs' = [txs EXCEPT ![k] = tx] /\ tx.by = txs[k].by
  <2>1. CASE Include
    <3> DEFINE p == PropOf[txs[nonce].by]
               tx == [by |-> txs[nonce].by, place |-> "block",
                      counted |-> ~Decided(p) /\ ~mine[p], included |-> TRUE]
    <3>1. /\ nonce \in Nonces /\ txs[nonce] # NoTx
          /\ txs' = [txs EXCEPT ![nonce] = tx]
      BY <2>1 DEF Include
    <3>2. tx \in Extrinsics BY <3>1 DEF IInv, TypeOK, Extrinsics
    <3>3. QED BY <3>1, <3>2
  <2>2. CASE Retract
    <3> DEFINE k == nonce - 1
               tx == [by |-> txs[k].by, place |-> "pool", counted |-> FALSE,
                      included |-> TRUE]
    <3>1. /\ nonce > StartNonce /\ txs' = [txs EXCEPT ![k] = tx]
      BY <2>2 DEF Retract
    <3>2. k \in Nonces /\ k < nonce
      BY <3>1, ConstantsAssumption DEF Nonces, IInv, TypeOK
    <3>3. txs[k] # NoTx BY <3>2 DEF IInv, ChainInv, InOrder
    <3>4. tx \in Extrinsics BY <3>2, <3>3 DEF IInv, TypeOK, Extrinsics
    <3>5. QED BY <3>1, <3>2, <3>3, <3>4
  <2>3. ASSUME NEW n \in Nonces, Drop(n)
        PROVE  \E tx \in Extrinsics :
                 txs[n] # NoTx /\ txs' = [txs EXCEPT ![n] = tx]
                   /\ tx.by = txs[n].by
    <3> DEFINE tx == [txs[n] EXCEPT !.place = "gone"]
    <3>1. txs[n] # NoTx /\ txs' = [txs EXCEPT ![n] = tx]
      BY <2>3 DEF Drop
    <3>2. tx \in Extrinsics /\ tx.by = txs[n].by
      BY <3>1 DEF IInv, TypeOK, Extrinsics
    <3>3. QED BY <3>1, <3>2
  <2>4. QED BY <2>1, <2>2, <2>3
<1>2. txs \in [Nonces -> Extrinsics \cup {NoTx}] BY DEF IInv, TypeOK
<1>3. QED BY <1>1, <1>2, AuthorsStay, NotNoTx DEF IInv

LEMMA LaneMoves ==
  ASSUME IInv, [Next]_vars
  PROVE  [Lane!LaneNext]_<<Authors, mishaps # {}>>
<1>1. ASSUME NEW g \in Resolvers, Submit(g) PROVE Lane!LaneNext
  BY <1>1, SubmitIsNext DEF IInv, TypeOK, Lane!LaneNext
<1>2. ASSUME NEW g \in Resolvers, SubmitError(g) PROVE Lane!LaneNext
  <2>1. Authors' = Authors BY <1>2 DEF SubmitError, chainVars, Authors
  <2>2. mishaps' # {} BY <1>2 DEF SubmitError
  <2>3. QED BY <2>1, <2>2 DEF Lane!LaneNext, Lane!Disturb
<1>3. ASSUME NEW n \in Nonces, Drop(n) PROVE Lane!LaneNext
  <2>1. Authors' = Authors BY <1>3, ChainKeepsAuthors
  <2>2. mishaps' # {} BY <1>3 DEF Drop
  <2>3. QED BY <2>1, <2>2 DEF Lane!LaneNext, Lane!Disturb
<1>4. CASE Include \/ Retract
  <2>1. Authors' = Authors BY <1>4, ChainKeepsAuthors
  <2>2. mishaps' = mishaps BY <1>4 DEF Include, Retract
  <2>3. QED BY <2>1, <2>2
<1>5. ASSUME UNCHANGED <<txs, mishaps>>
      PROVE  UNCHANGED <<Authors, mishaps # {}>>
  BY <1>5 DEF Authors
<1>6. ASSUME NEW g \in Resolvers,
             \/ Deliver(g) \/ Build(g) \/ BuildError(g) \/ ProposalValid(g)
             \/ ConstructCall(g) \/ QueryError(g) \/ Lock(g) \/ UpdateNonce(g)
             \/ Sign(g) \/ UpdateNonceError(g) \/ WatchInBlock(g)
             \/ WatchLost(g) \/ WatchError(g) \/ WatchStop(g)
      PROVE  UNCHANGED <<txs, mishaps>>
  BY <1>6 DEF Deliver, Build, BuildError, ProposalValid, ConstructCall,
    QueryError, Lock, UpdateNonce, Sign, UpdateNonceError, WatchInBlock,
    WatchLost, WatchError, WatchStop, chainVars
<1>7. ASSUME (\E p \in Proposals : OtherVote(p)) \/ Stop \/ UNCHANGED vars
      PROVE  UNCHANGED <<txs, mishaps>>
  BY <1>7 DEF OtherVote, Stop, vars, chainVars
<1>8. QED
  BY <1>1, <1>2, <1>3, <1>4, <1>5, <1>6, <1>7 DEF Next, Proceed, Fault

\* The writer implements the lane: no extrinsic takes the nonce of another one,
\* whatever fails or is retracted, and without a mishap there is no gap.
THEOREM LaneImplemented == Spec => ImplementsLane
<1>1. Init => Lane!LaneInit BY DEF Init, Lane!LaneInit, Authors
<1>2. IInv /\ [Next]_vars => [Lane!LaneNext]_<<Authors, mishaps # {}>>
  BY LaneMoves
<1>3. QED BY <1>1, <1>2, Invariance, PTL DEF Spec, ImplementsLane, Lane!LaneSpec
===============================================================================
