--------------------------- MODULE SubClientProofs ---------------------------
(***************************************************************************)
(* Proofs about SubClient, for any helpers, any number of callers, any     *)
(* forks and any faults.                                                   *)
(*                                                                         *)
(* Counting bounds the watchers that may still count the WaitGroup down;   *)
(* it needs to know which extrinsics a caller has out (Outstanding).       *)
(* Orderly is what holds as long as nothing disturbs the account: the      *)
(* nonces are used from the front, one caller submits at a time, and what  *)
(* a watcher has been told is in a block stays there.                      *)
(***************************************************************************)
EXTENDS SubClient, FiniteSetTheorems, TLAPS

Used(n) == ~Free(n)
CallerOf(n) == txs[n][1]
StepOf(n) == txs[n][2]
CallOf(n) == txs[n][3]

\* A caller's extrinsics belong to the submissions it has begun, and to the
\* calls of the one at hand that it has come to.
Outstanding ==
  \A n \in Nonces : Used(n) =>
    LET c == CallerOf(n)
    IN  /\ StepOf(n) <= step[c]
        /\ StepOf(n) = step[c] => /\ pc[c] # "query"
                                  /\ CallOf(n) \in 1 .. At(c).calls
                                  /\ pc[c] = "submit" => CallOf(n) < call[c]

\* Where a caller is in its submission.
Positions ==
  \A c \in Callers :
    /\ pc[c] = "submit" =>
         /\ call[c] <= At(c).calls
         /\ \A k \in call[c] .. MaxCalls : told[c][k] = "nothing"
    /\ pc[c] = "watch" => ~At(c).batch
    /\ pc[c] = "wait" => At(c).batch

\* The watchers of the batch at hand that are not done.
Unread(c) == {k \in 1 .. At(c).calls : told[c][k] # "read"}

\* No watcher of the submission at hand has something to read, or will have.
Silent(c) ==
  /\ \A k \in 1 .. MaxCalls : told[c][k] \notin Ends
  /\ \A n \in Nonces : Used(n) /\ CallerOf(n) = c => StepOf(n) # step[c]

\* Only the calls of the submission are watched.
NoneBeyond(c) == \A k \in 1 .. MaxCalls : told[c][k] \in Ends => k <= At(c).calls

Counted(c) == NoneBeyond(c) /\ Cardinality(Unread(c)) <= wg[c]

Counting ==
  \A c \in Callers :
    /\ pc[c] = "query" => Silent(c)
    /\ pc[c] = "watch" => NoneBeyond(c)
    /\ pc[c] \in {"submit", "wait"} /\ At(c).batch => Counted(c)
    /\ pc[c] \in {"done", "failed"} /\ At(c).batch => Silent(c) \/ Counted(c)

\* What a watcher has been told is in a block is below the account's nonce.
ToldIsIncluded ==
  \A n \in Nonces : Used(n) =>
    LET c == CallerOf(n)
    IN  StepOf(n) < step[c] \/ told[c][CallOf(n)] \in {"in block", "read"}
          => n < account

FromTheFront ==
  /\ \A n \in Nonces : n < account => Used(n)
  /\ \A c \in Callers : pc[c] = "submit" =>
       \A n \in Nonces : Used(n) <=> n < nonce[c]
  /\ \A c, d \in Callers : pc[c] = "submit" /\ pc[d] = "submit" => c = d

NoneLost ==
  \A c \in Callers : \A k \in 1 .. MaxCalls :
    told[c][k] \in {"nothing", "in block", "read"}

Ordered ==
  \A n, m \in Nonces :
    (n < m /\ Used(n) /\ Used(m) /\ CallerOf(n) = CallerOf(m))
      => \/ StepOf(n) < StepOf(m)
         \/ StepOf(n) = StepOf(m) /\ CallOf(n) < CallOf(m)

Orderly ==
  Undisturbed => ToldIsIncluded /\ FromTheFront /\ NoneLost /\ Ordered

IInv == TypeOK /\ Outstanding /\ Positions /\ Counting /\ Orderly

-----------------------------------------------------------------------------
(* Lemmas.                                                                 *)

LEMMA MaxCallsIsNatural == MaxCalls \in Nat /\ MaxCalls >= 1
BY ConstantsAssumption

LEMMA BoundsAreNatural == MaxNonce \in Nat /\ MaxForks \in Nat
BY ConstantsAssumption

\* A call of a submission is within the bound of all.
LEMMA WithinMaxCalls ==
  \A k, l : l \in 1 .. MaxCalls /\ k \in 1 .. l => k \in 1 .. MaxCalls
BY MaxCallsIsNatural

\* A submission has a call, and one that is no batch has no other.
LEMMA SubmissionAtHand ==
  ASSUME TypeOK, NEW c \in Callers
  PROVE  /\ Len(program[c]) \in Nat
         /\ step[c] \in 1 .. Len(program[c])
         /\ At(c).calls \in 1 .. MaxCalls
         /\ ~At(c).batch => At(c).calls = 1
<1>1. program[c] \in Seq(Submissions)
  BY ConstantsAssumption DEF TypeOK
<1>2. Len(program[c]) \in Nat /\ step[c] \in 1 .. Len(program[c])
  BY <1>1 DEF TypeOK
<1>3. At(c) \in Submissions
  BY <1>1, <1>2 DEF At
<1>4. QED
  BY <1>2, <1>3, ConstantsAssumption DEF Submissions, Single, Batch

\* An extrinsic names its caller, its submission and its call.
LEMMA UsedNames ==
  ASSUME TypeOK, NEW n \in Nonces, Used(n)
  PROVE  /\ CallerOf(n) \in Callers /\ StepOf(n) \in Nat /\ CallOf(n) \in Nat
         /\ txs[n] = <<CallerOf(n), StepOf(n), CallOf(n)>>
BY DEF TypeOK, Used, Free, CallerOf, StepOf, CallOf

\* The watcher of call k hears of its extrinsic.
Hears(c, k, n) ==
  /\ told[c][k] = "nothing" /\ told'[c][k] # "read"
  /\ CallerOf(n) = c /\ StepOf(n) = step[c] /\ CallOf(n) = k
  /\ pc[c] = "watch" \/ k < call[c]

\* Only a subscriber that has been told nothing is told something.
LEMMA TellStep ==
  ASSUME TypeOK, Outstanding, NEW n \in Nonces, Used(n),
         NEW status \in {"in block", "dropped", "usurped"},
         Tell(txs[n], status)
  PROVE  /\ told' \in [Callers -> [1 .. MaxCalls -> Statuses]]
         /\ \A d \in Callers : \A k \in 1 .. MaxCalls :
              /\ told'[d][k] = told[d][k] \/ Hears(d, k, n)
              /\ told'[d][k] \in {told[d][k], status}
<1> DEFINE c == CallerOf(n)
           s == StepOf(n)
           k == CallOf(n)
<1>1. c \in Callers /\ txs[n] = <<c, s, k>>
  BY UsedNames
<1>2. CASE Subscribed(c, s, k)
  <2>1. s = step[c] /\ told[c][k] = "nothing"
    BY <1>2 DEF Subscribed
  <2>2. pc[c] = "watch" \/ k < call[c]
    BY <1>2 DEF Subscribed
  <2>3. told' = [told EXCEPT ![c][k] = status]
    BY <1>2 DEF Tell, CallerOf, StepOf, CallOf
  <2>4. k \in 1 .. MaxCalls
    <3>1. k \in 1 .. At(c).calls
      BY <2>1 DEF Outstanding
    <3>2. At(c).calls \in 1 .. MaxCalls
      BY <1>1, SubmissionAtHand
    <3>3. QED BY <3>1, <3>2, WithinMaxCalls
  <2>5. told \in [Callers -> [1 .. MaxCalls -> Statuses]]
    BY DEF TypeOK
  <2>6. told' \in [Callers -> [1 .. MaxCalls -> Statuses]]
    BY <1>1, <2>3, <2>4, <2>5 DEF Statuses
  <2>7. ASSUME NEW d \in Callers, NEW j \in 1 .. MaxCalls
        PROVE  told'[d][j] = IF d = c /\ j = k THEN status ELSE told[d][j]
    BY <1>1, <2>3, <2>4, <2>5
  <2>8. QED BY <1>1, <2>1, <2>2, <2>6, <2>7 DEF Hears
<1>3. CASE ~Subscribed(c, s, k)
  BY <1>3 DEF Tell, TypeOK, CallerOf, StepOf, CallOf
<1>4. QED BY <1>2, <1>3

\* No two nonces hold the same extrinsic.
LEMMA SameExtrinsic ==
  ASSUME TypeOK, Ordered,
         NEW n \in Nonces, Used(n), NEW m \in Nonces, Used(m),
         CallerOf(n) = CallerOf(m), StepOf(n) = StepOf(m), CallOf(n) = CallOf(m)
  PROVE  n = m
<1>1. StepOf(n) \in Nat /\ CallOf(n) \in Nat
  BY UsedNames
<1>2. ~(n < m) /\ ~(m < n)
  BY <1>1 DEF Ordered
<1>3. n \in Int /\ m \in Int
  BY BoundsAreNatural DEF Nonces
<1>4. QED BY <1>2, <1>3

\* An extrinsic is of the submission at hand or of an earlier one.
LEMMA EarlierStep ==
  ASSUME TypeOK, Outstanding, NEW n \in Nonces, Used(n)
  PROVE  \/ StepOf(n) < step[CallerOf(n)]
         \/ StepOf(n) = step[CallerOf(n)]
<1>1. StepOf(n) \in Nat /\ step[CallerOf(n)] \in Nat
  BY UsedNames DEF TypeOK
<1>2. StepOf(n) <= step[CallerOf(n)]
  BY DEF Outstanding
<1>3. QED BY <1>1, <1>2

\* The watchers of a submission are finitely many.
LEMMA UnreadFinite ==
  ASSUME TypeOK, NEW c \in Callers
  PROVE  /\ IsFiniteSet(Unread(c)) /\ Cardinality(Unread(c)) \in Nat
         /\ Cardinality(Unread(c)) = 0 <=> Unread(c) = {}
<1>1. At(c).calls \in 1 .. MaxCalls
  BY SubmissionAtHand
<1>2. IsFiniteSet(1 .. At(c).calls)
  BY <1>1, ConstantsAssumption, FS_Interval
<1>3. IsFiniteSet(Unread(c))
  BY <1>2, FS_Subset DEF Unread
<1>4. QED BY <1>3, FS_CardinalityType, FS_EmptySet

\* What the pool tells a watcher does not finish it.
LEMMA TellKeepsCount ==
  ASSUME TypeOK, Outstanding, Positions, Counting,
         NEW n \in Nonces, Used(n),
         \A d \in Callers : \A k \in 1 .. MaxCalls :
           told'[d][k] = told[d][k] \/ Hears(d, k, n),
         UNCHANGED callerVars,
         \A m \in Nonces : Used(m)' => Used(m) /\ txs'[m] = txs[m]
  PROVE  Outstanding' /\ Positions' /\ Counting'
<1>1. \A d \in Callers : At(d)' = At(d)
  BY DEF callerVars, At
<1>2. Positions'
  <2> SUFFICES ASSUME NEW c \in Callers, pc[c] = "submit",
                      NEW k \in call[c] .. MaxCalls
               PROVE  told'[c][k] = "nothing"
    BY <1>1 DEF Positions, callerVars
  <2>1. call[c] \in 1 .. MaxCalls + 1
    BY DEF TypeOK
  <2>2. k \in 1 .. MaxCalls /\ ~(k < call[c])
    BY <2>1, MaxCallsIsNatural
  <2>3. told[c][k] = "nothing"
    BY DEF Positions
  <2>4. ~Hears(c, k, n)
    BY <2>2 DEF Positions, Hears
  <2>5. QED BY <2>2, <2>3, <2>4
<1>3. ASSUME NEW c \in Callers, Silent(c) PROVE Silent(c)'
  <2>1. \A m \in Nonces :
          Used(m)' /\ CallerOf(m)' = c => StepOf(m)' # step'[c]
    BY <1>3 DEF Silent, callerVars, CallerOf, StepOf
  <2>2. \A k \in 1 .. MaxCalls : told'[c][k] = told[c][k]
    <3> SUFFICES ASSUME NEW k \in 1 .. MaxCalls, told'[c][k] # told[c][k]
                 PROVE  FALSE
      OBVIOUS
    <3>1. CallerOf(n) = c /\ StepOf(n) = step[c]
      BY DEF Hears
    <3>2. QED BY <1>3, <3>1 DEF Silent
  <2>3. QED BY <1>3, <2>1, <2>2 DEF Silent
<1>4. ASSUME NEW c \in Callers, NoneBeyond(c) PROVE NoneBeyond(c)'
  <2>1. At(c).calls \in 1 .. MaxCalls
    BY SubmissionAtHand
  <2>2. ASSUME NEW k \in 1 .. MaxCalls, told'[c][k] \in Ends
        PROVE  k <= At(c).calls
    <3>1. CASE told'[c][k] = told[c][k]
      BY <1>4, <2>2, <3>1 DEF NoneBeyond
    <3>2. CASE told'[c][k] # told[c][k]
      <4>1. CallerOf(n) = c /\ StepOf(n) = step[c] /\ CallOf(n) = k
        BY <3>2 DEF Hears
      <4>2. k \in 1 .. At(c).calls
        BY <4>1 DEF Outstanding
      <4>3. QED BY <4>2, <2>1, MaxCallsIsNatural
    <3>3. QED BY <3>1, <3>2
  <2>3. QED BY <1>1, <2>2 DEF NoneBeyond
<1>5. ASSUME NEW c \in Callers, Counted(c) PROVE Counted(c)'
  <2>1. At(c).calls \in 1 .. MaxCalls
    BY SubmissionAtHand
  <2>2. Unread(c)' = Unread(c)
    <3>1. \A k \in 1 .. MaxCalls :
            told'[c][k] = "read" <=> told[c][k] = "read"
      BY DEF Hears
    <3>2. \A k \in 1 .. At(c).calls : k \in 1 .. MaxCalls
      BY <2>1, WithinMaxCalls
    <3>3. QED BY <3>1, <3>2, <1>1 DEF Unread
  <2>3. QED BY <1>4, <1>5, <2>2 DEF Counted, callerVars
<1>6. Counting'
  BY <1>1, <1>3, <1>4, <1>5 DEF Counting, callerVars
<1>7. Outstanding'
  <2>1. \A m \in Nonces : Used(m)' =>
          /\ Used(m) /\ CallerOf(m) \in Callers
          /\ CallerOf(m)' = CallerOf(m)
          /\ StepOf(m)' = StepOf(m) /\ CallOf(m)' = CallOf(m)
    BY UsedNames DEF CallerOf, StepOf, CallOf
  <2>2. QED BY <1>1, <2>1 DEF Outstanding, callerVars
<1>8. QED BY <1>2, <1>6, <1>7

-----------------------------------------------------------------------------
(* The invariant, step by step.                                            *)

LEMMA InitIInv == Init => IInv
<1> SUFFICES ASSUME Init PROVE IInv OBVIOUS
<1>1. TypeOK
  <2>1. ASSUME NEW c \in Callers PROVE step[c] \in 1 .. Len(program[c])
    <3>1. step[c] = 1 /\ program[c] \in Seq(Submissions) /\ program[c] # <<>>
      BY ConstantsAssumption DEF Init
    <3>2. QED BY <3>1
  <2>2. /\ step \in [Callers -> Nat] /\ pc \in [Callers -> PCs]
        /\ told \in [Callers -> [1 .. MaxCalls -> Statuses]]
    BY DEF Init, PCs, Statuses
  <2>3. /\ call \in [Callers -> 1 .. MaxCalls + 1]
        /\ wg \in [Callers -> 0 .. MaxCalls]
    BY MaxCallsIsNatural DEF Init
  <2>4. /\ nonce \in [Callers -> 0 .. MaxNonce + 1]
        /\ account \in Nonces /\ forks \in 0 .. MaxForks
    BY BoundsAreNatural DEF Init, Nonces
  <2>5. txs \in [Nonces -> {NoTx} \cup (Callers \X Nat \X Nat)]
    BY DEF Init
  <2>6. QED BY <2>1, <2>2, <2>3, <2>4, <2>5 DEF Init, TypeOK
<1>2. \A n \in Nonces : ~Used(n)
  BY DEF Init, Used, Free
<1>3. Outstanding
  BY <1>2 DEF Outstanding
<1>4. Positions
  BY DEF Init, Positions
<1>5. Counting
  BY <1>2 DEF Init, Counting, Silent, Ends
<1>6. Orderly
  <2>1. \A n \in Nonces : ~(n < account)
    BY BoundsAreNatural DEF Init, Nonces
  <2>2. ToldIsIncluded /\ Ordered
    BY <1>2 DEF ToldIsIncluded, Ordered
  <2>3. FromTheFront
    BY <2>1 DEF Init, FromTheFront
  <2>4. NoneLost
    BY DEF Init, NoneLost
  <2>5. QED BY <2>2, <2>3, <2>4 DEF Orderly
<1>7. QED BY <1>1, <1>3, <1>4, <1>5, <1>6 DEF IInv

\* The watcher of the included extrinsic is told so, if there is one.
LEMMA IncludeKeeps == IInv /\ Include => IInv'
<1> SUFFICES ASSUME IInv, Include PROVE IInv' OBVIOUS
<1>1. TypeOK /\ Outstanding /\ Positions /\ Counting /\ Orderly
  BY DEF IInv
<1>2. /\ account \in Nonces /\ account < MaxNonce /\ Used(account)
      /\ account' = account + 1 /\ UNCHANGED <<txs, forks, lost, raced>>
      /\ UNCHANGED callerVars
  BY <1>1 DEF TypeOK, Include, Used
<1>3. /\ told' \in [Callers -> [1 .. MaxCalls -> Statuses]]
      /\ \A d \in Callers : \A k \in 1 .. MaxCalls :
           /\ told'[d][k] = told[d][k] \/ Hears(d, k, account)
           /\ told'[d][k] \in {told[d][k], "in block"}
  BY <1>1, <1>2, TellStep DEF Include
<1>4. TypeOK'
  <2>1. account' \in Nonces
    BY <1>2, BoundsAreNatural DEF Nonces
  <2>2. QED BY <1>1, <1>2, <1>3, <2>1 DEF TypeOK, callerVars
<1>5. \A m \in Nonces : Used(m)' <=> Used(m)
  BY <1>2 DEF Used, Free
<1>6. \A m \in Nonces : /\ CallerOf(m)' = CallerOf(m)
                         /\ StepOf(m)' = StepOf(m) /\ CallOf(m)' = CallOf(m)
  BY <1>2 DEF CallerOf, StepOf, CallOf
<1>7. Outstanding' /\ Positions' /\ Counting'
  BY <1>1, <1>2, <1>3, <1>5, TellKeepsCount
<1>8. Orderly'
  <2> SUFFICES ASSUME Undisturbed'
               PROVE  (ToldIsIncluded /\ FromTheFront /\ NoneLost /\ Ordered)'
    BY DEF Orderly
  <2>1. ToldIsIncluded /\ FromTheFront /\ NoneLost /\ Ordered
    BY <1>1, <1>2 DEF Orderly, Undisturbed
  <2>2. ToldIsIncluded'
    <3>1. \A n \in Nonces : n < account \/ n = account => n < account + 1
      BY <1>2, BoundsAreNatural DEF Nonces
    <3> SUFFICES ASSUME NEW n \in Nonces, Used(n),
                        \/ StepOf(n) < step[CallerOf(n)]
                        \/ told'[CallerOf(n)][CallOf(n)] \in {"in block", "read"}
                 PROVE  n < account \/ n = account
      BY <1>2, <1>5, <1>6, <3>1 DEF ToldIsIncluded, callerVars
    <3> DEFINE c == CallerOf(n)
               k == CallOf(n)
    <3>2. c \in Callers /\ StepOf(n) \in Nat /\ step[c] \in Nat
      BY <1>1, UsedNames DEF TypeOK
    <3>3. CASE StepOf(n) < step[c]
      BY <2>1, <3>3 DEF ToldIsIncluded
    <3>4. CASE ~(StepOf(n) < step[c])
      <4>1. StepOf(n) = step[c]
        BY <1>1, <3>4, EarlierStep
      <4>2. k \in 1 .. At(c).calls
        BY <1>1, <4>1 DEF Outstanding
      <4>3. k \in 1 .. MaxCalls
        BY <1>1, <3>2, <4>2, SubmissionAtHand, WithinMaxCalls
      <4>4. CASE told'[c][k] = told[c][k]
        BY <2>1, <3>4, <4>4 DEF ToldIsIncluded
      <4>5. CASE Hears(c, k, account)
        BY <1>1, <1>2, <2>1, <4>1, <4>5, SameExtrinsic DEF Hears
      <4>6. QED BY <1>3, <3>2, <4>3, <4>4, <4>5
    <3>5. QED BY <3>3, <3>4
  <2>3. FromTheFront'
    <3>1. \A n \in Nonces : n < account + 1 => n < account \/ n = account
      BY <1>2, BoundsAreNatural DEF Nonces
    <3>2. QED BY <1>2, <1>5, <2>1, <3>1 DEF FromTheFront, callerVars
  <2>4. NoneLost'
    BY <1>3, <2>1 DEF NoneLost
  <2>5. Ordered'
    BY <1>5, <1>6, <2>1 DEF Ordered
  <2>6. QED BY <2>2, <2>3, <2>4, <2>5
<1>9. QED BY <1>4, <1>6, <1>7, <1>8 DEF IInv

\* A fork is a disturbance.
LEMMA RetractKeeps == IInv /\ Retract => IInv'
<1> SUFFICES ASSUME IInv, Retract PROVE IInv' OBVIOUS
<1>1. TypeOK /\ Outstanding /\ Positions /\ Counting
  BY DEF IInv
<1>2. \A m \in Nonces :
        /\ Used(m)' <=> Used(m)
        /\ CallerOf(m)' = CallerOf(m)
        /\ StepOf(m)' = StepOf(m) /\ CallOf(m)' = CallOf(m)
  BY DEF Retract, Used, Free, CallerOf, StepOf, CallOf
<1>3. TypeOK'
  <2>1. account' \in Nonces /\ forks' \in 0 .. MaxForks
    BY <1>1, BoundsAreNatural DEF TypeOK, Retract, Nonces
  <2>2. QED BY <1>1, <2>1 DEF TypeOK, Retract, callerVars
<1>4. Outstanding'
  BY <1>1, <1>2 DEF Retract, Outstanding, At, callerVars
<1>5. Positions'
  BY <1>1 DEF Retract, Positions, At, callerVars
<1>6. Counting'
  BY <1>1, <1>2 DEF Retract, Counting, Silent, NoneBeyond, Counted, Unread, At,
    callerVars
<1>7. Orderly'
  <2>1. forks' # 0
    BY <1>1, BoundsAreNatural DEF TypeOK, Retract
  <2>2. QED BY <2>1 DEF Orderly, Undisturbed
<1>8. QED BY <1>3, <1>4, <1>5, <1>6, <1>7 DEF IInv

\* So is a lost extrinsic.
LEMMA DropKeeps == ASSUME IInv, NEW n \in Nonces, Drop(n) PROVE IInv'
<1>1. TypeOK /\ Outstanding /\ Positions /\ Counting
  BY DEF IInv
<1>2. /\ Used(n) /\ txs' = [txs EXCEPT ![n] = NoTx] /\ lost' = TRUE
      /\ UNCHANGED callerVars
  BY DEF Drop, Used
<1>3. /\ told' \in [Callers -> [1 .. MaxCalls -> Statuses]]
      /\ \A d \in Callers : \A k \in 1 .. MaxCalls :
           told'[d][k] = told[d][k] \/ Hears(d, k, n)
  BY <1>1, <1>2, TellStep DEF Drop
<1>4. \A m \in Nonces : Used(m)' => Used(m) /\ txs'[m] = txs[m]
  BY <1>1, <1>2 DEF TypeOK, Used, Free
<1>5. TypeOK'
  BY <1>1, <1>2, <1>3 DEF TypeOK, Drop, callerVars
<1>6. Outstanding' /\ Positions' /\ Counting'
  BY <1>1, <1>2, <1>3, <1>4, TellKeepsCount
<1>7. Orderly'
  BY <1>2 DEF Orderly, Undisturbed
<1>8. QED BY <1>5, <1>6, <1>7 DEF IInv

-----------------------------------------------------------------------------
(* The steps of a caller.                                                  *)

\* A caller that reads the nonce of the account begins with a new count.
LEMMA QueryAccountKeeps ==
  ASSUME IInv, NEW c \in Callers, QueryAccount(c)
  PROVE  IInv'
<1>1. TypeOK /\ Outstanding /\ Positions /\ Counting /\ Orderly
  BY DEF IInv
<1>2. /\ pc[c] = "query" /\ Silent(c)
      /\ pc' = [pc EXCEPT ![c] = "submit"]
      /\ call' = [call EXCEPT ![c] = 1]
      /\ nonce' = [nonce EXCEPT ![c] = account]
      /\ wg' = [wg EXCEPT ![c] = At(c).calls]
      /\ told' = [told EXCEPT ![c] = [k \in 1 .. MaxCalls |-> "nothing"]]
      /\ UNCHANGED <<program, step, account, txs, forks, lost>>
  BY <1>1 DEF Counting, QueryAccount, Goto, Queried, Added, chainVars
<1>3. At(c).calls \in 1 .. MaxCalls
  BY <1>1, SubmissionAtHand
<1>4. \A d \in Callers : At(d)' = At(d)
  BY <1>2 DEF At
<1>5. \A n \in Nonces :
        /\ Used(n)' <=> Used(n)
        /\ CallerOf(n)' = CallerOf(n)
        /\ StepOf(n)' = StepOf(n) /\ CallOf(n)' = CallOf(n)
  BY <1>2 DEF Used, Free, CallerOf, StepOf, CallOf
<1>6. \A d \in Callers \ {c} :
        /\ pc'[d] = pc[d] /\ call'[d] = call[d] /\ nonce'[d] = nonce[d]
        /\ wg'[d] = wg[d] /\ told'[d] = told[d]
  BY <1>1, <1>2 DEF TypeOK
<1>7. /\ pc'[c] = "submit" /\ call'[c] = 1 /\ nonce'[c] = account
      /\ wg'[c] = At(c).calls
      /\ \A k \in 1 .. MaxCalls : told'[c][k] = "nothing"
  BY <1>1, <1>2 DEF TypeOK
<1>8. TypeOK'
  <2>1. pc' \in [Callers -> PCs] /\ wg' \in [Callers -> 0 .. MaxCalls]
    BY <1>1, <1>2, <1>3, MaxCallsIsNatural DEF TypeOK, PCs
  <2>2. call' \in [Callers -> 1 .. MaxCalls + 1]
    BY <1>1, <1>2, MaxCallsIsNatural DEF TypeOK
  <2>3. nonce' \in [Callers -> 0 .. MaxNonce + 1]
    BY <1>1, <1>2, BoundsAreNatural DEF TypeOK, Nonces
  <2>4. told' \in [Callers -> [1 .. MaxCalls -> Statuses]]
    BY <1>1, <1>2 DEF TypeOK, Statuses
  <2>5. raced' \in BOOLEAN
    BY DEF QueryAccount
  <2>6. QED BY <1>1, <1>2, <2>1, <2>2, <2>3, <2>4, <2>5 DEF TypeOK
<1>9. Outstanding'
  <2> SUFFICES ASSUME NEW n \in Nonces, Used(n)
               PROVE  LET d == CallerOf(n)
                      IN  /\ StepOf(n) <= step[d]
                          /\ StepOf(n) = step[d] =>
                               /\ pc'[d] # "query"
                               /\ CallOf(n) \in 1 .. At(d).calls
                               /\ pc'[d] = "submit" => CallOf(n) < call'[d]
    BY <1>1, <1>2, <1>4, <1>5, UsedNames DEF Outstanding
  <2>1. CallerOf(n) \in Callers
    BY <1>1, UsedNames
  <2>2. CASE CallerOf(n) = c
    BY <1>1, <1>2, <2>2 DEF Outstanding, Silent
  <2>3. CASE CallerOf(n) # c
    BY <1>1, <1>6, <2>1, <2>3 DEF Outstanding
  <2>4. QED BY <2>2, <2>3
<1>10. Positions'
  <2>1. call'[c] <= At(c).calls
    BY <1>3, <1>7, MaxCallsIsNatural
  <2>2. \A k \in call'[c] .. MaxCalls : told'[c][k] = "nothing"
    BY <1>7
  <2>3. QED BY <1>1, <1>4, <1>6, <1>7, <2>1, <2>2 DEF Positions
<1>11. Counting'
  <2>1. Counted(c)'
    <3>1. Unread(c)' = 1 .. At(c).calls
      <4>1. \A k \in 1 .. At(c).calls : told'[c][k] = "nothing"
        BY <1>3, <1>7, WithinMaxCalls
      <4>2. QED BY <1>4, <4>1 DEF Unread
    <3>2. Cardinality(1 .. At(c).calls) = At(c).calls
      BY <1>3, MaxCallsIsNatural, FS_Interval
    <3>3. NoneBeyond(c)'
      BY <1>7 DEF NoneBeyond, Ends
    <3>4. At(c).calls <= At(c).calls
      BY <1>3, MaxCallsIsNatural
    <3>5. QED BY <1>7, <3>1, <3>2, <3>3, <3>4 DEF Counted
  <2>2. ASSUME NEW d \in Callers \ {c}
        PROVE  /\ Silent(d)' <=> Silent(d)
               /\ NoneBeyond(d)' <=> NoneBeyond(d)
               /\ Counted(d)' <=> Counted(d)
    BY <1>2, <1>4, <1>5, <1>6 DEF Silent, NoneBeyond, Counted, Unread
  <2>3. QED BY <1>1, <1>4, <1>6, <1>7, <2>1, <2>2 DEF Counting
<1>12. Orderly'
  <2> SUFFICES ASSUME Undisturbed'
               PROVE  (ToldIsIncluded /\ FromTheFront /\ NoneLost /\ Ordered)'
    BY DEF Orderly
  <2>1. ~OthersSend(c) /\ ToldIsIncluded /\ FromTheFront /\ NoneLost /\ Ordered
    <3>1. ~raced' /\ raced' = (raced \/ OthersSend(c))
      BY DEF Undisturbed, QueryAccount
    <3>2. ~raced /\ ~OthersSend(c)
      BY <3>1
    <3>3. Undisturbed
      BY <1>2, <3>2 DEF Undisturbed
    <3>4. QED BY <1>1, <3>2, <3>3 DEF Orderly
  <2>2. ToldIsIncluded'
    <3> SUFFICES ASSUME NEW n \in Nonces, Used(n),
                        \/ StepOf(n) < step[CallerOf(n)]
                        \/ told'[CallerOf(n)][CallOf(n)] \in {"in block", "read"}
                 PROVE  n < account
      BY <1>2, <1>5 DEF ToldIsIncluded
    <3>1. CASE CallerOf(n) # c
      BY <1>1, <1>6, <2>1, <3>1, UsedNames DEF ToldIsIncluded
    <3>2. CASE CallerOf(n) = c
      BY <1>1, <1>2, <2>1, <3>2, EarlierStep DEF Silent, ToldIsIncluded
    <3>3. QED BY <3>1, <3>2
  <2>3. \A n \in Nonces : Used(n) <=> n < account
    <3> SUFFICES ASSUME NEW n \in Nonces, Used(n) PROVE n < account
      BY <2>1 DEF FromTheFront
    <3>1. CASE CallerOf(n) = c
      BY <1>1, <1>2, <2>1, <3>1, EarlierStep DEF Silent, ToldIsIncluded
    <3>2. CASE CallerOf(n) # c
      <4>1. ~(n >= account)
        BY <2>1, <3>2 DEF OthersSend, Used, CallerOf
      <4>2. n \in Int /\ account \in Int
        BY <1>1, BoundsAreNatural DEF TypeOK, Nonces
      <4>3. QED BY <4>1, <4>2
    <3>3. QED BY <3>1, <3>2
  <2>4. \A d \in Callers \ {c} : pc[d] # "submit"
    BY <2>1 DEF OthersSend
  <2>5. FromTheFront'
    BY <1>2, <1>5, <1>6, <1>7, <2>1, <2>3, <2>4 DEF FromTheFront
  <2>6. NoneLost'
    BY <1>6, <1>7, <2>1 DEF NoneLost
  <2>7. Ordered'
    BY <1>5, <2>1 DEF Ordered
  <2>8. QED BY <2>2, <2>5, <2>6, <2>7
<1>13. QED BY <1>8, <1>9, <1>10, <1>11, <1>12 DEF IInv

\* A query or a submission that fails leaves everything as it is.
LEMMA FailureKeeps ==
  ASSUME IInv, NEW c \in Callers, pc[c] \in {"query", "submit"},
         Goto(c, "failed"),
         UNCHANGED <<program, step, call, nonce, wg, told, account, txs, forks,
                     lost, raced>>
  PROVE  IInv'
<1>1. TypeOK /\ Outstanding /\ Positions /\ Counting /\ Orderly
  BY DEF IInv
<1>2. /\ pc'[c] = "failed" /\ pc' \in [Callers -> PCs]
      /\ \A d \in Callers \ {c} : pc'[d] = pc[d]
  BY <1>1 DEF TypeOK, Goto, PCs
<1>3. /\ \A d \in Callers : At(d)' = At(d) /\ Unread(d)' = Unread(d)
      /\ \A n \in Nonces : /\ Used(n)' <=> Used(n)
                           /\ CallerOf(n)' = CallerOf(n)
                           /\ StepOf(n)' = StepOf(n) /\ CallOf(n)' = CallOf(n)
  BY DEF At, Unread, Used, Free, CallerOf, StepOf, CallOf
<1>4. TypeOK'
  BY <1>1, <1>2 DEF TypeOK
<1>5. Outstanding'
  BY <1>1, <1>2, <1>3, UsedNames DEF Outstanding
<1>6. Positions'
  BY <1>1, <1>2, <1>3 DEF Positions
<1>7. Counting'
  <2>1. \A d \in Callers : /\ Silent(d)' <=> Silent(d)
                           /\ NoneBeyond(d)' <=> NoneBeyond(d)
                           /\ Counted(d)' <=> Counted(d)
    BY <1>3 DEF Silent, NoneBeyond, Counted
  <2>2. QED BY <1>1, <1>2, <1>3, <2>1 DEF Counting
<1>8. Orderly'
  <2>1. /\ Undisturbed' <=> Undisturbed
        /\ ToldIsIncluded' <=> ToldIsIncluded
        /\ NoneLost' <=> NoneLost
        /\ Ordered' <=> Ordered
    <3>1. Undisturbed' <=> Undisturbed
      BY DEF Undisturbed
    <3>2. NoneLost' <=> NoneLost
      BY DEF NoneLost
    <3>3. ToldIsIncluded' <=> ToldIsIncluded
      BY <1>3 DEF ToldIsIncluded
    <3>4. Ordered' <=> Ordered
      BY <1>3 DEF Ordered
    <3>5. QED BY <3>1, <3>2, <3>3, <3>4
  <2>2. FromTheFront => FromTheFront'
    BY <1>2, <1>3 DEF FromTheFront
  <2>3. QED BY <1>1, <2>1, <2>2 DEF Orderly
<1>9. QED BY <1>4, <1>5, <1>6, <1>7, <1>8 DEF IInv

\* The caller's extrinsic takes a nonce; the caller goes on, or has not heard of
\* it and gives up.  The watcher of an extrinsic it replaces may hear of that.
Places(c) ==
  /\ pc[c] = "submit" /\ nonce[c] \in Nonces
  /\ Place(c)
  /\ Sent(c) \/ (Goto(c, "failed") /\ UNCHANGED <<call, nonce>>)
  /\ told' \in [Callers -> [1 .. MaxCalls -> Statuses]]
  /\ \A d \in Callers : \A k \in 1 .. MaxCalls :
       \/ told'[d][k] = told[d][k]
       \/ Used(nonce[c]) /\ Hears(d, k, nonce[c])
  /\ UNCHANGED <<program, step, wg, account, forks, raced>>

\* The extrinsics after the step are the earlier ones and the new one.
LEMMA PlacedNames ==
  ASSUME TypeOK, NEW c \in Callers, Places(c)
  PROVE  /\ txs' \in [Nonces -> {NoTx} \cup (Callers \X Nat \X Nat)]
         /\ \A n \in Nonces :
              n = nonce[c] =>
                /\ Used(n)' /\ CallerOf(n)' = c
                /\ StepOf(n)' = step[c] /\ CallOf(n)' = call[c]
         /\ \A n \in Nonces :
              n # nonce[c] =>
                /\ Used(n)' <=> Used(n)
                /\ CallerOf(n)' = CallerOf(n)
                /\ StepOf(n)' = StepOf(n) /\ CallOf(n)' = CallOf(n)
<1>1. txs' = [txs EXCEPT ![nonce[c]] = <<c, step[c], call[c]>>]
  BY DEF Places, Place
<1>2. nonce[c] \in Nonces
  BY DEF Places
<1>3. step[c] \in Nat /\ call[c] \in Nat
  BY MaxCallsIsNatural DEF TypeOK
<1>4. txs'[nonce[c]] = <<c, step[c], call[c]>>
  BY <1>1, <1>2 DEF TypeOK
<1>5. \A n \in Nonces \ {nonce[c]} : txs'[n] = txs[n]
  BY <1>1 DEF TypeOK
<1>6. txs' \in [Nonces -> {NoTx} \cup (Callers \X Nat \X Nat)]
  BY <1>1, <1>2, <1>3 DEF TypeOK
<1>7. <<c, step[c], call[c]>> # NoTx
  BY DEF NoTx
<1>8. QED
  BY <1>4, <1>5, <1>6, <1>7 DEF Used, Free, CallerOf, StepOf, CallOf

LEMMA PlacesKeeps ==
  ASSUME TypeOK, Outstanding, Positions, Counting, lost' \in BOOLEAN,
         NEW c \in Callers, Places(c)
  PROVE  TypeOK' /\ Outstanding' /\ Positions' /\ Counting'
<1>1. /\ call[c] \in Nat /\ call[c] >= 1 /\ call[c] <= At(c).calls
      /\ At(c).calls \in 1 .. MaxCalls
      /\ ~At(c).batch => At(c).calls = 1
  <2>1. call[c] \in Nat /\ call[c] >= 1
    BY MaxCallsIsNatural DEF TypeOK
  <2>2. call[c] <= At(c).calls
    BY DEF Positions, Places
  <2>3. QED BY <2>1, <2>2, SubmissionAtHand
<1>2. \A d \in Callers : At(d)' = At(d)
  BY DEF Places, At
<1>3. \/ /\ ~At(c).batch /\ pc' = [pc EXCEPT ![c] = "watch"]
         /\ UNCHANGED <<call, nonce>>
      \/ /\ At(c).batch /\ call[c] = At(c).calls
         /\ pc' = [pc EXCEPT ![c] = "wait"]
         /\ call' = [call EXCEPT ![c] = call[c] + 1]
         /\ nonce' = [nonce EXCEPT ![c] = nonce[c] + 1]
      \/ /\ At(c).batch /\ call[c] # At(c).calls /\ pc' = pc
         /\ call' = [call EXCEPT ![c] = call[c] + 1]
         /\ nonce' = [nonce EXCEPT ![c] = nonce[c] + 1]
      \/ /\ pc' = [pc EXCEPT ![c] = "failed"]
         /\ UNCHANGED <<call, nonce>>
  BY DEF Places, Sent, Goto, Following
<1>4. /\ pc'[c] \in {"watch", "wait", "submit", "failed"}
      /\ pc'[c] = "watch" => ~At(c).batch
      /\ pc'[c] \in {"wait", "submit"} => At(c).batch
      /\ pc'[c] = "submit" => call[c] # At(c).calls /\ call'[c] = call[c] + 1
      /\ \A d \in Callers \ {c} : pc'[d] = pc[d] /\ call'[d] = call[d]
  BY <1>3 DEF TypeOK, Places
<1>5. TypeOK'
  <2>1. pc' \in [Callers -> PCs]
    BY <1>3 DEF TypeOK, PCs
  <2>2. call' \in [Callers -> 1 .. MaxCalls + 1]
    <3>1. call[c] + 1 \in 1 .. MaxCalls + 1
      BY <1>1, MaxCallsIsNatural
    <3>2. QED BY <1>3, <3>1 DEF TypeOK
  <2>3. nonce' \in [Callers -> 0 .. MaxNonce + 1]
    <3>1. nonce[c] + 1 \in 0 .. MaxNonce + 1
      BY BoundsAreNatural DEF Places, Nonces
    <3>2. QED BY <1>3, <3>1 DEF TypeOK
  <2>4. QED BY <2>1, <2>2, <2>3, PlacedNames DEF TypeOK, Places
<1>6. Outstanding'
  <2>1. ASSUME NEW n \in Nonces, Used(n)', NEW d \in Callers, d = CallerOf(n)'
        PROVE  /\ StepOf(n)' <= step[d]
               /\ StepOf(n)' = step[d] =>
                    /\ pc'[d] # "query"
                    /\ CallOf(n)' \in 1 .. At(d).calls
                    /\ pc'[d] = "submit" => CallOf(n)' < call'[d]
    <3>1. CASE n = nonce[c]
      <4>1. d = c /\ StepOf(n)' = step[c] /\ CallOf(n)' = call[c]
        BY <2>1, <3>1, PlacedNames
      <4>2. step[c] <= step[c] /\ call[c] \in 1 .. At(c).calls
        BY <1>1, MaxCallsIsNatural DEF TypeOK
      <4>3. call[c] < call[c] + 1
        BY <1>1
      <4>4. QED BY <1>4, <4>1, <4>2, <4>3
    <3>2. CASE n # nonce[c]
      <4>1. /\ Used(n) /\ d = CallerOf(n)
            /\ StepOf(n)' = StepOf(n) /\ CallOf(n)' = CallOf(n)
        BY <2>1, <3>2, PlacedNames
      <4>2. CallOf(n) \in Nat
        BY <4>1, UsedNames
      <4>3. CASE d # c
        BY <1>4, <4>1, <4>3 DEF Outstanding
      <4>4. CASE d = c
        <5>1. /\ StepOf(n) <= step[c]
              /\ StepOf(n) = step[c] =>
                   CallOf(n) \in 1 .. At(c).calls /\ CallOf(n) < call[c]
          BY <4>1, <4>4 DEF Outstanding, Places
        <5>2. CallOf(n) < call[c] => CallOf(n) < call[c] + 1
          BY <1>1, <4>2
        <5>3. QED BY <1>4, <4>1, <4>4, <5>1, <5>2
      <4>5. QED BY <4>3, <4>4
    <3>3. QED BY <3>1, <3>2
  <2>2. \A n \in Nonces : Used(n)' => CallerOf(n)' \in Callers
    <3>1. \A n \in Nonces : Used(n) => CallerOf(n) \in Callers
      BY UsedNames
    <3>2. QED BY <3>1, PlacedNames
  <2>3. UNCHANGED step
    BY DEF Places
  <2>4. QED BY <1>2, <2>1, <2>2, <2>3 DEF Outstanding
<1>7. \A d \in Callers : \A k \in 1 .. MaxCalls :
        told[d][k] = "nothing" /\ ~(pc[d] = "watch" \/ k < call[d])
          => told'[d][k] = "nothing"
  BY DEF Places, Hears
<1>8. Positions'
  <2>1. ASSUME NEW d \in Callers, pc'[d] = "submit"
        PROVE  /\ call'[d] <= At(d).calls
               /\ \A k \in call'[d] .. MaxCalls : told'[d][k] = "nothing"
    <3>1. /\ pc[d] = "submit" /\ call[d] <= At(d).calls
          /\ call[d] \in Nat /\ call[d] >= 1
          /\ At(d).calls \in 1 .. MaxCalls
          /\ \A k \in call[d] .. MaxCalls : told[d][k] = "nothing"
      <4>1. call[d] \in Nat /\ call[d] >= 1
        BY MaxCallsIsNatural DEF TypeOK
      <4>2. At(d).calls \in 1 .. MaxCalls
        BY SubmissionAtHand
      <4>3. pc[d] = "submit"
        BY <1>4, <2>1 DEF Places
      <4>4. QED BY <4>1, <4>2, <4>3 DEF Positions
    <3>2. call'[d] \in {call[d], call[d] + 1}
      BY <1>4, <2>1
    <3>3. call'[d] <= At(d).calls
      <4>1. CASE d = c
        BY <1>1, <1>4, <2>1, <4>1, MaxCallsIsNatural
      <4>2. CASE d # c
        BY <1>4, <3>1, <4>2
      <4>3. QED BY <4>1, <4>2
    <3>4. ASSUME NEW k \in call'[d] .. MaxCalls
          PROVE  told'[d][k] = "nothing"
      <4>1. k \in call[d] .. MaxCalls /\ k \in 1 .. MaxCalls /\ ~(k < call[d])
        BY <3>1, <3>2, <3>4, MaxCallsIsNatural
      <4>2. QED BY <1>7, <3>1, <4>1
    <3>5. QED BY <3>3, <3>4
  <2>2. QED BY <1>2, <1>4, <2>1 DEF Positions
<1>9. ASSUME NEW d \in Callers \ {c}, Silent(d) PROVE Silent(d)'
  <2>1. ASSUME NEW n \in Nonces, Used(n)', CallerOf(n)' = d
        PROVE  StepOf(n)' # step[d]
    BY <1>9, <2>1, PlacedNames DEF Silent
  <2>2. \A k \in 1 .. MaxCalls : told'[d][k] = told[d][k]
    BY <1>9 DEF Places, Silent, Hears
  <2>3. QED BY <1>9, <2>1, <2>2 DEF Silent, Places
<1>10. ASSUME NEW d \in Callers, NoneBeyond(d) PROVE NoneBeyond(d)'
  <2>1. ASSUME NEW k \in 1 .. MaxCalls, told'[d][k] \in Ends
        PROVE  k <= At(d).calls
    <3>1. At(d).calls \in 1 .. MaxCalls
      BY SubmissionAtHand
    <3>2. CASE told'[d][k] = told[d][k]
      BY <1>10, <2>1, <3>2 DEF NoneBeyond
    <3>3. CASE told'[d][k] # told[d][k]
      <4>1. k \in 1 .. At(d).calls
        BY <3>3 DEF Places, Hears, Outstanding
      <4>2. QED BY <3>1, <4>1, MaxCallsIsNatural
    <3>4. QED BY <3>2, <3>3
  <2>2. QED BY <1>2, <2>1 DEF NoneBeyond
<1>11. ASSUME NEW d \in Callers, Counted(d) PROVE Counted(d)'
  <2>1. \A k \in 1 .. MaxCalls : told'[d][k] = "read" <=> told[d][k] = "read"
    BY DEF Places, Hears
  <2>2. \A k \in 1 .. At(d).calls : k \in 1 .. MaxCalls
    BY SubmissionAtHand, WithinMaxCalls
  <2>3. Unread(d)' = Unread(d)
    BY <1>2, <2>1, <2>2 DEF Unread
  <2>4. QED BY <1>10, <1>11, <2>3 DEF Counted, Places
<1>12. Counting'
  <2>1. pc[c] = "submit"
    BY DEF Places
  <2>2. pc'[c] = "watch" => NoneBeyond(c)'
    <3>1. \A k \in 1 .. MaxCalls : ~At(c).batch => told'[c][k] = "nothing"
      <4>1. ~At(c).batch => call[c] = 1
        BY <1>1
      <4>2. \A k \in 1 .. MaxCalls : k \in 1 .. MaxCalls /\ ~(k < 1)
        BY MaxCallsIsNatural
      <4>3. QED BY <1>7, <2>1, <4>1, <4>2 DEF Positions
    <3>2. QED BY <1>4, <3>1 DEF NoneBeyond, Ends
  <2>3. At(c).batch => Counted(c)'
    BY <1>11, <2>1 DEF Counting
  <2>4. QED
    BY <1>2, <1>4, <1>9, <1>10, <1>11, <2>2, <2>3 DEF Counting
<1>13. QED BY <1>5, <1>6, <1>8, <1>12

\* Undisturbed, the new extrinsic is behind all others, and its watcher has been
\* told nothing.
LEMMA PlacesOrderly ==
  ASSUME TypeOK, Outstanding, Positions,
         ToldIsIncluded, FromTheFront, NoneLost, Ordered,
         NEW c \in Callers, Places(c), Free(nonce[c]), told' = told
  PROVE  (ToldIsIncluded /\ FromTheFront /\ NoneLost /\ Ordered)'
<1>1. /\ pc[c] = "submit" /\ nonce[c] \in Nonces
      /\ UNCHANGED <<program, step, account>>
  BY DEF Places
<1>2. /\ \A n \in Nonces : Used(n) <=> n < nonce[c]
      /\ \A d \in Callers : pc[d] = "submit" => d = c
  BY <1>1 DEF FromTheFront
<1>3. \A d \in Callers : pc'[d] = "submit" =>
        d = c /\ nonce'[c] = nonce[c] + 1
  BY <1>1, <1>2 DEF Places, Sent, Goto, Following, TypeOK
<1>4. ToldIsIncluded'
  <2>1. ASSUME NEW n \in Nonces, Used(n)', NEW d \in Callers, d = CallerOf(n)',
               \/ StepOf(n)' < step[d]
               \/ told[d][CallOf(n)'] \in {"in block", "read"}
        PROVE  n < account
    <3>1. CASE n = nonce[c]
      <4>1. d = c /\ StepOf(n)' = step[c] /\ CallOf(n)' = call[c]
        BY <2>1, <3>1, PlacedNames
      <4>2. ~(step[c] < step[c])
        BY DEF TypeOK
      <4>3. told[c][call[c]] = "nothing"
        <5>1. call[c] \in call[c] .. MaxCalls
          <6>1. call[c] \in 1 .. MaxCalls + 1
            BY DEF TypeOK
          <6>2. call[c] <= At(c).calls
            BY <1>1 DEF Positions
          <6>3. At(c).calls \in 1 .. MaxCalls
            BY SubmissionAtHand
          <6>4. QED BY <6>1, <6>2, <6>3, MaxCallsIsNatural
        <5>2. QED BY <1>1, <5>1 DEF Positions
      <4>4. QED BY <2>1, <4>1, <4>2, <4>3
    <3>2. CASE n # nonce[c]
      <4>1. /\ Used(n) /\ d = CallerOf(n)
            /\ StepOf(n)' = StepOf(n) /\ CallOf(n)' = CallOf(n)
        BY <2>1, <3>2, PlacedNames
      <4>2. QED BY <2>1, <4>1 DEF ToldIsIncluded
    <3>3. QED BY <3>1, <3>2
  <2>2. \A n \in Nonces : Used(n)' => CallerOf(n)' \in Callers
    <3>1. \A n \in Nonces : Used(n) => CallerOf(n) \in Callers
      BY UsedNames
    <3>2. QED BY <3>1, PlacedNames
  <2>3. QED BY <1>1, <2>1, <2>2 DEF ToldIsIncluded
<1>5. FromTheFront'
  <2>1. \A n \in Nonces : Used(n)' <=> n < nonce[c] + 1
    <3>1. \A n \in Nonces : Used(n)' <=> n < nonce[c] \/ n = nonce[c]
      BY <1>1, <1>2, PlacedNames, BoundsAreNatural DEF Nonces
    <3>2. \A n \in Nonces : n < nonce[c] \/ n = nonce[c] <=> n < nonce[c] + 1
      BY <1>1, BoundsAreNatural DEF Nonces
    <3>3. QED BY <3>1, <3>2
  <2>2. \A n \in Nonces : n < account => Used(n)'
    BY PlacedNames DEF FromTheFront
  <2>3. QED BY <1>1, <1>3, <2>1, <2>2 DEF FromTheFront
<1>6. NoneLost'
  BY DEF NoneLost
<1>7. Ordered'
  <2>1. ASSUME NEW n \in Nonces, NEW m \in Nonces,
               n < m, Used(n)', Used(m)', CallerOf(n)' = CallerOf(m)'
        PROVE  \/ StepOf(n)' < StepOf(m)'
               \/ StepOf(n)' = StepOf(m)' /\ CallOf(n)' < CallOf(m)'
    <3>1. CASE n = nonce[c]
      <4>1. m # nonce[c] /\ ~(m < nonce[c])
        BY <2>1, <3>1, BoundsAreNatural DEF Nonces
      <4>2. QED BY <1>2, <2>1, <4>1, PlacedNames
    <3>2. CASE m = nonce[c]
      <4>1. n # nonce[c]
        BY <2>1, <3>2, BoundsAreNatural DEF Nonces
      <4>2. /\ CallerOf(m)' = c /\ StepOf(m)' = step[c] /\ CallOf(m)' = call[c]
        BY <3>2, PlacedNames
      <4>3. /\ Used(n) /\ CallerOf(n) = c
            /\ StepOf(n)' = StepOf(n) /\ CallOf(n)' = CallOf(n)
        BY <2>1, <4>1, <4>2, PlacedNames
      <4>4. StepOf(n) < step[c] \/ StepOf(n) = step[c]
        BY <4>3, EarlierStep
      <4>5. StepOf(n) = step[c] => CallOf(n) < call[c]
        BY <1>1, <4>3 DEF Outstanding
      <4>6. QED BY <4>2, <4>3, <4>4, <4>5
    <3>3. CASE n # nonce[c] /\ m # nonce[c]
      BY <2>1, <3>3, PlacedNames DEF Ordered
    <3>4. QED BY <3>1, <3>2, <3>3
  <2>2. QED BY <2>1 DEF Ordered
<1>8. QED BY <1>4, <1>5, <1>6, <1>7

LEMMA SubmitKeeps ==
  ASSUME IInv, NEW c \in Callers, Submit(c)
  PROVE  IInv'
<1>1. TypeOK /\ Outstanding /\ Positions /\ Counting /\ Orderly
  BY DEF IInv
<1>2. /\ Places(c) /\ Free(nonce[c])
      /\ UNCHANGED <<told, forks, lost, raced>>
  BY <1>1 DEF Submit, Places, TypeOK
<1>3. lost' \in BOOLEAN
  BY <1>1, <1>2 DEF TypeOK
<1>4. TypeOK' /\ Outstanding' /\ Positions' /\ Counting'
  BY <1>1, <1>2, <1>3, PlacesKeeps
<1>5. Orderly'
  BY <1>1, <1>2, PlacesOrderly DEF Orderly, Undisturbed
<1>6. QED BY <1>4, <1>5 DEF IInv

\* The call fails after the node has taken the extrinsic, or before.
LEMMA SubmitErrorKeeps ==
  ASSUME IInv, NEW c \in Callers, SubmitError(c)
  PROVE  IInv'
<1>1. TypeOK /\ Outstanding /\ Positions /\ Counting /\ Orderly
  BY DEF IInv
<1>2. CASE Free(nonce[c]) /\ Place(c)
  <2>1. /\ Places(c) /\ Free(nonce[c])
        /\ UNCHANGED <<told, forks, lost, raced>>
    BY <1>1, <1>2 DEF SubmitError, Places, TypeOK
  <2>2. lost' \in BOOLEAN
    BY <1>1, <2>1 DEF TypeOK
  <2>3. TypeOK' /\ Outstanding' /\ Positions' /\ Counting'
    BY <1>1, <2>1, <2>2, PlacesKeeps
  <2>4. Orderly'
    BY <1>1, <2>1, PlacesOrderly DEF Orderly, Undisturbed
  <2>5. QED BY <2>3, <2>4 DEF IInv
<1>3. CASE UNCHANGED txs
  BY <1>3, FailureKeeps DEF SubmitError
<1>4. QED BY <1>2, <1>3 DEF SubmitError

\* The watcher of the extrinsic that is replaced hears of it; an order is no
\* longer promised.
LEMMA UsurpKeeps ==
  ASSUME IInv, NEW c \in Callers, Usurp(c)
  PROVE  IInv'
<1>1. TypeOK /\ Outstanding /\ Positions /\ Counting
  BY DEF IInv
<1>2. /\ pc[c] = "submit" /\ nonce[c] \in Nonces /\ Used(nonce[c])
      /\ Place(c) /\ Sent(c) /\ lost' = TRUE
      /\ UNCHANGED <<program, step, wg, account, forks, raced>>
  BY DEF Usurp, Used
<1>3. ASSUME NEW n \in Nonces, n = nonce[c]
      PROVE  /\ told' \in [Callers -> [1 .. MaxCalls -> Statuses]]
             /\ \A d \in Callers : \A k \in 1 .. MaxCalls :
                  told'[d][k] = told[d][k] \/ Hears(d, k, n)
  BY <1>1, <1>2, <1>3, TellStep DEF Usurp
<1>4. Places(c)
  BY <1>2, <1>3 DEF Places
<1>5. TypeOK' /\ Outstanding' /\ Positions' /\ Counting'
  BY <1>1, <1>2, <1>4, PlacesKeeps
<1>6. Orderly'
  BY <1>2 DEF Orderly, Undisturbed
<1>7. QED BY <1>5, <1>6 DEF IInv

\* A caller leaves a submission when every watcher has been told and has read
\* it; with SubmitTx what it was told may be a loss.
LEMMA LeavesKeeps ==
  ASSUME IInv, NEW c \in Callers, pc[c] \in {"watch", "wait"},
         Advance(c) \/ (Goto(c, "failed") /\ UNCHANGED step),
         told' \in [Callers -> [1 .. MaxCalls -> Statuses]],
         \A d \in Callers \ {c} : told'[d] = told[d],
         \A k \in 1 .. MaxCalls :
           /\ told'[c][k] = told[c][k] \/ told'[c][k] = "read"
           /\ told'[c][k] \notin Ends,
         \A k \in 1 .. At(c).calls : told[c][k] \in Ends \cup {"read"},
         At(c).batch => told' = told /\ Counted(c),
         UNCHANGED <<program, call, nonce, wg, chainVars, lost, raced>>
  PROVE  IInv'
<1>1. TypeOK /\ Outstanding /\ Positions /\ Counting /\ Orderly
  BY DEF IInv
<1>2. UNCHANGED <<program, call, nonce, wg, account, txs, forks, lost, raced>>
  BY DEF chainVars
<1>3. /\ \A n \in Nonces : /\ Used(n)' <=> Used(n)
                           /\ CallerOf(n)' = CallerOf(n)
                           /\ StepOf(n)' = StepOf(n) /\ CallOf(n)' = CallOf(n)
      /\ \A n \in Nonces : Used(n) => CallerOf(n) \in Callers
  BY <1>1, <1>2, UsedNames DEF Used, Free, CallerOf, StepOf, CallOf
<1>4. /\ \/ pc'[c] \in {"done", "failed"} /\ step'[c] = step[c]
         \/ /\ pc'[c] = "query" /\ step'[c] = step[c] + 1
            /\ step[c] # Len(program[c])
      /\ \A d \in Callers \ {c} : pc'[d] = pc[d] /\ step'[d] = step[d]
      /\ pc' \in [Callers -> PCs] /\ step' \in [Callers -> Nat]
  <2>1. /\ pc \in [Callers -> PCs] /\ step \in [Callers -> Nat]
        /\ {"done", "failed", "query"} \subseteq PCs
    BY <1>1 DEF TypeOK, PCs
  <2>2. CASE Goto(c, "failed") /\ UNCHANGED step
    BY <2>1, <2>2 DEF Goto
  <2>3. CASE Goto(c, "done") /\ UNCHANGED step
    BY <2>1, <2>3 DEF Goto
  <2>4. CASE /\ step[c] # Len(program[c]) /\ Goto(c, "query")
             /\ step' = [step EXCEPT ![c] = @ + 1]
    <3>1. step[c] + 1 \in Nat
      BY <2>1
    <3>2. QED BY <2>1, <2>4, <3>1 DEF Goto
  <2>5. QED BY <2>2, <2>3, <2>4 DEF Advance
<1>5. \A d \in Callers : step'[d] = step[d] => At(d)' = At(d)
  BY <1>2 DEF At
<1>6. TypeOK'
  <2>1. \A d \in Callers : step'[d] \in 1 .. Len(program'[d])
    <3>1. Len(program[c]) \in Nat /\ step[c] \in 1 .. Len(program[c])
      BY <1>1, SubmissionAtHand
    <3>2. step'[c] \in 1 .. Len(program[c])
      BY <1>4, <3>1
    <3>3. QED BY <1>1, <1>2, <1>4, <3>2 DEF TypeOK
  <2>2. QED BY <1>1, <1>2, <1>4, <2>1 DEF TypeOK
<1>7. ASSUME NEW n \in Nonces, Used(n), CallerOf(n) = c
      PROVE  /\ StepOf(n) <= step[c]
             /\ StepOf(n) <= step[c] + 1 /\ StepOf(n) # step[c] + 1
             /\ StepOf(n) = step[c] => CallOf(n) \in 1 .. At(c).calls
  <2>1. /\ StepOf(n) <= step[c]
        /\ StepOf(n) = step[c] => CallOf(n) \in 1 .. At(c).calls
    BY <1>1, <1>7 DEF Outstanding
  <2>2. StepOf(n) \in Nat /\ step[c] \in Nat
    BY <1>1, <1>7, UsedNames DEF TypeOK
  <2>3. QED BY <2>1, <2>2
<1>8. Outstanding'
  <2>1. ASSUME NEW n \in Nonces, Used(n), NEW d \in Callers, d = CallerOf(n)
        PROVE  /\ StepOf(n) <= step'[d]
               /\ StepOf(n) = step'[d] =>
                    /\ pc'[d] # "query" /\ At(d)' = At(d)
                    /\ CallOf(n) \in 1 .. At(d).calls
                    /\ pc'[d] = "submit" => CallOf(n) < call[d]
    <3>1. CASE d = c
      BY <1>4, <1>5, <1>7, <2>1, <3>1
    <3>2. CASE d # c
      BY <1>1, <1>4, <1>5, <2>1, <3>2 DEF Outstanding
    <3>3. QED BY <3>1, <3>2
  <2>2. QED BY <1>2, <1>3, <2>1 DEF Outstanding
<1>9. Positions'
  <2>1. pc'[c] \notin {"submit", "watch", "wait"}
    BY <1>4
  <2>2. QED BY <1>1, <1>2, <1>4, <1>5, <2>1 DEF Positions
<1>10. Counting'
  <2>1. pc'[c] = "query" => Silent(c)'
    <3>1. pc'[c] = "query" =>
            \A n \in Nonces : Used(n) /\ CallerOf(n) = c => StepOf(n) # step'[c]
      BY <1>4, <1>7
    <3>2. QED BY <1>3, <3>1 DEF Silent
  <2>2. pc'[c] # "query" /\ At(c)'.batch => Counted(c)'
    <3>1. CASE step'[c] = step[c] /\ At(c).batch
      BY <1>2, <1>5, <3>1 DEF Counted, NoneBeyond, Unread
    <3>2. QED BY <1>4, <1>5, <3>1
  <2>3. ASSUME NEW d \in Callers \ {c}
        PROVE  /\ Silent(d)' <=> Silent(d)
               /\ NoneBeyond(d)' <=> NoneBeyond(d)
               /\ Counted(d)' <=> Counted(d)
    BY <1>2, <1>3, <1>4, <1>5 DEF Silent, NoneBeyond, Counted, Unread
  <2>4. QED BY <1>1, <1>4, <1>5, <2>1, <2>2, <2>3 DEF Counting
<1>11. Orderly'
  <2> SUFFICES ASSUME Undisturbed'
               PROVE  (ToldIsIncluded /\ FromTheFront /\ NoneLost /\ Ordered)'
    BY DEF Orderly
  <2>1. ToldIsIncluded /\ FromTheFront /\ NoneLost /\ Ordered
    BY <1>1, <1>2 DEF Orderly, Undisturbed
  <2>2. ToldIsIncluded'
    <3>1. ASSUME NEW n \in Nonces, Used(n), CallerOf(n) = c PROVE n < account
      <4>1. CASE StepOf(n) < step[c]
        BY <2>1, <3>1, <4>1 DEF ToldIsIncluded
      <4>2. CASE StepOf(n) = step[c]
        <5>1. CallOf(n) \in 1 .. At(c).calls
          BY <1>7, <3>1, <4>2
        <5>2. CallOf(n) \in 1 .. MaxCalls
          BY <1>1, <5>1, SubmissionAtHand, WithinMaxCalls
        <5>3. told[c][CallOf(n)] \in {"in block", "read"}
          BY <2>1, <5>1, <5>2 DEF NoneLost, Ends
        <5>4. QED BY <2>1, <3>1, <5>3 DEF ToldIsIncluded
      <4>3. QED BY <1>1, <3>1, <4>1, <4>2, EarlierStep
    <3>2. ASSUME NEW n \in Nonces, Used(n), CallerOf(n) # c,
                 \/ StepOf(n) < step'[CallerOf(n)]
                 \/ told'[CallerOf(n)][CallOf(n)] \in {"in block", "read"}
          PROVE  n < account
      BY <1>3, <1>4, <2>1, <3>2 DEF ToldIsIncluded
    <3>3. QED BY <1>2, <1>3, <3>1, <3>2 DEF ToldIsIncluded
  <2>3. FromTheFront'
    BY <1>2, <1>3, <1>4, <2>1 DEF FromTheFront
  <2>4. NoneLost'
    BY <2>1 DEF NoneLost
  <2>5. Ordered'
    BY <1>3, <2>1 DEF Ordered
  <2>6. QED BY <2>2, <2>3, <2>4, <2>5
<1>12. QED BY <1>6, <1>8, <1>9, <1>10, <1>11 DEF IInv

LEMMA StatusKeeps ==
  ASSUME IInv, NEW c \in Callers, Status(c)
  PROVE  IInv'
<1>1. TypeOK /\ Positions /\ Counting
  BY DEF IInv
<1>2. /\ pc[c] = "watch" /\ told[c][1] \in Ends
      /\ told' = [told EXCEPT ![c][1] = "read"]
      /\ UNCHANGED <<program, call, nonce, wg, chainVars, lost, raced>>
  BY DEF Status
<1>3. At(c).calls = 1 /\ ~At(c).batch
  BY <1>1, <1>2, SubmissionAtHand DEF Positions
<1>4. \A k \in 1 .. MaxCalls : told[c][k] \in Ends => k = 1
  <2>1. \A k \in 1 .. MaxCalls : k <= 1 => k = 1
    BY MaxCallsIsNatural
  <2>2. QED BY <1>1, <1>2, <1>3, <2>1 DEF Counting, NoneBeyond
<1>5. /\ told' \in [Callers -> [1 .. MaxCalls -> Statuses]]
      /\ \A d \in Callers \ {c} : told'[d] = told[d]
      /\ \A k \in 1 .. MaxCalls :
           told'[c][k] = IF k = 1 THEN "read" ELSE told[c][k]
  <2>1. told \in [Callers -> [1 .. MaxCalls -> Statuses]]
    BY <1>1 DEF TypeOK
  <2>2. 1 \in 1 .. MaxCalls /\ "read" \in Statuses
    BY MaxCallsIsNatural DEF Statuses
  <2>3. QED BY <1>2, <2>1, <2>2
<1>6. \A k \in 1 .. MaxCalls :
        /\ told'[c][k] = told[c][k] \/ told'[c][k] = "read"
        /\ told'[c][k] \notin Ends
  BY <1>4, <1>5 DEF Ends
<1>7. \A k \in 1 .. At(c).calls : told[c][k] \in Ends \cup {"read"}
  <2>1. \A k \in 1 .. At(c).calls : k = 1
    BY <1>3
  <2>2. QED BY <1>2, <2>1
<1>8. Advance(c) \/ (Goto(c, "failed") /\ UNCHANGED step)
  BY DEF Status
<1>9. QED BY <1>2, <1>3, <1>5, <1>6, <1>7, <1>8, LeavesKeeps

\* At zero no watcher is left to read.
LEMMA WaitKeeps ==
  ASSUME IInv, NEW c \in Callers, Wait(c)
  PROVE  IInv'
<1>1. TypeOK /\ Positions /\ Counting
  BY DEF IInv
<1>2. /\ pc[c] = "wait" /\ wg[c] = 0 /\ told' = told /\ Advance(c)
      /\ UNCHANGED <<program, call, nonce, wg, chainVars, lost, raced>>
  BY DEF Wait
<1>3. Counted(c)
  BY <1>1, <1>2 DEF Positions, Counting
<1>4. \A k \in 1 .. At(c).calls : told[c][k] = "read"
  <2>1. Cardinality(Unread(c)) \in Nat /\ Cardinality(Unread(c)) <= 0
    BY <1>1, <1>2, <1>3, UnreadFinite DEF Counted
  <2>2. Unread(c) = {}
    BY <1>1, <2>1, UnreadFinite
  <2>3. QED BY <2>2 DEF Unread
<1>5. \A k \in 1 .. MaxCalls : told[c][k] \notin Ends
  <2> SUFFICES ASSUME NEW k \in 1 .. MaxCalls, told[c][k] \in Ends
               PROVE  FALSE
    OBVIOUS
  <2>1. k <= At(c).calls
    BY <1>3 DEF Counted, NoneBeyond
  <2>2. At(c).calls \in 1 .. MaxCalls
    BY <1>1, SubmissionAtHand
  <2>3. k \in 1 .. At(c).calls
    BY <2>1, <2>2, MaxCallsIsNatural
  <2>4. QED BY <1>4, <2>3 DEF Ends
<1>6. told' \in [Callers -> [1 .. MaxCalls -> Statuses]]
  BY <1>1, <1>2 DEF TypeOK
<1>7. QED BY <1>2, <1>3, <1>4, <1>5, <1>6, LeavesKeeps

\* A watcher that is done was not done before, so the counter was above zero.
LEMMA WatcherKeeps ==
  ASSUME IInv, NEW c \in Callers, NEW k \in 1 .. MaxCalls, Watcher(c, k)
  PROVE  IInv'
<1>1. TypeOK /\ Outstanding /\ Positions /\ Counting /\ Orderly
  BY DEF IInv
<1>2. /\ At(c).batch /\ told[c][k] \in Ends
      /\ told' = [told EXCEPT ![c][k] = "read"]
      /\ wg' = [wg EXCEPT ![c] = wg[c] - 1]
      /\ UNCHANGED <<program, step, pc, call, nonce, account, txs, forks, lost,
                     raced>>
  BY DEF Watcher, chainVars
<1>3. /\ \A d \in Callers : At(d)' = At(d)
      /\ \A n \in Nonces : /\ Used(n)' <=> Used(n)
                           /\ CallerOf(n)' = CallerOf(n)
                           /\ StepOf(n)' = StepOf(n) /\ CallOf(n)' = CallOf(n)
  BY <1>2 DEF At, Used, Free, CallerOf, StepOf, CallOf
<1>4. /\ told' \in [Callers -> [1 .. MaxCalls -> Statuses]]
      /\ \A d \in Callers \ {c} : told'[d] = told[d]
      /\ \A j \in 1 .. MaxCalls :
           told'[c][j] = IF j = k THEN "read" ELSE told[c][j]
  <2>1. /\ told \in [Callers -> [1 .. MaxCalls -> Statuses]]
        /\ "read" \in Statuses
    BY <1>1 DEF TypeOK, Statuses
  <2>2. QED BY <1>2, <2>1
<1>5. ~Silent(c)
  BY <1>2 DEF Silent
<1>6. pc[c] \notin {"query", "watch"} /\ Counted(c)
  BY <1>1, <1>2, <1>5 DEF Positions, Counting, TypeOK, PCs
<1>7. At(c).calls \in 1 .. MaxCalls /\ k \in 1 .. At(c).calls
  <2>1. At(c).calls \in 1 .. MaxCalls /\ k <= At(c).calls
    BY <1>1, <1>2, <1>6, SubmissionAtHand DEF Counted, NoneBeyond
  <2>2. QED BY <2>1, MaxCallsIsNatural
<1>8. Unread(c)' = Unread(c) \ {k} /\ k \in Unread(c)
  <2>1. \A j \in 1 .. At(c).calls : j \in 1 .. MaxCalls
    BY <1>7, WithinMaxCalls
  <2>2. QED BY <1>2, <1>3, <1>4, <1>7, <2>1 DEF Unread, Ends
<1>9. /\ Cardinality(Unread(c)) \in Nat /\ Cardinality(Unread(c)) # 0
      /\ Cardinality(Unread(c)') = Cardinality(Unread(c)) - 1
  <2>1. IsFiniteSet(Unread(c)) /\ Cardinality(Unread(c)) \in Nat
    BY <1>1, UnreadFinite
  <2>2. Cardinality(Unread(c)) # 0
    BY <1>1, <1>8, UnreadFinite
  <2>3. Cardinality(Unread(c) \ {k}) = Cardinality(Unread(c)) - 1
    BY <1>8, <2>1, FS_RemoveElement
  <2>4. QED BY <1>8, <2>1, <2>2, <2>3
<1>10. /\ wg[c] \in 0 .. MaxCalls /\ wg[c] - 1 \in 0 .. MaxCalls
       /\ Cardinality(Unread(c)') <= wg[c] - 1
  <2>1. wg[c] \in 0 .. MaxCalls /\ Cardinality(Unread(c)) <= wg[c]
    BY <1>1, <1>6 DEF TypeOK, Counted
  <2>2. QED BY <1>9, <2>1, MaxCallsIsNatural
<1>11. TypeOK'
  <2>1. wg' \in [Callers -> 0 .. MaxCalls]
    BY <1>1, <1>2, <1>10 DEF TypeOK
  <2>2. QED BY <1>1, <1>2, <1>4, <2>1 DEF TypeOK
<1>12. Outstanding'
  <2>1. \A n \in Nonces : Used(n) => CallerOf(n) \in Callers
    BY <1>1, UsedNames
  <2>2. QED BY <1>1, <1>2, <1>3, <2>1 DEF Outstanding
<1>13. Positions'
  <2>1. ASSUME NEW d \in Callers, pc[d] = "submit",
               NEW j \in call[d] .. MaxCalls
        PROVE  told'[d][j] = "nothing"
    <3>1. told[d][j] = "nothing"
      BY <1>1, <2>1 DEF Positions
    <3>2. j \in 1 .. MaxCalls
      <4>1. call[d] \in 1 .. MaxCalls + 1
        BY <1>1 DEF TypeOK
      <4>2. QED BY <4>1, MaxCallsIsNatural
    <3>3. QED BY <1>2, <1>4, <3>1, <3>2 DEF Ends
  <2>2. QED BY <1>1, <1>2, <1>3, <2>1 DEF Positions
<1>14. Counting'
  <2>1. Counted(c)'
    <3>1. NoneBeyond(c)'
      BY <1>3, <1>4, <1>6 DEF Counted, NoneBeyond, Ends
    <3>2. wg'[c] = wg[c] - 1
      BY <1>1, <1>2 DEF TypeOK
    <3>3. QED BY <1>10, <3>1, <3>2 DEF Counted
  <2>2. ASSUME NEW d \in Callers \ {c}
        PROVE  /\ Silent(d)' <=> Silent(d)
               /\ NoneBeyond(d)' <=> NoneBeyond(d)
               /\ Counted(d)' <=> Counted(d)
    <3>1. wg'[d] = wg[d]
      BY <1>1, <1>2 DEF TypeOK
    <3>2. QED
      BY <1>2, <1>3, <1>4, <3>1 DEF Silent, NoneBeyond, Counted, Unread
  <2>3. QED BY <1>1, <1>2, <1>3, <1>6, <2>1, <2>2 DEF Counting
<1>15. Orderly'
  <2> SUFFICES ASSUME Undisturbed'
               PROVE  (ToldIsIncluded /\ FromTheFront /\ NoneLost /\ Ordered)'
    BY DEF Orderly
  <2>1. ToldIsIncluded /\ FromTheFront /\ NoneLost /\ Ordered
    BY <1>1, <1>2 DEF Orderly, Undisturbed
  <2>2. told[c][k] = "in block"
    BY <1>2, <2>1 DEF NoneLost, Ends
  <2>3. ToldIsIncluded'
    <3> SUFFICES ASSUME NEW n \in Nonces, Used(n),
                        \/ StepOf(n) < step[CallerOf(n)]
                        \/ told'[CallerOf(n)][CallOf(n)] \in {"in block", "read"}
                 PROVE  n < account
      BY <1>2, <1>3 DEF ToldIsIncluded
    <3>1. CASE StepOf(n) < step[CallerOf(n)]
      BY <2>1, <3>1 DEF ToldIsIncluded
    <3>2. CASE StepOf(n) = step[CallerOf(n)]
      <4>1. CallerOf(n) \in Callers /\ CallOf(n) \in 1 .. At(CallerOf(n)).calls
        BY <1>1, <3>2, UsedNames DEF Outstanding
      <4>2. CallOf(n) \in 1 .. MaxCalls
        BY <1>1, <4>1, SubmissionAtHand, WithinMaxCalls
      <4>3. told[CallerOf(n)][CallOf(n)] \in {"in block", "read"}
               \/ StepOf(n) < step[CallerOf(n)]
        BY <1>4, <2>2, <4>1, <4>2
      <4>4. QED BY <2>1, <4>3 DEF ToldIsIncluded
    <3>3. QED BY <1>1, <3>1, <3>2, EarlierStep
  <2>4. FromTheFront'
    BY <1>2, <1>3, <2>1 DEF FromTheFront
  <2>5. NoneLost'
    BY <1>4, <2>1 DEF NoneLost
  <2>6. Ordered'
    BY <1>3, <2>1 DEF Ordered
  <2>7. QED BY <2>3, <2>4, <2>5, <2>6
<1>16. QED BY <1>11, <1>12, <1>13, <1>14, <1>15 DEF IInv

LEMMA StutterKeeps == IInv /\ UNCHANGED vars => IInv'
<1> SUFFICES ASSUME IInv, UNCHANGED vars PROVE IInv' OBVIOUS
<1>1. TypeOK /\ Outstanding /\ Positions /\ Counting /\ Orderly
  BY DEF IInv
<1>2. /\ UNCHANGED <<program, step, pc, call, nonce, wg, told>>
      /\ UNCHANGED <<account, txs, forks, lost, raced>>
  BY DEF vars
<1>3. TypeOK'
  BY <1>1, <1>2 DEF TypeOK
<1>4. Outstanding' /\ Positions'
  BY <1>1, <1>2 DEF Outstanding, Positions, Used, Free, CallerOf, StepOf,
                    CallOf, At
<1>5. Counting'
  BY <1>1, <1>2 DEF Counting, Silent, Counted, NoneBeyond, Unread, Used, Free,
                    CallerOf, StepOf, At
<1>6. Orderly'
  BY <1>1, <1>2 DEF Orderly, Undisturbed, ToldIsIncluded, FromTheFront, NoneLost,
                    Ordered, Used, Free, CallerOf, StepOf, CallOf
<1>7. QED BY <1>3, <1>4, <1>5, <1>6 DEF IInv

LEMMA IInvStep == IInv /\ [Next]_vars => IInv'
<1> SUFFICES ASSUME IInv, [Next]_vars PROVE IInv' OBVIOUS
<1>1. CASE Include
  BY <1>1, IncludeKeeps
<1>2. CASE Retract
  BY <1>2, RetractKeeps
<1>3. ASSUME NEW n \in Nonces, Drop(n) PROVE IInv'
  BY <1>3, DropKeeps
<1>4. ASSUME NEW c \in Callers, CallerStep(c) PROVE IInv'
  <2>1. CASE QueryAccount(c)
    BY <2>1, QueryAccountKeeps
  <2>2. CASE QueryError(c) \/ Refused(c)
    <3>1. /\ pc[c] \in {"query", "submit"} /\ Goto(c, "failed")
          /\ UNCHANGED <<program, step, call, nonce, wg, told, account, txs,
                         forks, lost, raced>>
      BY <2>2 DEF QueryError, Refused, chainVars
    <3>2. QED BY <3>1, FailureKeeps
  <2>3. CASE Submit(c)
    BY <2>3, SubmitKeeps
  <2>4. CASE Usurp(c)
    BY <2>4, UsurpKeeps
  <2>5. CASE SubmitError(c)
    BY <2>5, SubmitErrorKeeps
  <2>6. CASE Status(c)
    BY <2>6, StatusKeeps
  <2>7. CASE Wait(c)
    BY <2>7, WaitKeeps
  <2>8. QED
    BY <1>4, <2>1, <2>2, <2>3, <2>4, <2>5, <2>6, <2>7 DEF CallerStep
<1>5. ASSUME NEW c \in Callers, NEW k \in 1 .. MaxCalls, Watcher(c, k)
      PROVE  IInv'
  BY <1>5, WatcherKeeps
<1>6. CASE UNCHANGED vars
  BY <1>6, StutterKeeps
<1>7. QED BY <1>1, <1>2, <1>3, <1>4, <1>5, <1>6 DEF Next

LEMMA Invariance == Spec => []IInv
BY InitIInv, IInvStep, PTL DEF Spec

-----------------------------------------------------------------------------
(* What a user relies on.                                                  *)

\* The WaitGroup of a batch is counted down once per watcher, however the
\* statuses of its extrinsics, the forks and the submissions interleave: its
\* counter never falls below zero, which would be a panic.
THEOREM TypeCorrect == Spec => []TypeOK
<1>1. IInv => TypeOK
  BY DEF IInv
<1>2. QED BY <1>1, Invariance, PTL

\* As long as nobody disturbs the account, SubmitTx and BatchSubmit find the
\* nonce they have chosen free, and a caller's calls are in the order of its
\* program.
THEOREM InOrder == Spec => []InOrderIfUndisturbed
<1>1. IInv => InOrderIfUndisturbed
  <2> SUFFICES ASSUME IInv, Undisturbed PROVE InOrderIfUndisturbed!2
    BY DEF InOrderIfUndisturbed
  <2>1. TypeOK /\ FromTheFront /\ Ordered
    BY DEF IInv, Orderly
  <2>2. ASSUME NEW c \in Callers, pc[c] = "submit", nonce[c] \in Nonces
        PROVE  Free(nonce[c])
    <3>1. ~(nonce[c] < nonce[c])
      BY <2>2, BoundsAreNatural DEF Nonces
    <3>2. ~Used(nonce[c])
      BY <2>1, <2>2, <3>1 DEF FromTheFront
    <3>3. QED BY <3>2 DEF Used
  <2>3. ASSUME NEW n \in Nonces, NEW m \in Nonces,
               n < m, ~Free(n), ~Free(m), txs[n][1] = txs[m][1]
        PROVE  Before(txs[n], txs[m])
    BY <2>1, <2>3 DEF Ordered, Used, CallerOf, StepOf, CallOf, Before
  <2>4. QED BY <2>2, <2>3
<1>2. QED BY <1>1, Invariance, PTL
==============================================================================
