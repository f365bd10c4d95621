--------------------------- MODULE EthClientProofs ---------------------------
(***************************************************************************)
(* Proofs about EthClient, for any helpers, any number of callers and any  *)
(* faults.                                                                 *)
(*                                                                         *)
(* Locking says who holds the lock; Filled, which nonces are used while    *)
(* nobody races: those below Opts.Nonce, and Opts.Nonce itself when its    *)
(* transaction has been sent.                                              *)
(***************************************************************************)
EXTENDS EthClient, TLAPS

Locking ==
  \A c \in Callers :
    pc[c] \in {"update", "query", "submit"} /\ Kind(c) \notin Unlocked
      => nonceLock = c

\* An unlocked step has no query and does not wait for the lock.
UnlockedPCs ==
  \A c \in Callers : Kind(c) \in Unlocked => pc[c] \notin {"update", "query"}

OneSigns ==
  ~raced => \A c, d \in Callers : Signing(c) /\ Signing(d) => c = d

Quiet == \A c \in Callers : ~Signing(c) /\ pc[c] # "failed"

Filled ==
  ~raced =>
    /\ \A n \in Sent : \A k \in 0 .. n : k \in Sent
    /\ \A n \in 0 .. mined - 1 : n \in Sent
    /\ \A c \in Callers : Signing(c) => Sent = 0 .. nonce - 1
    /\ Quiet /\ Sent # {} => Sent = 0 .. nonce

\* What was sent for a caller belongs to the steps it has behind it.
StepsSent ==
  /\ \A c \in Callers :
       step[c] > 1 \/ pc[c] = "wait" => Sent # {}
  /\ \A n \in Sent :
       LET c == slots[n][1]
       IN  /\ slots[n][2] <= step[c]
           /\ pc[c] \in {"start", "update", "query", "submit"}
                => slots[n][2] < step[c]

IInv == /\ TypeOK /\ Locking /\ UnlockedPCs /\ OneSigns /\ Filled /\ StepsSent
        /\ InOrderUnlessRaced

-----------------------------------------------------------------------------
\* A caller is at one of the transactions of its helper.
LEMMA KindInRange ==
  ASSUME TypeOK, NEW c \in Callers
  PROVE  /\ Kind(c) \in Kinds
         /\ step[c] \in Nat \ {0}
         /\ Len(program[c]) \in Nat
         /\ step[c] <= Len(program[c])
BY ConstantsAssumption DEF TypeOK, Kind

\* A step that neither writes the nonce nor sends leaves the lane alone.
LEMMA LaneStays ==
  ASSUME IInv, UNCHANGED <<nonce, slots, mined, raced>>,
         \A d \in Callers : Signing(d)' => Signing(d),
         \A d \in Callers : pc'[d] = "submit" => Signing(d),
         Quiet' => Quiet
  PROVE  OneSigns' /\ Filled' /\ InOrderUnlessRaced'
<1>1. Sent' = Sent /\ \A n \in Nonces : Free(n)' = Free(n)
  BY DEF Sent, Free
<1>2. OneSigns'
  BY DEF IInv, OneSigns
<1>3. Filled'
  BY <1>1 DEF IInv, Filled
<1>4. ~raced => \A d \in Callers : pc'[d] = "submit" => nonce \notin Sent
  <2> SUFFICES ASSUME ~raced, NEW d \in Callers, pc'[d] = "submit"
               PROVE  nonce \notin Sent
    OBVIOUS
  <2>1. Sent = 0 .. nonce - 1
    BY DEF IInv, Filled
  <2>2. QED BY <2>1 DEF IInv, TypeOK, Nonces
<1>5. InOrderUnlessRaced'
  BY <1>1, <1>4, ConstantsAssumption
    DEF IInv, InOrderUnlessRaced, TypeOK, Sent, Free, Nonces
<1>6. QED BY <1>2, <1>3, <1>5

\* A caller that goes on within a transaction, or to the next one.
LEMMA StepsStay ==
  ASSUME IInv, UNCHANGED <<program, slots>>, NEW c \in Callers,
         pc' \in [Callers -> PCs],
         \A d \in Callers \ {c} : pc'[d] = pc[d] /\ step'[d] = step[d],
         \/ /\ step'[c] = step[c]
            /\ pc'[c] = "wait" => pc[c] = "wait"
            /\ pc'[c] \in {"start", "update", "query", "submit"}
                 => pc[c] \in {"start", "update", "query", "submit"}
         \/ step'[c] = step[c] + 1 /\ pc[c] = "wait" /\ pc'[c] = "start"
  PROVE  StepsSent'
<1>1. Sent' = Sent
  BY DEF Sent, Free
<1>2. \A n \in Sent : slots[n][1] \in Callers /\ slots[n][2] \in Nat
  BY DEF IInv, TypeOK, Sent, Free, NoTx
<1>3. \A d \in Callers : step[d] \in Nat \ {0}
  BY KindInRange DEF IInv
<1>4. \A d \in Callers : step'[d] > 1 \/ pc'[d] = "wait" => Sent # {}
  BY <1>3 DEF IInv, StepsSent
<1>5. ASSUME NEW n \in Sent
      PROVE  /\ slots[n][2] <= step'[slots[n][1]]
             /\ pc'[slots[n][1]] \in {"start", "update", "query", "submit"}
                  => slots[n][2] < step'[slots[n][1]]
  <2> DEFINE d == slots[n][1]
             s == slots[n][2]
  <2>1. d \in Callers /\ s \in Nat /\ step[d] \in Nat
    BY <1>2, <1>3, <1>5
  <2>2. /\ s <= step[d]
        /\ pc[d] \in {"start", "update", "query", "submit"} => s < step[d]
    BY <1>5 DEF IInv, StepsSent
  <2>3. QED BY <2>1, <2>2
<1>6. QED BY <1>1, <1>4, <1>5 DEF StepsSent

-----------------------------------------------------------------------------
(* The invariant, step by step.                                            *)

LEMMA InitIInv == Init => IInv
<1> SUFFICES ASSUME Init PROVE IInv OBVIOUS
<1>1. \A p \in Programs : Len(p) \in Nat /\ Len(p) >= 1
  BY ConstantsAssumption
<1>2. TypeOK
  <2>1. ASSUME NEW c \in Callers PROVE step[c] \in 1 .. Len(program[c])
    <3>1. step[c] = 1 /\ program[c] \in Programs
      BY DEF Init
    <3> DEFINE l == Len(program[c])
    <3>2. l \in Nat /\ l >= 1
      BY <1>1, <3>1
    <3> HIDE DEF l
    <3>3. 1 \in 1 .. l
      BY <3>2
    <3>4. QED BY <3>1, <3>3 DEF l
  <2>2. step \in [Callers -> Nat] /\ pc \in [Callers -> PCs]
    BY DEF Init, PCs
  <2>3. retry \in [Callers -> 0 .. WaitRetries]
    BY ConstantsAssumption DEF Init
  <2>4. nonce \in Nonces /\ mined \in Nonces /\ reverted \subseteq Nonces
    BY ConstantsAssumption DEF Init, Nonces
  <2>5. slots \in [Nonces -> {NoTx} \cup (Callers \X (Nat \ {0}))]
    BY DEF Init
  <2>6. QED BY <2>1, <2>2, <2>3, <2>4, <2>5 DEF Init, TypeOK
<1>3. Sent = {}
  BY DEF Init, Sent, Free
<1>4. Locking /\ UnlockedPCs /\ OneSigns /\ Filled
  BY <1>3 DEF Init, Locking, UnlockedPCs, OneSigns, Filled, Signing
<1>5. StepsSent /\ InOrderUnlessRaced
  BY <1>3 DEF Init, StepsSent, InOrderUnlessRaced
<1>6. QED BY <1>2, <1>4, <1>5 DEF IInv

LEMMA MineKeeps == IInv /\ Mine => IInv'
<1> SUFFICES ASSUME IInv, Mine PROVE IInv' OBVIOUS
<1>1. Sent' = Sent /\ \A n \in Nonces : Free(n)' = Free(n)
  BY DEF Mine, Sent, Free
<1>2. TypeOK'
  <2>1. mined' \in Nonces /\ reverted' \subseteq Nonces
    BY ConstantsAssumption DEF IInv, TypeOK, Mine, Nonces
  <2>2. QED BY <2>1 DEF IInv, TypeOK, Mine, clientVars
<1>3. Locking' /\ UnlockedPCs' /\ OneSigns'
  BY DEF IInv, Locking, UnlockedPCs, OneSigns, Mine, Kind, Signing, clientVars
<1>4. Filled'
  <2>1. mined \in Sent
    BY DEF IInv, TypeOK, Mine, Sent
  <2>2. \A n \in 0 .. mined' - 1 : n \in 0 .. mined - 1 \/ n = mined
    BY DEF IInv, TypeOK, Mine, Nonces
  <2>3. QED
    BY <1>1, <2>1, <2>2
      DEF IInv, Filled, Mine, Quiet, Signing, clientVars
<1>5. StepsSent'
  BY <1>1 DEF IInv, StepsSent, Mine, clientVars
<1>6. InOrderUnlessRaced'
  BY <1>1, ConstantsAssumption
    DEF IInv, TypeOK, InOrderUnlessRaced, Mine, Sent, Nonces, Free, clientVars
<1>7. QED BY <1>2, <1>3, <1>4, <1>5, <1>6 DEF IInv

LEMMA LockKeeps ==
  ASSUME IInv, NEW c \in Callers, Lock(c)
  PROVE  IInv'
<1> USE DEF Lock, Goto, chainVars
<1>1. TypeOK'
  BY DEF IInv, TypeOK, PCs
<1>2. Locking'
  <2>1. \A d \in Callers : nonceLock # d
    BY ConstantsAssumption DEF LockFree
  <2>2. QED BY <2>1 DEF IInv, TypeOK, Locking, Kind
<1>3. UnlockedPCs'
  BY DEF IInv, TypeOK, UnlockedPCs, Kind
<1>4. OneSigns' /\ Filled' /\ InOrderUnlessRaced'
  <2>1. \A d \in Callers : Signing(d)' <=> Signing(d)
    BY DEF IInv, TypeOK, Signing
  <2>2. /\ Quiet' => Quiet
        /\ \A d \in Callers : pc'[d] = "submit" => Signing(d)
    BY <2>1 DEF IInv, TypeOK, Signing, Quiet
  <2>3. QED BY <2>1, <2>2, LaneStays
<1>5. StepsSent'
  BY <1>1, StepsStay DEF IInv, TypeOK
<1>6. QED BY <1>1, <1>2, <1>3, <1>4, <1>5 DEF IInv

LEMMA UpdateErrorKeeps ==
  ASSUME IInv, NEW c \in Callers, UpdateError(c)
  PROVE  IInv'
<1> USE DEF UpdateError, Goto, chainVars
<1>1. TypeOK'
  BY DEF IInv, TypeOK, PCs
<1>2. Locking'
  <2>1. Kind(c) \notin Unlocked /\ nonceLock = c
    BY DEF IInv, Locking, UnlockedPCs
  <2>2. QED BY <2>1 DEF IInv, TypeOK, Locking, Kind
<1>3. UnlockedPCs'
  BY DEF IInv, TypeOK, UnlockedPCs, Kind
<1>4. OneSigns' /\ Filled' /\ InOrderUnlessRaced'
  <2>1. \A d \in Callers : Signing(d)' => Signing(d)
    BY DEF IInv, TypeOK, Signing
  <2>2. /\ ~Quiet'
        /\ \A d \in Callers : pc'[d] = "submit" => Signing(d)
    BY DEF IInv, TypeOK, Signing, Quiet
  <2>3. QED BY <2>1, <2>2, LaneStays
<1>5. StepsSent'
  BY <1>1, StepsStay DEF IInv, TypeOK
<1>6. QED BY <1>1, <1>2, <1>3, <1>4, <1>5 DEF IInv

LEMMA QueryKeeps ==
  ASSUME IInv, NEW c \in Callers, Query(c)
  PROVE  IInv'
<1> USE DEF Query, Goto, chainVars, clientVars
<1>1. TypeOK'
  BY DEF IInv, TypeOK, PCs
<1>2. Locking' /\ UnlockedPCs'
  BY DEF IInv, TypeOK, Locking, UnlockedPCs, Kind
<1>3. OneSigns' /\ Filled' /\ InOrderUnlessRaced'
  <2>1. \A d \in Callers : Signing(d)' => Signing(d)
    BY DEF IInv, TypeOK, Signing
  <2>2. /\ ~Quiet'
        /\ \A d \in Callers : pc'[d] = "submit" => Signing(d)
    BY DEF IInv, TypeOK, Signing, Quiet
  <2>3. QED BY <2>1, <2>2, LaneStays
<1>4. StepsSent'
  BY <1>1, StepsStay DEF IInv, TypeOK
<1>5. QED BY <1>1, <1>2, <1>3, <1>4 DEF IInv

\* Waiting for a receipt, and going on after it.
LEMMA WaitKeeps ==
  ASSUME IInv, NEW c \in Callers, WaitForTx(c)
  PROVE  IInv'
<1> USE DEF WaitForTx, Receipt, NotFound, ReceiptError, WaitedLongEnough,
      Advance, Fail, Goto, chainVars, clientVars
<1>1. /\ pc[c] = "wait"
      /\ UNCHANGED <<program, nonce, slots, mined, reverted, raced>>
  OBVIOUS
<1>2. \/ step' = step /\ pc' \in {pc, [pc EXCEPT ![c] = "done"],
                                  [pc EXCEPT ![c] = "failed"]}
      \/ /\ step[c] < Len(program[c])
         /\ step' = [step EXCEPT ![c] = @ + 1]
         /\ pc' = [pc EXCEPT ![c] = "start"]
  <2>1. step[c] # Len(program[c]) => step[c] < Len(program[c])
    BY KindInRange DEF IInv
  <2>2. QED BY <2>1
<1>3. nonceLock' \in {nonceLock, Released(c)}
  OBVIOUS
<1>4. retry' \in [Callers -> 0 .. WaitRetries]
  <2>1. retry' = retry \/ (RetriesLeft(c) /\ retry' = [retry EXCEPT ![c] = @ - 1])
    OBVIOUS
  <2>2. RetriesLeft(c) => retry[c] - 1 \in 0 .. WaitRetries
    BY ConstantsAssumption DEF IInv, TypeOK, RetriesLeft
  <2>3. QED BY <2>1, <2>2 DEF IInv, TypeOK
<1>5. TypeOK'
  <2>1. \A d \in Callers : step'[d] \in 1 .. Len(program[d])
    BY <1>2, KindInRange DEF IInv, TypeOK
  <2>2. pc' \in [Callers -> PCs]
    BY <1>2 DEF IInv, TypeOK, PCs
  <2>3. nonceLock' \in Callers \cup {NoCaller}
    BY <1>3 DEF IInv, TypeOK, Released
  <2>4. QED BY <1>1, <1>4, <2>1, <2>2, <2>3 DEF IInv, TypeOK
<1>6. \A d \in Callers :
        /\ d # c => pc'[d] = pc[d] /\ step'[d] = step[d]
        /\ pc'[c] \in {"wait", "done", "failed", "start"}
  BY <1>1, <1>2 DEF IInv, TypeOK
<1>7. Locking' /\ UnlockedPCs'
  <2>1. \A d \in Callers \ {c} : nonceLock = d => nonceLock' = d
    BY <1>3 DEF Released
  <2>2. \A d \in Callers \ {c} : Kind(d)' = Kind(d)
    BY <1>1, <1>6 DEF Kind
  <2>3. QED
    BY <1>6, <2>1, <2>2 DEF IInv, Locking, UnlockedPCs
<1>8. OneSigns' /\ Filled' /\ InOrderUnlessRaced'
  <2>1. \A d \in Callers : Signing(d)' => Signing(d)
    BY <1>6 DEF Signing
  <2>2. /\ Quiet' => Quiet
        /\ \A d \in Callers : pc'[d] = "submit" => Signing(d)
    BY <1>1, <1>6 DEF Signing, Quiet
  <2>3. QED BY <1>1, <2>1, <2>2, LaneStays
<1>9. StepsSent'
  <2>1. \/ /\ step'[c] = step[c]
           /\ pc'[c] = "wait" => pc[c] = "wait"
           /\ pc'[c] \notin {"start", "update", "query", "submit"}
        \/ step'[c] = step[c] + 1 /\ pc[c] = "wait" /\ pc'[c] = "start"
    BY <1>1, <1>2 DEF IInv, TypeOK
  <2>2. pc' \in [Callers -> PCs]
    BY <1>5 DEF TypeOK
  <2>3. QED BY <1>1, <1>6, <2>1, <2>2, StepsStay
<1>10. QED BY <1>5, <1>7, <1>8, <1>9 DEF IInv

-----------------------------------------------------------------------------
(* Writing the nonce.                                                      *)

\* What makes the write of caller c a clean one.
CleanWrite(c) ==
  /\ raced' = (raced \/ Races(c))
  /\ UNCHANGED <<slots, mined>>
  /\ \A d \in Callers \ {c} : Signing(d)' <=> Signing(d)
  /\ \A d \in Callers : pc'[d] = "submit" => d = c \/ pc[d] = "submit"
  /\ ~Signing(c) /\ Signing(c)'
  /\ Kind(c) \in Unlocked \/ nonceLock = c

\* The writer is the only one that signs, unless it races.
LEMMA WriterSignsAlone ==
  ASSUME IInv, NEW c \in Callers, CleanWrite(c), ~raced'
  PROVE  \A d \in Callers : ~Signing(d)
<1> SUFFICES ASSUME NEW d \in Callers, Signing(d) PROVE FALSE
  OBVIOUS
<1>1. d # c
  BY DEF CleanWrite
<1>2. {Kind(c), Kind(d)} \cap Unlocked = {}
  BY <1>1 DEF CleanWrite, Races
<1>3. nonceLock = c
  BY <1>2 DEF CleanWrite
<1>4. nonceLock = d
  BY <1>2 DEF IInv, Locking, Signing
<1>5. QED BY <1>1, <1>3, <1>4

\* Whoever writes the first nonce that is not used keeps the lane in order.
LEMMA WriteKeepsLane ==
  ASSUME IInv, NEW c \in Callers, CleanWrite(c), nonce' \in Nonces,
         ~raced' => Sent = 0 .. nonce' - 1
  PROVE  OneSigns' /\ Filled' /\ InOrderUnlessRaced'
<1>1. Sent' = Sent /\ \A n \in Nonces : Free(n)' = Free(n)
  BY DEF CleanWrite, Sent, Free
<1>2. ~raced' => ~raced
  BY DEF CleanWrite
<1>3. OneSigns'
  BY WriterSignsAlone DEF OneSigns, CleanWrite
<1>4. Filled'
  <2>1. ~Quiet'
    BY DEF CleanWrite, Quiet
  <2>2. QED BY <1>1, <1>2, <2>1 DEF IInv, Filled, CleanWrite
<1>5. InOrderUnlessRaced'
  <2> SUFFICES ASSUME ~raced' PROVE InOrderUnlessRaced'
    BY DEF InOrderUnlessRaced
  <2>1. PICK n \in Nonces : n = nonce'
    OBVIOUS
  <2>2. n \notin Sent
    <3>1. Sent = 0 .. n - 1
      BY <2>1
    <3>2. n \in Int
      BY ConstantsAssumption DEF Nonces
    <3>3. QED BY <3>1, <3>2
  <2>3. Free(nonce)'
    <3>1. slots[n] = NoTx
      BY <2>2 DEF Sent, Free
    <3>2. QED BY <2>1, <3>1 DEF Free, CleanWrite
  <2>4. \A j \in Sent : \A k \in 0 .. j : Free(k)' = Free(k)
    BY DEF CleanWrite, Free
  <2>5. QED
    BY <1>1, <1>2, <2>3, <2>4 DEF IInv, InOrderUnlessRaced, CleanWrite
<1>6. QED BY <1>3, <1>4, <1>5

\* The pending nonce is the first that is not used.
LEMMA PendingIsFirst ==
  ASSUME IInv, ~raced, NEW n \in Nonces, IsPending(n)
  PROVE  Sent = 0 .. n - 1
<1>1. n \in Nat /\ mined \in Nat /\ n <= MaxNonce /\ MaxNonce \in Nat
  BY ConstantsAssumption DEF IInv, TypeOK, Nonces
<1>2. ASSUME NEW k \in 0 .. n - 1 PROVE k \in Sent
  <2>1. CASE k < mined
    BY <1>1, <2>1 DEF IInv, Filled
  <2>2. CASE k >= mined
    BY <1>1, <2>2 DEF IsPending, Sent, Nonces
  <2>3. QED BY <1>1, <2>1, <2>2
<1>3. ASSUME NEW k \in Sent PROVE k \in 0 .. n - 1
  <2>1. k \in Nat /\ (k >= n => n \in Sent)
    BY <1>1 DEF IInv, Filled, Sent, Nonces
  <2>2. n \notin Sent
    BY DEF IsPending, Sent
  <2>3. QED BY <1>1, <2>1, <2>2
<1>4. QED BY <1>2, <1>3

LEMMA UpdateKeeps ==
  ASSUME IInv, NEW c \in Callers, Update(c)
  PROVE  IInv'
<1> USE DEF Update, Goto, chainVars
<1>1. Kind(c) \notin Unlocked /\ nonceLock = c
  BY DEF IInv, Locking, UnlockedPCs
<1>2. PICK n \in Nonces : IsPending(n) /\ nonce' = n
  OBVIOUS
<1>3. pc' = [pc EXCEPT ![c] = "query"] \/ pc' = [pc EXCEPT ![c] = "submit"]
  OBVIOUS
<1>4. TypeOK'
  BY <1>2, <1>3 DEF IInv, TypeOK, PCs
<1>5. Locking' /\ UnlockedPCs'
  BY <1>1, <1>3 DEF IInv, TypeOK, Locking, UnlockedPCs, Kind
<1>6. OneSigns' /\ Filled' /\ InOrderUnlessRaced'
  <2>1. CleanWrite(c)
    BY <1>1, <1>3 DEF IInv, TypeOK, CleanWrite, Signing
  <2>2. ~raced' => Sent = 0 .. nonce' - 1
    BY <1>2, PendingIsFirst
  <2>3. QED BY <1>2, <2>1, <2>2, WriteKeepsLane
<1>7. StepsSent'
  BY <1>3, <1>4, StepsStay DEF IInv, TypeOK
<1>8. QED BY <1>4, <1>5, <1>6, <1>7 DEF IInv

\* FundErc20Handler: the nonce is that of the last transaction, unless one of
\* the other callers signs or has failed.
LEMMA CountUpKeeps ==
  ASSUME IInv, NEW c \in Callers, CountUp(c)
  PROVE  IInv'
<1> USE DEF CountUp, Goto, chainVars
<1>1. nonce' \in Nonces /\ nonce \in Nat /\ nonce' = nonce + 1
  BY ConstantsAssumption DEF IInv, TypeOK, Nonces
<1>2. TypeOK'
  BY <1>1 DEF IInv, TypeOK, PCs
<1>3. Locking' /\ UnlockedPCs'
  BY DEF IInv, TypeOK, Locking, UnlockedPCs, Kind, Unlocked
<1>4. OneSigns' /\ Filled' /\ InOrderUnlessRaced'
  <2>1. CleanWrite(c)
    BY DEF IInv, TypeOK, CleanWrite, Signing, Unlocked
  <2>2. ASSUME ~raced' PROVE Sent = 0 .. nonce' - 1
    <3>1. \A d \in Callers : ~Signing(d)
      BY <2>1, <2>2, WriterSignsAlone
    <3>2. \A d \in Callers \ {c} : pc[d] # "failed"
      BY <2>2 DEF Races
    <3>3. Quiet
      BY <3>1, <3>2 DEF Quiet
    <3>4. step[c] # 1
      BY CountsUpLater DEF IInv, TypeOK, Kind
    <3>5. step[c] > 1
      BY <3>4, KindInRange DEF IInv
    <3>6. Sent = 0 .. nonce
      BY <2>2, <3>3, <3>5 DEF IInv, Filled, StepsSent
    <3>7. QED BY <1>1, <3>6
  <2>3. QED BY <1>1, <2>1, <2>2, WriteKeepsLane
<1>5. StepsSent'
  BY <1>2, StepsStay DEF IInv, TypeOK
<1>6. QED BY <1>2, <1>3, <1>4, <1>5 DEF IInv

LEMMA UpdateNonceKeeps ==
  ASSUME IInv, NEW c \in Callers, UpdateNonce(c)
  PROVE  IInv'
<1> USE DEF UpdateNonce, Goto, chainVars
<1>1. TypeOK'
  BY DEF IInv, TypeOK, PCs
<1>2. Locking' /\ UnlockedPCs'
  BY DEF IInv, TypeOK, Locking, UnlockedPCs, Kind, Unlocked
<1>3. OneSigns' /\ Filled' /\ InOrderUnlessRaced'
  <2>1. CASE nonce' = nonce /\ pc' = [pc EXCEPT ![c] = "failed"]
    <3>1. ~Quiet'
      BY <2>1 DEF IInv, TypeOK, Quiet
    <3>2. \A d \in Callers : (Signing(d)' <=> Signing(d))
                             /\ (pc'[d] = "submit" => Signing(d))
      BY <2>1 DEF IInv, TypeOK, Signing
    <3>3. CASE raced' = raced
      BY <2>1, <3>1, <3>2, <3>3, LaneStays
    <3>4. CASE raced'
      BY <3>4 DEF OneSigns, Filled, InOrderUnlessRaced
    <3>5. QED BY <3>3, <3>4 DEF IInv, TypeOK
  <2>2. CASE pc' = [pc EXCEPT ![c] = "submit"]
    <3>1. PICK n \in Nonces : IsPending(n) /\ nonce' = n
      BY <2>2 DEF IInv, TypeOK
    <3>2. CleanWrite(c)
      BY <2>2 DEF IInv, TypeOK, CleanWrite, Signing, Unlocked
    <3>3. ~raced' => Sent = 0 .. nonce' - 1
      BY <3>1, PendingIsFirst
    <3>4. QED BY <3>1, <3>2, <3>3, WriteKeepsLane
  <2>3. QED BY <2>1, <2>2
<1>4. StepsSent'
  BY <1>1, StepsStay DEF IInv, TypeOK
<1>5. QED BY <1>1, <1>2, <1>3, <1>4 DEF IInv

-----------------------------------------------------------------------------
(* Sending.                                                                *)

\* A transaction on a free nonce is behind all others, if nobody has raced.
LEMMA PlaceKeepsLane ==
  ASSUME IInv, NEW c \in Callers, pc[c] = "submit", Free(nonce), Place(c),
         pc' = [pc EXCEPT ![c] = "wait"] \/ pc' = [pc EXCEPT ![c] = "failed"],
         UNCHANGED <<program, step, nonce, mined, raced>>
  PROVE  OneSigns' /\ Filled' /\ StepsSent' /\ InOrderUnlessRaced'
<1>1. /\ nonce \in Nonces /\ nonce \in Nat /\ nonce \notin Sent
      /\ slots'[nonce] = <<c, step[c]>>
      /\ \A n \in Nonces \ {nonce} : slots'[n] = slots[n]
  BY DEF IInv, TypeOK, Place, Sent, Nonces
<1>2. Sent' = Sent \cup {nonce}
  <2>1. slots'[nonce] # NoTx
    <3>1. Len(<<c, step[c]>>) = 2 /\ Len(<<>>) = 0
      OBVIOUS
    <3>2. QED BY <1>1, <3>1 DEF NoTx
  <2>2. QED BY <1>1, <2>1 DEF Sent, Free
<1>3. \A d \in Callers : Signing(d)' <=> (Signing(d) /\ d # c)
  BY DEF IInv, TypeOK, Signing
<1>4. OneSigns'
  BY <1>3 DEF IInv, OneSigns
<1>5. \A n \in Sent : /\ slots[n][1] \in Callers /\ slots[n][2] \in Nat
                      /\ slots'[n] = slots[n]
  BY <1>1 DEF IInv, TypeOK, Sent, Free, NoTx
<1>6. \A d \in Callers : step[d] \in Nat \ {0}
  BY KindInRange DEF IInv
<1>7. ~raced => Sent = 0 .. nonce - 1
  BY DEF IInv, Filled, Signing
<1>8. Filled'
  <2> SUFFICES ASSUME ~raced PROVE Filled'
    BY DEF Filled
  <2>1. Sent' = 0 .. nonce
    BY <1>1, <1>2, <1>7
  <2>2. \A d \in Callers : ~Signing(d)'
    BY <1>3 DEF IInv, OneSigns, Signing
  <2>3. \A n \in 0 .. mined - 1 : n \in Sent'
    BY <1>2 DEF IInv, Filled
  <2>4. \A n \in Sent' : \A k \in 0 .. n : k \in Sent'
    BY <1>1, <2>1
  <2>5. QED BY <2>1, <2>2, <2>3, <2>4 DEF Filled
<1>9. StepsSent'
  <2>1. \A n \in Sent' :
          LET d == slots'[n][1]
          IN  /\ slots'[n][2] <= step'[d]
              /\ pc'[d] \in {"start", "update", "query", "submit"}
                   => slots'[n][2] < step'[d]
    <3> TAKE n \in Sent'
    <3>1. CASE n = nonce
      BY <1>1, <1>6, <3>1 DEF IInv, TypeOK
    <3>2. CASE n # nonce
      <4> DEFINE d == slots[n][1]
      <4>1. n \in Sent /\ d \in Callers /\ slots'[n] = slots[n]
        BY <1>2, <1>5, <3>2
      <4>2. /\ slots[n][2] <= step[d]
            /\ pc[d] \in {"start", "update", "query", "submit"}
                 => slots[n][2] < step[d]
        BY <4>1 DEF IInv, StepsSent
      <4>3. d = c \/ pc'[d] = pc[d]
        BY <4>1 DEF IInv, TypeOK
      <4>4. pc'[c] \in {"wait", "failed"}
        BY DEF IInv, TypeOK
      <4>5. QED BY <4>1, <4>2, <4>3, <4>4
    <3>3. QED BY <3>1, <3>2
  <2>2. QED BY <1>2, <2>1 DEF StepsSent
<1>10. InOrderUnlessRaced'
  <2> SUFFICES ASSUME ~raced PROVE InOrderUnlessRaced'
    BY DEF InOrderUnlessRaced
  <2>1. Sent' = 0 .. nonce
    BY <1>1, <1>2, <1>7
  <2>2. \A n \in Sent' : \A k \in 0 .. n : ~Free(k)'
    BY <1>1, <2>1 DEF Sent, Free
  <2>3. \A d \in Callers : pc'[d] # "submit"
    BY <1>3 DEF IInv, OneSigns, TypeOK, Signing
  <2>4. \A n, k \in Sent' : slots'[n][1] = slots'[k][1] /\ n < k
                              => slots'[n][2] < slots'[k][2]
    <3> TAKE n, k \in Sent'
    <3> HAVE slots'[n][1] = slots'[k][1] /\ n < k
    <3>1. n \in Sent
      BY <1>1, <1>7, <2>1
    <3>2. CASE k = nonce
      <4>1. slots[n][1] = c
        BY <1>1, <1>5, <3>1, <3>2
      <4>2. slots[n][2] < step[c]
        BY <3>1, <4>1 DEF IInv, StepsSent
      <4>3. QED BY <1>1, <1>5, <3>1, <3>2, <4>2
    <3>3. CASE k # nonce
      <4>1. k \in Sent
        BY <1>2, <3>3
      <4>2. QED BY <1>5, <3>1, <4>1 DEF IInv, InOrderUnlessRaced
    <3>4. QED BY <3>2, <3>3
  <2>5. QED BY <2>2, <2>3, <2>4 DEF InOrderUnlessRaced
<1>11. QED BY <1>4, <1>8, <1>9, <1>10

\* A transaction that is not taken leaves a failed caller.
LEMMA FailedKeepsLane ==
  ASSUME IInv, NEW c \in Callers, pc' = [pc EXCEPT ![c] = "failed"],
         UNCHANGED <<program, step, nonce, slots, mined, raced>>
  PROVE  OneSigns' /\ Filled' /\ StepsSent' /\ InOrderUnlessRaced'
<1>1. /\ ~Quiet'
      /\ \A d \in Callers : Signing(d)' => Signing(d)
      /\ \A d \in Callers : pc'[d] = "submit" => Signing(d)
  BY DEF IInv, TypeOK, Signing, Quiet
<1>2. pc' \in [Callers -> PCs]
  BY DEF IInv, TypeOK, PCs
<1>3. QED BY <1>1, <1>2, LaneStays, StepsStay DEF IInv, TypeOK

LEMMA SubmitKeeps ==
  ASSUME IInv, NEW c \in Callers, Submit(c) \/ SubmitError(c)
  PROVE  IInv'
<1>1. /\ pc[c] = "submit"
      /\ UNCHANGED <<program, step, nonce, mined, reverted, raced>>
      /\ nonceLock' \in {nonceLock, Released(c)}
  BY DEF Submit, SubmitError, AfterSubmission
<1>2. \/ /\ Free(nonce) /\ Place(c)
         /\ \/ pc' = [pc EXCEPT ![c] = "wait"]
               /\ retry' = [retry EXCEPT ![c] = WaitRetries]
            \/ pc' = [pc EXCEPT ![c] = "failed"] /\ UNCHANGED retry
      \/ /\ UNCHANGED <<slots, retry>>
         /\ pc' = [pc EXCEPT ![c] = "failed"]
  BY DEF Submit, SubmitError, Goto
<1>3. TypeOK'
  <2>1. slots' \in [Nonces -> {NoTx} \cup (Callers \X (Nat \ {0}))]
    <3>1. <<c, step[c]>> \in Callers \X (Nat \ {0})
      BY KindInRange DEF IInv
    <3>2. QED BY <1>2, <3>1 DEF IInv, TypeOK, Place
  <2>2. pc' \in [Callers -> PCs] /\ retry' \in [Callers -> 0 .. WaitRetries]
    <3>1. WaitRetries \in 0 .. WaitRetries /\ {"wait", "failed"} \subseteq PCs
      BY ConstantsAssumption DEF PCs
    <3>2. \/ retry' = retry
          \/ retry' = [retry EXCEPT ![c] = WaitRetries]
      BY <1>2
    <3>3. pc' = [pc EXCEPT ![c] = "wait"] \/ pc' = [pc EXCEPT ![c] = "failed"]
      BY <1>2
    <3>4. pc' \in [Callers -> PCs]
      BY <3>1, <3>3 DEF IInv, TypeOK
    <3>5. retry \in [Callers -> 0 .. WaitRetries]
      BY DEF IInv, TypeOK
    <3>6. retry' \in [Callers -> 0 .. WaitRetries]
      BY <3>1, <3>2, <3>5
    <3>7. QED BY <3>4, <3>6
  <2>3. nonceLock' \in Callers \cup {NoCaller}
    BY <1>1 DEF IInv, TypeOK, Released
  <2>4. QED BY <1>1, <2>1, <2>2, <2>3 DEF IInv, TypeOK
<1>4. \A d \in Callers :
        /\ d # c => pc'[d] = pc[d]
        /\ pc'[c] \in {"wait", "failed"}
  BY <1>2 DEF IInv, TypeOK
<1>5. Locking' /\ UnlockedPCs'
  <2>1. \A d \in Callers \ {c} : nonceLock = d => nonceLock' = d
    BY <1>1 DEF Released
  <2>2. \A d \in Callers : Kind(d)' = Kind(d)
    BY <1>1 DEF Kind
  <2>3. QED BY <1>4, <2>1, <2>2 DEF IInv, Locking, UnlockedPCs
<1>6. OneSigns' /\ Filled' /\ StepsSent' /\ InOrderUnlessRaced'
  BY <1>1, <1>2, PlaceKeepsLane, FailedKeepsLane
<1>7. QED BY <1>3, <1>5, <1>6 DEF IInv

-----------------------------------------------------------------------------
LEMMA NextKeeps == IInv /\ [Next]_vars => IInv'
<1> SUFFICES ASSUME IInv, [Next]_vars PROVE IInv' OBVIOUS
<1>1. CASE Mine
  BY <1>1, MineKeeps
<1>2. CASE \E c \in Callers : Step(c)
  BY <1>2, LockKeeps, UpdateKeeps, UpdateErrorKeeps, CountUpKeeps,
    UpdateNonceKeeps, QueryKeeps, SubmitKeeps, WaitKeeps DEF Step
<1>3. CASE UNCHANGED vars
  BY <1>3 DEF IInv, TypeOK, Locking, UnlockedPCs, OneSigns, Filled, StepsSent,
    InOrderUnlessRaced, vars, Kind, Signing, Quiet, Sent, Free
<1>4. QED BY <1>1, <1>2, <1>3 DEF Next

LEMMA Invariant == Spec => []IInv
BY InitIInv, NextKeeps, PTL DEF Spec

\* The state of the client keeps its type, the retries of WaitForTx and the
\* nonces included.
THEOREM TypeCorrect == Spec => []TypeOK
<1>1. IInv => TypeOK
  BY DEF IInv
<1>2. QED BY Invariant, <1>1, PTL

\* Without a race on Opts.Nonce no transaction is refused and none leaves a
\* gap, whatever fails; the transactions of a helper stay in order.
THEOREM InOrder == Spec => []InOrderUnlessRaced
<1>1. IInv => InOrderUnlessRaced
  BY DEF IInv
<1>2. QED BY Invariant, <1>1, PTL

-----------------------------------------------------------------------------
(* The lane of nonces.                                                     *)

\* A transaction the node takes is the next one of the account, or somebody has
\* raced.
LEMMA Placed ==
  ASSUME IInv, NEW c \in Callers, Submit(c) \/ SubmitError(c)
  PROVE  UNCHANGED <<slots, raced>> \/ Lane!Place(nonce)
<1>1. pc[c] = "submit" /\ UNCHANGED raced
  BY DEF Submit, SubmitError
<1>2. CASE Free(nonce) /\ Place(c)
  <2>1. nonce \in Nonces /\ slots'[nonce] = <<c, step[c]>>
    BY <1>2 DEF IInv, TypeOK, Place
  <2>2. slots'[nonce] \in Callers \X (Nat \ {0})
    BY <2>1, KindInRange DEF IInv
  <2>3. Lane!Front(nonce) \/ raced
    <3> SUFFICES ASSUME ~raced, NEW m \in Nonces, m < nonce
                 PROVE  ~Free(m)
      BY DEF Lane!Front, Lane!Empty, Free
    <3>1. Sent = 0 .. nonce - 1
      BY <1>1 DEF IInv, Filled, Signing
    <3>2. m \in 0 .. nonce - 1
      BY <2>1 DEF Nonces
    <3>3. QED BY <3>1, <3>2 DEF Sent
  <2>4. slots' = [slots EXCEPT ![nonce] = slots'[nonce]]
    BY <1>2, <2>1 DEF Place
  <2>5. QED
    BY <1>1, <1>2, <2>2, <2>3, <2>4 DEF Lane!Place, Lane!Empty, Free
<1>3. QED BY <1>1, <1>2 DEF Submit, SubmitError

LEMMA LaneMoves ==
  ASSUME IInv, [Next]_vars
  PROVE  [Lane!LaneNext]_<<slots, raced>>
<1>1. ASSUME NEW c \in Callers, Submit(c) \/ SubmitError(c)
      PROVE  Lane!LaneNext \/ UNCHANGED <<slots, raced>>
  BY <1>1, Placed DEF IInv, TypeOK, Lane!LaneNext
<1>2. ASSUME NEW c \in Callers, Update(c) \/ CountUp(c) \/ UpdateNonce(c)
      PROVE  Lane!LaneNext \/ UNCHANGED <<slots, raced>>
  <2>1. UNCHANGED slots /\ raced' = (raced \/ Races(c))
    BY <1>2 DEF Update, CountUp, UpdateNonce, chainVars
  <2>2. raced' = raced \/ raced' = TRUE
    BY <2>1 DEF IInv, TypeOK
  <2>3. QED BY <2>1, <2>2 DEF Lane!LaneNext, Lane!Disturb
<1>3. ASSUME NEW c \in Callers,
             Lock(c) \/ UpdateError(c) \/ Query(c) \/ WaitForTx(c)
      PROVE  UNCHANGED <<slots, raced>>
  BY <1>3 DEF Lock, UpdateError, Query, WaitForTx, Receipt, NotFound,
    ReceiptError, WaitedLongEnough, chainVars
<1>4. ASSUME Mine \/ UNCHANGED vars PROVE UNCHANGED <<slots, raced>>
  BY <1>4 DEF Mine, vars
<1>5. QED BY <1>1, <1>2, <1>3, <1>4 DEF Next, Step

\* The client implements the lane: a helper's transaction never takes the place
\* of another one, also when Opts.Nonce is written without the lock, and there
\* is no gap until that has happened while another signs.
THEOREM LaneImplemented == Spec => ImplementsLane
<1>1. Init => Lane!LaneInit BY DEF Init, Lane!LaneInit
<1>2. IInv /\ [Next]_vars => [Lane!LaneNext]_<<slots, raced>> BY LaneMoves
<1>3. QED BY <1>1, <1>2, Invariant, PTL DEF Spec, ImplementsLane, Lane!LaneSpec
==============================================================================
