---------------------------- MODULE DeliveryProofs ----------------------------
(***************************************************************************)
(* Proofs about Delivery, for any number of relayers, any reorganisations  *)
(* the confirmations cover, any threshold and any faults: the state keeps  *)
(* its type, and the relayers together implement Bridge.                   *)
(*                                                                         *)
(* Counted says how the source chain numbers its deposits, so that final   *)
(* deposits with the same nonce are the same deposit; OnlyFinal, that      *)
(* nothing but final deposits leaves the source chain.                     *)
(***************************************************************************)
EXTENDS Delivery, FiniteSetTheorems, TLAPS

\* The nonces grow along the chain, and strictly so at each deposit.
Counted ==
  /\ \A i \in 1 .. Len(chain) :
       /\ chain[i].nonce <= i
       /\ chain[i].data # NoDeposit => chain[i].nonce >= 1
  /\ \A i, j \in 1 .. Len(chain) :
       i < j => /\ chain[i].nonce <= chain[j].nonce
                /\ chain[j].data # NoDeposit => chain[i].nonce < chain[j].nonce

\* A listener that has routed a block has found it.
RoutedExists == \A r \in Relayers : routed[r] => cursor[r] <= Len(chain)

OnlyFinal ==
  /\ \A r \in Relayers : voting[r] \cup watching[r] \subseteq FinalMessages
  /\ \A m \in Messages : votes[m] # {} => m \in FinalMessages
  /\ \A n \in Nonces : \/ executions[n] = <<>>
                       \/ \E m \in FinalMessages :
                            m.nonce = n /\ executions[n] = <<m.data>>

IInv == TypeOK /\ Counted /\ RoutedExists /\ OnlyFinal

-----------------------------------------------------------------------------
(* The source chain.                                                       *)

LEMMA CountInRange ==
  ASSUME TypeOK, Counted, NEW b \in 0 .. Len(chain)
  PROVE  CountAt(b) \in 0 .. b
<1>1. CASE b = 0
  BY <1>1 DEF CountAt
<1>2. CASE b # 0
  <2>1. b \in 1 .. Len(chain)
    BY <1>2 DEF TypeOK
  <2>2. chain[b] \in Blocks
    BY <2>1 DEF TypeOK
  <2>3. QED
    BY <1>2, <2>1, <2>2, ConstantsAssumption DEF CountAt, Counted, Blocks
<1>3. QED BY <1>1, <1>2

\* Reading a deposit gives a message.
LEMMA MessageInRange ==
  ASSUME TypeOK, Counted, NEW b \in 1 .. Len(chain), chain[b].data # NoDeposit
  PROVE  MessageIn(b) \in Messages
<1>1. chain[b] \in Blocks
  BY DEF TypeOK
<1>2. QED
  BY <1>1, ConstantsAssumption DEF TypeOK, Counted, MessageIn, Messages,
    Nonces, Blocks

LEMMA FinalAreMessages ==
  ASSUME TypeOK, Counted
  PROVE  FinalMessages \subseteq Messages
BY MessageInRange DEF FinalMessages

\* Two final deposits with the same nonce are one.
LEMMA FinalIsUnique ==
  ASSUME TypeOK, Counted, NEW m \in FinalMessages, NEW k \in FinalMessages,
         m.nonce = k.nonce
  PROVE  m = k
<1>1. PICK i \in 1 .. Len(chain) :
        chain[i].data # NoDeposit /\ m = MessageIn(i)
  BY DEF FinalMessages
<1>2. PICK j \in 1 .. Len(chain) :
        chain[j].data # NoDeposit /\ k = MessageIn(j)
  BY DEF FinalMessages
<1>3. chain[i] \in Blocks /\ chain[j] \in Blocks
  BY DEF TypeOK
<1>4. chain[i].nonce = chain[j].nonce
  BY <1>1, <1>2 DEF MessageIn
<1>5. ~(i < j) /\ ~(j < i)
  BY <1>1, <1>2, <1>3, <1>4 DEF Counted, Blocks
<1>6. i = j
  BY <1>5
<1>7. QED BY <1>1, <1>2, <1>6

\* What FinalData says of a nonce.
LEMMA DataOfFinal ==
  ASSUME NEW F, NEW m \in F, \A k \in F : k.nonce = m.nonce => k = m
  PROVE  DataOf(F, m.nonce) = m.data
<1>1. (CHOOSE k \in F : k.nonce = m.nonce) = m
  OBVIOUS
<1>2. QED BY <1>1 DEF DataOf

FinalUnique ==
  /\ FinalMessages \subseteq Messages
  /\ \A m, k \in FinalMessages : m.nonce = k.nonce => m = k

LEMMA FinalUniqueHolds == IInv => FinalUnique
BY FinalAreMessages, FinalIsUnique DEF IInv, FinalUnique

LEMMA FinalUniqueStays == IInv' => FinalUnique'
BY FinalUniqueHolds, PTL

-----------------------------------------------------------------------------
(* The steps of the source chain.                                          *)

LEMMA ProduceBlockChain ==
  ASSUME TypeOK, Counted, ProduceBlock
  PROVE  /\ chain' \in Seq(Blocks) /\ Len(chain') <= MaxBlock
         /\ Len(chain') = Len(chain) + 1
         /\ \A i \in 1 .. Len(chain) : chain'[i] = chain[i]
         /\ Counted'
<1>1. PICK d \in Data \cup {NoDeposit} :
        chain' = Append(chain, After(Len(chain), d))
  BY DEF ProduceBlock
<1> DEFINE new == After(Len(chain), d)
<1>2. Len(chain) \in Nat /\ CountAt(Len(chain)) \in 0 .. Len(chain)
  BY CountInRange DEF TypeOK
<1>3. /\ new.data = d
      /\ new.nonce = IF d = NoDeposit THEN CountAt(Len(chain))
                     ELSE CountAt(Len(chain)) + 1
  BY DEF After
<1>4. new \in Blocks
  BY <1>2, ConstantsAssumption DEF After, Blocks, ProduceBlock
<1> HIDE DEF new
<1>5. /\ chain' \in Seq(Blocks) /\ Len(chain') = Len(chain) + 1
      /\ \A i \in 1 .. Len(chain) : chain'[i] = chain[i]
      /\ chain'[Len(chain) + 1] = new
  BY <1>1, <1>2, <1>4 DEF TypeOK, new
<1>6. Len(chain') <= MaxBlock
  BY <1>2, <1>5, ConstantsAssumption DEF ProduceBlock
<1>7. \A i \in 1 .. Len(chain) : chain[i].nonce \in Nat
  <2>1. \A i \in 1 .. Len(chain) : chain[i] \in Blocks
    BY DEF TypeOK
  <2>2. QED BY <2>1, ConstantsAssumption DEF Blocks
<1>8. \A i \in 1 .. Len(chain) : chain[i].nonce <= CountAt(Len(chain))
  BY <1>2, <1>7 DEF Counted, CountAt
<1>9. Counted'
  <2>1. \A i \in 1 .. Len(chain) : chain[i].nonce \in Nat
    BY <1>7
  <2>2. new.nonce \in Nat
    BY <1>4 DEF Blocks
  <2>3. \A i \in 1 .. Len(chain)' :
          /\ chain'[i].nonce <= i
          /\ chain'[i].data # NoDeposit => chain'[i].nonce >= 1
    BY <1>2, <1>3, <1>5, <2>1, <2>2 DEF Counted
  <2>4. \A i, j \in 1 .. Len(chain)' :
          i < j => /\ chain'[i].nonce <= chain'[j].nonce
                   /\ chain'[j].data # NoDeposit
                        => chain'[i].nonce < chain'[j].nonce
    <3> TAKE i, j \in 1 .. Len(chain)'
    <3> HAVE i < j
    <3>1. CASE j = Len(chain) + 1
      BY <1>2, <1>3, <1>5, <1>8, <2>1, <2>2, <3>1
    <3>2. CASE j # Len(chain) + 1
      BY <1>2, <1>5, <3>2 DEF Counted
    <3>3. QED BY <3>1, <3>2
  <2>5. QED BY <2>3, <2>4 DEF Counted
<1>10. QED BY <1>5, <1>6, <1>9

\* The replaced blocks are less than Confirmations deep.
LEMMA ReorgChain ==
  ASSUME TypeOK, Counted, Reorg
  PROVE  /\ chain' \in Seq(Blocks) /\ Len(chain') = Len(chain)
         /\ \A i \in 1 .. Len(chain) :
              Len(chain) - i >= Confirmations => chain'[i] = chain[i]
         /\ Counted'
<1>1. PICK b \in 1 .. Len(chain), d \in Data \cup {NoDeposit} :
        /\ Len(chain) - ReorgDepth < b
        /\ chain' = [i \in 1 .. Len(chain) |->
                       IF i < b THEN chain[i]
                       ELSE IF i = b THEN After(b - 1, d)
                       ELSE [data |-> NoDeposit, nonce |-> After(b - 1, d).nonce]]
  BY DEF Reorg
<1> DEFINE count == CountAt(b - 1)
           new == After(b - 1, d)
           old == Len(chain)
<1>2. old \in Nat /\ b \in 1 .. old /\ count \in 0 .. b - 1 /\ old <= MaxBlock
  <2>1. b - 1 \in 0 .. Len(chain) /\ Len(chain) \in Nat /\ Len(chain) <= MaxBlock
    BY <1>1 DEF TypeOK
  <2>2. CountAt(b - 1) \in 0 .. b - 1
    BY <2>1, CountInRange
  <2>3. QED BY <2>1, <2>2
<1>3. /\ new.data = d
      /\ new.nonce = IF d = NoDeposit THEN count ELSE count + 1
  BY DEF After
<1>4. /\ new \in Blocks
      /\ [data |-> NoDeposit, nonce |-> new.nonce] \in Blocks
  BY <1>2, ConstantsAssumption DEF After, Blocks
<1>5. \A i \in 1 .. old : chain[i] \in Blocks /\ chain[i].nonce \in Nat
  <2>1. \A i \in 1 .. old : chain[i] \in Blocks
    BY DEF TypeOK
  <2>2. QED BY <2>1, ConstantsAssumption DEF Blocks
<1>6. \A i \in 1 .. b - 1 : chain[i].nonce <= count
  BY <1>2, <1>5 DEF Counted, CountAt
<1> HIDE DEF count, new, old
<1>7. chain' \in [1 .. old -> Blocks]
  BY <1>1, <1>2, <1>4, <1>5 DEF old, new
<1>8. chain' \in Seq(Blocks) /\ Len(chain') = old
  BY <1>2, <1>7
<1>9. \A i \in 1 .. old :
        /\ i < b => chain'[i] = chain[i]
        /\ i = b => chain'[i] = new
        /\ i > b => chain'[i] = [data |-> NoDeposit, nonce |-> new.nonce]
  BY <1>1, <1>2 DEF old, new
<1>10. \A i \in 1 .. old : old - i >= Confirmations => chain'[i] = chain[i]
  BY <1>1, <1>2, <1>9, ConstantsAssumption, ConfirmationsCoverReorgs DEF old
<1>11. Counted'
  <2>1. new.nonce \in Nat /\ \A i \in 1 .. old : chain[i].nonce \in Nat
    BY <1>4, <1>5, ConstantsAssumption DEF Blocks
  <2>2. \A i \in 1 .. old :
          /\ chain'[i].nonce <= i
          /\ chain'[i].data # NoDeposit => chain'[i].nonce >= 1
    BY <1>2, <1>3, <1>9, <2>1 DEF Counted, old
  <2>3. \A i, j \in 1 .. old :
          i < j => /\ chain'[i].nonce <= chain'[j].nonce
                   /\ chain'[j].data # NoDeposit
                        => chain'[i].nonce < chain'[j].nonce
    BY <1>2, <1>3, <1>6, <1>9, <2>1 DEF Counted, old
  <2>4. QED BY <1>8, <2>2, <2>3 DEF Counted
<1>12. QED BY <1>8, <1>10, <1>11 DEF old

-----------------------------------------------------------------------------
(* The final deposits.                                                     *)

\* A new block makes at most one more deposit final.
LEMMA ProduceBlockFinal ==
  ASSUME TypeOK, Counted, ProduceBlock
  PROVE  /\ FinalMessages \subseteq FinalMessages'
         /\ \A m, k \in FinalMessages' \ FinalMessages : m = k
<1>1. /\ Len(chain') = Len(chain) + 1
      /\ \A i \in 1 .. Len(chain) : chain'[i] = chain[i]
  BY ProduceBlockChain
<1>2. Len(chain) \in Nat /\ Confirmations \in Nat
  BY ConstantsAssumption DEF TypeOK
<1>3. FinalMessages \subseteq FinalMessages'
  BY <1>1, <1>2 DEF FinalMessages, MessageIn
<1>4. ASSUME NEW m \in FinalMessages' \ FinalMessages
      PROVE  LET new == Len(chain) + 1 - Confirmations
             IN  m = [nonce |-> chain'[new].nonce, data |-> chain'[new].data]
  <2>1. PICK i \in 1 .. Len(chain') :
          /\ Len(chain') - i >= Confirmations
          /\ chain'[i].data # NoDeposit
          /\ m = [nonce |-> chain'[i].nonce, data |-> chain'[i].data]
    BY <1>4 DEF FinalMessages, MessageIn
  <2>2. CASE i <= Len(chain) /\ Len(chain) - i >= Confirmations
    BY <1>1, <1>2, <1>4, <2>1, <2>2 DEF FinalMessages, MessageIn
  <2>3. CASE ~(i <= Len(chain) /\ Len(chain) - i >= Confirmations)
    <3>1. i = Len(chain) + 1 - Confirmations
      BY <1>1, <1>2, <2>1, <2>3
    <3>2. QED BY <2>1, <3>1
  <2>4. QED BY <2>2, <2>3
<1>5. QED BY <1>3, <1>4

LEMMA ReorgFinal ==
  ASSUME TypeOK, Counted, Reorg
  PROVE  FinalMessages' = FinalMessages
<1>1. /\ Len(chain') = Len(chain)
      /\ \A i \in 1 .. Len(chain) :
           Len(chain) - i >= Confirmations => chain'[i] = chain[i]
  BY ReorgChain
<1>2. QED BY <1>1 DEF FinalMessages, MessageIn

LEMMA SameChain ==
  ASSUME UNCHANGED chain
  PROVE  FinalMessages' = FinalMessages
BY DEF FinalMessages, MessageIn

\* A proposal passes with votes only.
LEMMA PassedHasVotes ==
  ASSUME OnlyFinal, NEW m \in Messages, Passed(m)
  PROVE  m \in FinalMessages
<1>1. CASE votes[m] = {}
  BY <1>1, FS_EmptySet, ConstantsAssumption DEF Passed, Decided
<1>2. CASE votes[m] # {}
  BY <1>2 DEF OnlyFinal
<1>3. QED BY <1>1, <1>2

\* A proposal that passes is the first to be executed for its nonce.
LEMMA PassedIsFirst ==
  ASSUME TypeOK, Counted, OnlyFinal, NEW m \in Messages, Passed(m)
  PROVE  executions[m.nonce] = <<>>
<1>1. m \in FinalMessages /\ m.nonce \in Nonces
  BY PassedHasVotes DEF Messages
<1>2. ASSUME NEW k \in FinalMessages, k.nonce = m.nonce,
             executions[m.nonce] = <<k.data>>
      PROVE  FALSE
  <2>1. k = m
    BY <1>1, <1>2, FinalIsUnique
  <2>2. Executed(m)
    BY <1>2, <2>1 DEF Executed
  <2>3. QED BY <2>2 DEF Passed, Finalized
<1>3. QED BY <1>1, <1>2 DEF OnlyFinal

-----------------------------------------------------------------------------
(* The invariant, step by step.                                            *)

LEMMA InitIInv == Init => IInv
<1> SUFFICES ASSUME Init PROVE IInv OBVIOUS
<1>1. TypeOK
  BY ConstantsAssumption DEF Init, TypeOK, Nonces
<1>2. Counted /\ RoutedExists /\ OnlyFinal
  BY DEF Init, Counted, RoutedExists, OnlyFinal
<1>3. QED BY <1>1, <1>2 DEF IInv

\* The chain grows, and what was final stays so.
LEMMA ChainKeeps ==
  ASSUME IInv, ProduceBlock \/ Reorg
  PROVE  IInv'
<1>1. /\ chain' \in Seq(Blocks) /\ Len(chain') <= MaxBlock
      /\ Len(chain) <= Len(chain') /\ Counted'
      /\ FinalMessages \subseteq FinalMessages'
  BY ProduceBlockChain, ProduceBlockFinal, ReorgChain, ReorgFinal
    DEF IInv, TypeOK
<1>2. UNCHANGED <<up, cursor, routed, stored, voting, watching, votes,
                  cancelled, executions, crashes, lostBy>>
  BY DEF ProduceBlock, Reorg, relayerVars, contractVars
<1>3. TypeOK'
  BY <1>1, <1>2 DEF IInv, TypeOK
<1>4. RoutedExists'
  BY <1>1, <1>2 DEF IInv, RoutedExists, TypeOK
<1>5. OnlyFinal'
  BY <1>1, <1>2 DEF IInv, OnlyFinal
<1>6. QED BY <1>1, <1>3, <1>4, <1>5 DEF IInv

\* Other steps leave Counted alone.
LEMMA CountedStays ==
  ASSUME Counted, UNCHANGED chain
  PROVE  Counted'
BY DEF Counted

LEMMA CancelKeeps ==
  ASSUME IInv, NEW m \in Messages, Cancel(m)
  PROVE  IInv'
<1>1. Counted' /\ FinalMessages' = FinalMessages
  BY CountedStays, SameChain DEF IInv, Cancel
<1>2. QED
  BY <1>1 DEF IInv, TypeOK, RoutedExists, OnlyFinal, Cancel, relayerVars

\* A block is read when it is deep enough, so its deposit is final.
LEMMA RouteKeeps ==
  ASSUME IInv, NEW r \in Relayers, Route(r)
  PROVE  IInv'
<1>1. Counted' /\ FinalMessages' = FinalMessages
  BY CountedStays, SameChain DEF IInv, Route
<1>2. cursor[r] \in 1 .. Len(chain) /\ Len(chain) - cursor[r] >= Confirmations
  BY ConstantsAssumption DEF IInv, TypeOK, Route, DeepEnough
<1> DEFINE m == MessageIn(cursor[r])
<1>3. RoutedExists'
  BY <1>2 DEF IInv, TypeOK, RoutedExists, Route
<1>4. CASE chain[cursor[r]].data = NoDeposit
  BY <1>1, <1>3, <1>4
    DEF IInv, TypeOK, OnlyFinal, Route, contractVars
<1>5. CASE chain[cursor[r]].data # NoDeposit
  <2>1. m \in Messages /\ m \in FinalMessages
    BY <1>2, <1>5, MessageInRange DEF IInv, FinalMessages
  <2>2. /\ voting' = [voting EXCEPT ![r] = @ \cup {m}]
        /\ lostBy' = [lostBy EXCEPT ![m] = @ \ {r}]
    BY <1>5 DEF Route
  <2> HIDE DEF m
  <2>3. TypeOK'
    BY <2>1, <2>2 DEF IInv, TypeOK, Route, contractVars
  <2>4. OnlyFinal'
    BY <1>1, <2>1, <2>2 DEF IInv, TypeOK, OnlyFinal, Route, contractVars
  <2>5. QED BY <1>1, <1>3, <2>3, <2>4 DEF IInv
<1>6. QED BY <1>4, <1>5

LEMMA StoreBlockKeeps ==
  ASSUME IInv, NEW r \in Relayers, StoreBlock(r)
  PROVE  IInv'
<1>1. Counted' /\ FinalMessages' = FinalMessages
  BY CountedStays, SameChain DEF IInv, StoreBlock
<1>2. cursor[r] \in 1 .. MaxBlock /\ Len(chain) \in Nat
  BY ConstantsAssumption DEF IInv, TypeOK, RoutedExists, StoreBlock
<1>3. TypeOK'
  <2>1. cursor' \in [Relayers -> 1 .. MaxBlock + 1]
    BY <1>2, ConstantsAssumption DEF IInv, TypeOK, StoreBlock
  <2>2. stored' \in [Relayers -> 0 .. MaxBlock]
    <3>1. cursor[r] \in 0 .. MaxBlock
      BY <1>2, ConstantsAssumption
    <3>2. QED BY <3>1 DEF IInv, TypeOK, StoreBlock
  <2>3. QED BY <2>1, <2>2 DEF IInv, TypeOK, StoreBlock, contractVars
<1>4. RoutedExists' /\ OnlyFinal'
  BY <1>1 DEF IInv, TypeOK, RoutedExists, OnlyFinal, StoreBlock, contractVars
<1>5. QED BY <1>1, <1>3, <1>4 DEF IInv

\* A watcher and a vote are for a message that was routed.
LEMMA WatchKeeps ==
  ASSUME IInv, NEW r \in Relayers, NEW m \in Messages, Watch(r, m)
  PROVE  IInv'
<1>1. Counted' /\ FinalMessages' = FinalMessages
  BY CountedStays, SameChain DEF IInv, Watch
<1>2. QED
  BY <1>1 DEF IInv, TypeOK, RoutedExists, OnlyFinal, Watch, contractVars

LEMMA VoteKeeps ==
  ASSUME IInv, NEW r \in Relayers, NEW m \in Messages, Vote(r, m)
  PROVE  IInv'
<1>1. Counted' /\ FinalMessages' = FinalMessages
  BY CountedStays, SameChain DEF IInv, Vote
<1>2. m \in FinalMessages
  BY DEF IInv, OnlyFinal, Vote
<1>3. QED
  BY <1>1, <1>2 DEF IInv, TypeOK, RoutedExists, OnlyFinal, Vote

LEMMA SkipKeeps ==
  ASSUME IInv, NEW r \in Relayers, NEW m \in Messages, Skip(r, m)
  PROVE  IInv'
<1>1. Counted' /\ FinalMessages' = FinalMessages
  BY CountedStays, SameChain DEF IInv, Skip
<1>2. CASE Passed(m)
  <2>1. UNCHANGED lostBy /\ watching' = [watching EXCEPT ![r] = @ \cup {m}]
    BY <1>2 DEF Skip
  <2>2. m \in FinalMessages
    BY <1>2, PassedHasVotes DEF IInv
  <2>3. TypeOK' /\ RoutedExists'
    BY <2>1 DEF IInv, TypeOK, RoutedExists, Skip, contractVars
  <2>4. OnlyFinal'
    BY <1>1, <2>1, <2>2 DEF IInv, TypeOK, OnlyFinal, Skip, contractVars
  <2>5. QED BY <1>1, <2>3, <2>4 DEF IInv
<1>3. CASE ~Passed(m)
  <2>1. UNCHANGED watching /\ lostBy' = [lostBy EXCEPT ![m] = @ \cup {r}]
    BY <1>3 DEF Skip
  <2>2. TypeOK' /\ RoutedExists'
    BY <2>1 DEF IInv, TypeOK, RoutedExists, Skip, contractVars
  <2>3. OnlyFinal'
    BY <1>1, <2>1 DEF IInv, TypeOK, OnlyFinal, Skip, contractVars
  <2>4. QED BY <1>1, <2>2, <2>3 DEF IInv
<1>4. QED BY <1>2, <1>3

\* The execution is the only one for its nonce.
LEMMA ExecuteKeeps ==
  ASSUME IInv, NEW r \in Relayers, NEW m \in Messages, Execute(r, m)
  PROVE  IInv'
<1>1. Counted' /\ FinalMessages' = FinalMessages
  BY CountedStays, SameChain DEF IInv, Execute
<1>2. /\ m \in FinalMessages /\ m.nonce \in Nonces /\ m.data \in Data
      /\ executions[m.nonce] = <<>>
  BY PassedHasVotes, PassedIsFirst DEF IInv, Execute, Messages
<1>3. executions' = [executions EXCEPT ![m.nonce] = <<m.data>>]
  BY <1>2 DEF Execute
<1>4. executions' \in [Nonces -> Seq(Data)]
  BY <1>2, <1>3 DEF IInv, TypeOK
<1>5. TypeOK' /\ RoutedExists'
  BY <1>4 DEF IInv, TypeOK, RoutedExists, Execute
<1>6. \A n \in Nonces :
        \/ executions'[n] = <<>>
        \/ \E k \in FinalMessages : k.nonce = n /\ executions'[n] = <<k.data>>
  BY <1>2, <1>3 DEF IInv, TypeOK, OnlyFinal
<1>7. OnlyFinal'
  BY <1>1, <1>6 DEF IInv, TypeOK, OnlyFinal, Execute
<1>8. QED BY <1>1, <1>5, <1>7 DEF IInv

LEMMA FinishKeeps ==
  ASSUME IInv, NEW r \in Relayers, NEW m \in Messages, Finish(r, m)
  PROVE  IInv'
<1>1. Counted' /\ FinalMessages' = FinalMessages
  BY CountedStays, SameChain DEF IInv, Finish
<1>2. QED
  BY <1>1 DEF IInv, TypeOK, RoutedExists, OnlyFinal, Finish, contractVars

LEMMA AbandonKeeps ==
  ASSUME IInv, NEW r \in Relayers, NEW m \in Messages, Abandon(r, m)
  PROVE  IInv'
<1>1. Counted' /\ FinalMessages' = FinalMessages
  BY CountedStays, SameChain DEF IInv, Abandon
<1>2. TypeOK' /\ RoutedExists'
  BY DEF IInv, TypeOK, RoutedExists, Abandon, contractVars
<1>3. OnlyFinal'
  <2>1. /\ \A p \in Relayers : voting'[p] \subseteq voting[p]
        /\ \A p \in Relayers : watching'[p] \subseteq watching[p]
    BY DEF IInv, TypeOK, Abandon
  <2>2. QED BY <1>1, <2>1 DEF IInv, OnlyFinal, Abandon, contractVars
<1>4. QED BY <1>1, <1>2, <1>3 DEF IInv

LEMMA CrashKeeps ==
  ASSUME IInv, NEW r \in Relayers, Crash(r)
  PROVE  IInv'
<1>1. Counted' /\ FinalMessages' = FinalMessages
  BY CountedStays, SameChain DEF IInv, Crash
<1>2. TypeOK'
  BY ConstantsAssumption DEF IInv, TypeOK, Crash, contractVars
<1>3. RoutedExists' /\ OnlyFinal'
  BY <1>1 DEF IInv, TypeOK, RoutedExists, OnlyFinal, Crash, contractVars
<1>4. QED BY <1>1, <1>2, <1>3 DEF IInv

LEMMA RestartKeeps ==
  ASSUME IInv, NEW r \in Relayers, Restart(r)
  PROVE  IInv'
<1>1. Counted' /\ FinalMessages' = FinalMessages
  BY CountedStays, SameChain DEF IInv, Restart
<1>2. TypeOK'
  <2>1. FirstBlock(r) \in 1 .. MaxBlock + 1 /\ 1 \in 1 .. MaxBlock + 1
    BY ConstantsAssumption DEF IInv, TypeOK, FirstBlock
  <2>2. cursor' \in [Relayers -> 1 .. MaxBlock + 1]
    BY <2>1 DEF IInv, TypeOK, Restart
  <2>3. QED BY <2>2 DEF IInv, TypeOK, Restart, contractVars
<1>3. RoutedExists' /\ OnlyFinal'
  BY <1>1 DEF IInv, TypeOK, RoutedExists, OnlyFinal, Restart, contractVars
<1>4. QED BY <1>1, <1>2, <1>3 DEF IInv

LEMMA NextKeeps == IInv /\ [Next]_vars => IInv'
<1> SUFFICES ASSUME IInv, [Next]_vars PROVE IInv' OBVIOUS
<1>1. CASE ProduceBlock \/ Reorg
  BY <1>1, ChainKeeps
<1>2. CASE \E m \in Messages : Cancel(m)
  BY <1>2, CancelKeeps
<1>3. CASE \E r \in Relayers : Listen(r) \/ Crash(r) \/ Restart(r)
  BY <1>3, RouteKeeps, StoreBlockKeeps, CrashKeeps, RestartKeeps DEF Listen
<1>4. CASE \E r \in Relayers, m \in Messages : Resolve(r, m) \/ Abandon(r, m)
  BY <1>4, WatchKeeps, VoteKeeps, SkipKeeps, ExecuteKeeps, FinishKeeps,
    AbandonKeeps DEF Resolve
<1>5. CASE UNCHANGED vars
  <2>1. Counted' /\ FinalMessages' = FinalMessages
    BY <1>5, CountedStays, SameChain DEF IInv, vars
  <2>2. QED
    BY <1>5, <2>1 DEF IInv, TypeOK, RoutedExists, OnlyFinal, vars
<1>6. QED BY <1>1, <1>2, <1>3, <1>4, <1>5 DEF Next

LEMMA Invariant == Spec => []IInv
BY InitIInv, NextKeeps, PTL DEF Spec

\* The state of the relayers, of the contract and of the source chain keeps
\* its type: no listener runs past the chain, no blockstore past its listener.
THEOREM TypeCorrect == Spec => []TypeOK
<1>1. IInv => TypeOK
  BY DEF IInv
<1>2. QED BY Invariant, <1>1, PTL

-----------------------------------------------------------------------------
(* The refinement.                                                         *)

LEMMA InitBridge == Init => B!BridgeInit
<1> SUFFICES ASSUME Init PROVE B!BridgeInit OBVIOUS
<1>1. FinalMessages = {}
  BY DEF Init, FinalMessages
<1>2. FinalData = [n \in Nonces |-> NoDeposit]
  BY <1>1 DEF FinalData, DataOf
<1>3. QED BY <1>2 DEF Init, B!BridgeInit

\* As long as the final deposits and the executions are the same, so is the
\* bridge.
LEMMA SameBridge ==
  ASSUME FinalMessages' = FinalMessages, UNCHANGED executions
  PROVE  UNCHANGED <<FinalData, executions>>
<1>1. FinalData' = FinalData
  BY DEF FinalData, DataOf
<1>2. QED BY <1>1

\* The deposit of the block that has become deep enough is new, also by its
\* nonce: this is Finalize.
LEMMA ProduceBlockBridge ==
  ASSUME IInv, IInv', ProduceBlock
  PROVE  [B!BridgeNext]_<<FinalData, executions>>
<1> DEFINE F == FinalMessages
<1>1. /\ F \subseteq F'
      /\ \A m, k \in F' \ F : m = k
  BY ProduceBlockFinal DEF IInv
<1>2. UNCHANGED executions
  BY DEF ProduceBlock, contractVars
<1>3. F' \subseteq Messages
  BY FinalUniqueStays DEF FinalUnique
<1>4. \A m, k \in F' : m.nonce = k.nonce => m = k
  BY FinalUniqueStays DEF FinalUnique
<1> HIDE DEF F
<1>5. CASE F' = F
  BY <1>2, <1>5, SameBridge DEF F
<1>6. CASE F' # F
  <2>1. PICK m \in F' : m \notin F
    BY <1>1, <1>6
  <2>2. F' = F \cup {m}
    BY <1>1, <2>1
  <2>3. m.nonce \in Nonces /\ m.data \in Data
    BY <1>3, <2>1 DEF Messages
  <2>4. ~ \E k \in F : k.nonce = m.nonce
    BY <1>4, <2>1, <2>2
  <2>5. DataOf(F, m.nonce) = NoDeposit
    BY <2>4 DEF DataOf
  <2>6. DataOf(F', m.nonce) = m.data
    BY <1>4, <2>1, DataOfFinal
  <2>7. \A n \in Nonces : n # m.nonce => DataOf(F', n) = DataOf(F, n)
    <3> TAKE n \in Nonces
    <3> HAVE n # m.nonce
    <3>1. \A k : (k \in F' /\ k.nonce = n) <=> (k \in F /\ k.nonce = n)
      BY <2>2
    <3>2. (CHOOSE k \in F' : k.nonce = n) = (CHOOSE k \in F : k.nonce = n)
      BY <3>1
    <3>3. QED BY <3>1, <3>2 DEF DataOf
  <2>8. FinalData[m.nonce] = NoDeposit
    BY <2>3, <2>5 DEF FinalData, F
  <2>9. FinalData' = [FinalData EXCEPT ![m.nonce] = m.data]
    BY <2>3, <2>6, <2>7 DEF FinalData, F
  <2>10. B!Finalize(m.nonce)
    BY <1>2, <2>3, <2>8, <2>9 DEF B!Finalize
  <2>11. QED BY <2>3, <2>10 DEF B!BridgeNext
<1>7. QED BY <1>5, <1>6

\* The execution of a passed proposal is Deliver.
LEMMA ExecuteBridge ==
  ASSUME IInv, NEW r \in Relayers, NEW m \in Messages, Execute(r, m)
  PROVE  B!BridgeNext
<1>1. /\ m \in FinalMessages /\ m.nonce \in Nonces /\ m.data \in Data
      /\ executions[m.nonce] = <<>>
  BY PassedHasVotes, PassedIsFirst DEF IInv, Execute, Messages
<1>2. \A k \in FinalMessages : k.nonce = m.nonce => k = m
  BY <1>1, FinalIsUnique DEF IInv
<1>3. FinalData[m.nonce] = m.data
  BY <1>1, <1>2, DataOfFinal DEF FinalData
<1>4. FinalData[m.nonce] # NoDeposit
  BY <1>1, <1>3, ConstantsAssumption
<1>5. executions' = [executions EXCEPT ![m.nonce] = <<FinalData[m.nonce]>>]
  BY <1>1, <1>3 DEF Execute
<1>6. FinalData' = FinalData
  <2>1. FinalMessages' = FinalMessages
    BY SameChain DEF Execute
  <2>2. QED BY <2>1 DEF FinalData, DataOf
<1>7. B!Deliver(m.nonce)
  BY <1>1, <1>4, <1>5, <1>6 DEF B!Deliver
<1>8. QED BY <1>1, <1>7 DEF B!BridgeNext

LEMMA NextBridge ==
  IInv /\ IInv' /\ [Next]_vars => [B!BridgeNext]_<<FinalData, executions>>
<1> SUFFICES ASSUME IInv, IInv', [Next]_vars
             PROVE  [B!BridgeNext]_<<FinalData, executions>>
  OBVIOUS
<1>1. CASE ProduceBlock
  BY <1>1, ProduceBlockBridge
<1>2. CASE Reorg
  BY <1>2, ReorgFinal, SameBridge DEF IInv, Reorg, contractVars
<1>3. CASE \E r \in Relayers, m \in Messages : Execute(r, m)
  BY <1>3, ExecuteBridge
<1>4. CASE UNCHANGED <<chain, executions>>
  BY <1>4, SameChain, SameBridge
<1>5. ASSUME NEW m \in Messages, Cancel(m) PROVE UNCHANGED <<chain, executions>>
  BY <1>5 DEF Cancel
<1>6. ASSUME NEW r \in Relayers, Listen(r) \/ Crash(r) \/ Restart(r)
      PROVE  UNCHANGED <<chain, executions>>
  BY <1>6 DEF Listen, Route, StoreBlock, Crash, Restart, contractVars
<1>7. ASSUME NEW r \in Relayers, NEW m \in Messages,
             Resolve(r, m) \/ Abandon(r, m), ~Execute(r, m)
      PROVE  UNCHANGED <<chain, executions>>
  BY <1>7 DEF Resolve, Watch, Vote, Skip, Finish, Abandon, contractVars
<1>8. QED
  BY <1>1, <1>2, <1>3, <1>4, <1>5, <1>6, <1>7 DEF Next, vars

\* However many relayers there are, whatever they lose or read twice and
\* whichever forks they see, each deposit is executed at most once, with the
\* data that became final: the relayers implement Bridge.
THEOREM DeliveryImplementsBridge == Spec => ImplementsBridge
<1>1. Init => B!BridgeInit
  BY InitBridge
<1>2. IInv /\ IInv' /\ [Next]_vars => [B!BridgeNext]_<<FinalData, executions>>
  BY NextBridge
<1>3. QED
  BY Invariant, <1>1, <1>2, PTL DEF Spec, ImplementsBridge, B!BridgeSpec

-----------------------------------------------------------------------------
(* What a user of the bridge may rely on, from the abstract specification. *)

Typed ==
  /\ DOMAIN FinalData = Nonces
  /\ executions = [n \in Nonces |-> executions[n]]
  /\ B!ExecutedOnce

LEMMA BridgeStarts == B!BridgeInit => Typed
BY DEF B!BridgeInit, Typed, B!ExecutedOnce, FinalData

LEMMA BridgeMoves ==
  ASSUME Typed, [B!BridgeNext]_<<FinalData, executions>>
  PROVE  /\ Typed'
         /\ \A n \in Nonces :
              executions[n] # <<>> => UNCHANGED <<FinalData[n], executions[n]>>
<1> DEFINE Rest(k) == \A n \in Nonces \ {k} :
                        UNCHANGED <<FinalData[n], executions[n]>>
<1>1. DOMAIN FinalData' = Nonces BY DEF FinalData
<1>2. ASSUME NEW k \in Nonces, B!Finalize(k)
      PROVE  UNCHANGED executions /\ FinalData[k] = NoDeposit /\ Rest(k)
  BY <1>2 DEF B!Finalize, Typed
<1>3. ASSUME NEW k \in Nonces, B!Deliver(k)
      PROVE  /\ UNCHANGED FinalData /\ FinalData[k] # NoDeposit /\ Rest(k)
             /\ executions[k] = <<>> /\ executions'[k] = <<FinalData[k]>>
             /\ executions' = [n \in Nonces |-> executions'[n]]
  BY <1>3 DEF B!Deliver, Typed
<1>4. ASSUME NEW k \in Nonces, B!Finalize(k)
      PROVE  /\ Typed'
             /\ \A n \in Nonces : executions[n] # <<>> =>
                  UNCHANGED <<FinalData[n], executions[n]>>
  BY <1>1, <1>2, <1>4 DEF Typed, B!ExecutedOnce
<1>5. ASSUME NEW k \in Nonces, B!Deliver(k)
      PROVE  /\ Typed'
             /\ \A n \in Nonces : executions[n] # <<>> =>
                  UNCHANGED <<FinalData[n], executions[n]>>
  BY <1>1, <1>3, <1>5 DEF Typed, B!ExecutedOnce
<1>6. ASSUME UNCHANGED <<FinalData, executions>>
      PROVE  /\ Typed'
             /\ \A n \in Nonces : executions[n] # <<>> =>
                  UNCHANGED <<FinalData[n], executions[n]>>
  BY <1>6 DEF Typed, B!ExecutedOnce
<1>7. QED BY <1>4, <1>5, <1>6 DEF B!BridgeNext

\* No deposit is executed twice, none with other data than those that became
\* final, and no fork takes away a deposit that has been executed.
THEOREM ExecutedForGood == Spec => []B!ExecutedOnce /\ B!NothingTakenBack
<1> DEFINE Kept == \A n \in Nonces : executions[n] # <<>> =>
                     UNCHANGED <<FinalData[n], executions[n]>>
<1>1. Typed /\ [B!BridgeNext]_<<FinalData, executions>> => Typed' /\ Kept
  BY BridgeMoves
<1>2. Typed => B!ExecutedOnce BY DEF Typed
<1>3. B!BridgeSpec => []B!ExecutedOnce /\ [][Kept]_<<FinalData, executions>>
  BY BridgeStarts, <1>1, <1>2, PTL DEF B!BridgeSpec
<1>4. QED
  BY DeliveryImplementsBridge, <1>3 DEF ImplementsBridge, B!NothingTakenBack
==============================================================================
