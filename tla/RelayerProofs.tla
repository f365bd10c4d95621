---------------------------- MODULE RelayerProofs ----------------------------
(***************************************************************************)
(* Proofs about what all goroutines of one relayer process share: the core *)
(* with its chains and the router (RelayerCore), for any number of chains, *)
(* any deposits and any faults, and the connection of an Ethereum chain    *)
(* (EthConnection), for any number of callers and attempts, any prices and *)
(* any faults.                                                             *)
(*                                                                         *)
(* The core: Phases ties the listeners and the router to where main is;    *)
(* Resuming says that no blockstore is ahead of its listener, unless a     *)
(* flag makes the listener begin elsewhere;                                *)
(* RoutedIsAccounted, that no message is forgotten between the block it is *)
(* read from and the one its listener is at.                               *)
(*                                                                         *)
(* The connection: whoever is between Lock and Unlock holds the lock       *)
(* (LockOwned), so what it wrote into the opts is still there when it      *)
(* submits, and the nonce it was given is still free, since nobody else    *)
(* can have submitted meanwhile (OptsOwned).                               *)
(***************************************************************************)
EXTENDS RelayerCore, EthConnection, TLAPS

\* Every chain is initialised before the first is started.
Phases ==
  /\ core = "init" => registered = 1 .. at - 1
  /\ core \in {"start", "wait", "stop"} => registered = Chains
  /\ core = "exited" => at = 1 /\ registered = {}
  /\ core \in {"init", "exited"} =>
       /\ \A c \in Chains : listener[c] = "off"
       /\ \A m \in Messages : running[m] = 0 /\ reporting[m] = 0
  /\ core = "start" => \A c \in Chains : c < at <=> listener[c] # "off"
  /\ core \in {"wait", "stop"} => \A c \in Chains : listener[c] # "off"

\* A listener routes the messages of one block, and of no other.
Routing ==
  \A c \in Chains :
    /\ todo[c] \subseteq InBlock(c, current[c])
    /\ listener[c] = "route" => current[c] <= LastBlock /\ retry[c] > 0
    /\ listener[c] # "route" => todo[c] = {}

\* The block the listener of c is at, or begins at, is known.
Initialised(c) ==
  \/ listener[c] # "off" \/ core = "start"
  \/ core = "init" /\ c < at

Resuming ==
  \A c \in Chains :
    mode = "stored" /\ Initialised(c) => Resume(c) <= current[c]

\* The listener of m may still route it.
Ahead(m) ==
  LET c == SourceOf[m]
  IN \/ m \in todo[c]
     \/ current[c] < BlockOf[m]
     \/ current[c] = BlockOf[m] /\ listener[c] \in {"off", "poll"}

\* The bound on the goroutines of a message leaves one for its next routing.
Bounded ==
  \A m \in Messages :
    /\ running[m] + reporting[m] <= MaxRunning
    /\ Ahead(m) => running[m] + reporting[m] < MaxRunning

Accounted(m) == m \in voted \cup lost \cup refused \cup Unresolved

\* A routed message is accounted for, also one of the block at hand.
RoutedOf(m) ==
  LET c == SourceOf[m]
  IN /\ listener[c] = "route" /\ BlockOf[m] = current[c]
          => m \in todo[c] \/ Accounted(m)
     /\ Initialised(c) /\ BlockOf[m] < current[c] => Accounted(m)
     /\ BlockOf[m] < Resume(c) => Accounted(m)
RoutedIsAccounted == \A m \in Messages : RoutedOf(m)

IInv ==
  /\ TypeOK /\ Phases /\ Routing /\ Resuming /\ Bounded
  /\ RoutedIsAccounted /\ RefusedIsUnconfigured

-----------------------------------------------------------------------------
\* A blockstore holds a block of its chain or none.
LEMMA ResumeInRange ==
  ASSUME TypeOK, NEW c \in Chains
  PROVE  Resume(c) \in 1 .. LastBlock + 1
BY ConstantsAssumption DEF TypeOK, Resume

\* Accounted speaks of the messages only.
LEMMA AccountedStays ==
  ASSUME UNCHANGED messageVars
  PROVE  \A m \in Messages : Accounted(m)' <=> Accounted(m)
BY DEF Accounted, Unresolved, messageVars

\* Nothing is read, routed or stored yet.
LEMMA InitIInv == Init => IInv
<1> SUFFICES ASSUME Init PROVE IInv OBVIOUS
<1>1. TypeOK
  BY ConstantsAssumption DEF Init, TypeOK, CorePCs, ListenerPCs, Chains
<1>2. Phases /\ Routing /\ Resuming
  BY ConstantsAssumption DEF Init, Phases, Routing, Resuming, Initialised,
    Resume, Chains
<1>3. Bounded
  BY ConstantsAssumption DEF Init, Bounded
<1>4. RoutedIsAccounted
  <2>1. ASSUME NEW x \in Messages PROVE RoutedOf(x)
    BY ConstantsAssumption DEF Init, RoutedOf, Initialised, Resume, Blocks
  <2>2. QED BY <2>1 DEF RoutedIsAccounted
<1>5. RefusedIsUnconfigured
  BY DEF Init, RefusedIsUnconfigured
<1>6. QED BY <1>1, <1>2, <1>3, <1>4, <1>5 DEF IInv

-----------------------------------------------------------------------------
(* One lemma for each action.                                              *)

\* The listener begins at the stored block, at an earlier one, or at one that
\* leaves out messages on purpose; nothing runs yet.
LEMMA InitializeChainKeeps ==
  ASSUME IInv, InitializeChain
  PROVE  IInv'
<1>1. PICK b \in FirstBlocks(at) :
        /\ current' = [current EXCEPT ![at] = b]
        /\ lost' = IF mode = "latest"
                   THEN lost \cup (Below(at, b) \ (voted \cup refused))
                   ELSE lost
  BY DEF InitializeChain
<1>2. /\ core = "init" /\ at \in Chains
      /\ core' \in {"init", "start"}
      /\ core' = "init" => at' = at + 1
      /\ core' = "start" => at = NumChains
      /\ listener' = [listener EXCEPT ![at] = "off"]
      /\ UNCHANGED <<mode, stored, todo, running, reporting, voted, refused>>
  BY ConstantsAssumption DEF IInv, TypeOK, Chains, InitializeChain, NextChain,
    NotStarted
<1>3. /\ b \in 1 .. LastBlock + 1
      /\ mode = "stored" => b = Resume(at)
      /\ mode = "latest" \/ b = 1 \/ b = Resume(at)
  BY <1>2, ResumeInRange, ConstantsAssumption DEF IInv, FirstBlocks, Blocks
<1>4. TypeOK'
  <2>1. at' \in Chains
    BY ConstantsAssumption DEF IInv, TypeOK, Chains, InitializeChain, NextChain
  <2>2. current' \in [Chains -> 1 .. LastBlock + 1]
    BY <1>1, <1>3 DEF IInv, TypeOK
  <2>3. retry' \in [Chains -> 0 .. BlockRetryLimit]
    BY ConstantsAssumption DEF IInv, TypeOK, InitializeChain
  <2>4. lost' \subseteq Messages
    BY <1>1 DEF IInv, TypeOK, Below
  <2>5. QED
    BY <2>1, <2>2, <2>3, <2>4 DEF IInv, TypeOK, CorePCs, ListenerPCs,
      InitializeChain, NextChain, NotStarted
<1>5. Phases'
  <2>1. registered' = registered \cup {at}
    BY DEF InitializeChain
  <2>2. registered' = 1 .. at
    BY <1>2, <2>1 DEF IInv, Phases, Chains
  <2>3. listener' = [d \in Chains |-> "off"]
    BY <1>2 DEF IInv, TypeOK, Phases
  <2>4. core' = "start" => at' = 1
    BY <1>2 DEF InitializeChain, NextChain
  <2>5. core' = "init" => registered' = 1 .. at' - 1
    BY <1>2, <2>2 DEF Chains
  <2>6. core' = "start" => registered' = Chains
    BY <1>2, <2>2 DEF Chains
  <2>7. \A m \in Messages : running'[m] = 0 /\ reporting'[m] = 0
    BY <1>2 DEF IInv, Phases
  <2>8. \A d \in Chains : listener'[d] = "off" /\ ~(d < 1)
    BY <2>3 DEF Chains
  <2>9. core' = "start" =>
          \A d \in Chains : d < at' <=> listener'[d] # "off"
    BY <2>4, <2>8
  <2>10. core' = "init" \/ core' = "start"
    BY <1>2
  <2>11. QED BY <2>5, <2>6, <2>7, <2>8, <2>9, <2>10 DEF Phases
<1>6. Routing'
  BY DEF IInv, Phases, Routing, InitializeChain, NotStarted
<1>7. \A d \in Chains : listener'[d] = "off" /\ listener[d] = "off"
  BY <1>2 DEF IInv, TypeOK, Phases
<1>8. \A d \in Chains : Initialised(d)' => d = at \/ Initialised(d)
  BY <1>2, <1>7, ConstantsAssumption DEF Initialised, Chains
<1>9. \A d \in Chains : d # at => current'[d] = current[d]
  BY <1>1, <1>2 DEF IInv, TypeOK
<1>10. current'[at] = b
  BY <1>1, <1>2 DEF IInv, TypeOK
<1>11. \A d \in Chains : Resume(d)' = Resume(d) /\ Resume(d) \in Int
  BY <1>2, ResumeInRange DEF IInv, Resume
<1>12. Resuming'
  <2>1. ASSUME NEW d \in Chains, mode' = "stored", Initialised(d)'
        PROVE  Resume(d)' <= current'[d]
    <3>1. CASE d = at
      BY <1>2, <1>3, <1>10, <1>11, <2>1, <3>1
    <3>2. CASE d # at
      BY <1>2, <1>8, <1>9, <1>11, <2>1, <3>2 DEF IInv, Resuming
    <3>3. QED BY <3>1, <3>2
  <2>2. QED BY <2>1 DEF Resuming
<1>13. Bounded'
  BY ConstantsAssumption, <1>2 DEF IInv, Phases, Bounded
<1>14. RoutedIsAccounted'
  <2>1. \A x \in Messages : Accounted(x) => Accounted(x)'
    BY <1>1, <1>2 DEF Accounted, Unresolved
  <2>2. ASSUME NEW x \in Messages, SourceOf[x] = at, BlockOf[x] < b
        PROVE  Accounted(x)'
    <3>1. BlockOf[x] \in Blocks
      BY ConstantsAssumption
    <3>2. CASE mode = "latest"
      BY <1>1, <1>2, <2>2, <3>2 DEF Accounted, Below
    <3>3. CASE b = 1
      BY <2>2, <3>1, <3>3 DEF Blocks
    <3>4. CASE b = Resume(at)
      BY <2>1, <2>2, <3>4 DEF IInv, RoutedIsAccounted, RoutedOf
    <3>5. QED BY <1>3, <3>2, <3>3, <3>4
  <2>3. ASSUME NEW x \in Messages PROVE RoutedOf(x)'
    <3>1. SourceOf[x] \in Chains /\ BlockOf[x] \in Int
      BY ConstantsAssumption DEF Blocks
    <3>2. BlockOf[x] < Resume(SourceOf[x])' => Accounted(x)'
      BY <1>11, <2>1, <3>1 DEF IInv, RoutedIsAccounted, RoutedOf
    <3>3. Initialised(SourceOf[x])' /\ BlockOf[x] < current'[SourceOf[x]]
            => Accounted(x)'
      BY <1>8, <1>9, <1>10, <2>1, <2>2, <3>1
         DEF IInv, RoutedIsAccounted, RoutedOf
    <3>4. QED BY <1>7, <3>1, <3>2, <3>3 DEF RoutedOf
  <2>4. QED BY <2>3 DEF RoutedIsAccounted
<1>15. RefusedIsUnconfigured'
  BY <1>2 DEF IInv, RefusedIsUnconfigured
<1>16. QED BY <1>4, <1>5, <1>6, <1>12, <1>13, <1>14, <1>15 DEF IInv

\* When the first listener starts, the router knows every chain.
LEMMA StartChainKeeps ==
  ASSUME IInv, StartChain
  PROVE  IInv'
<1>1. TypeOK'
  <2>1. at' \in Chains
    BY ConstantsAssumption DEF IInv, TypeOK, Chains, StartChain, NextChain
  <2>2. QED
    BY <2>1 DEF IInv, TypeOK, CorePCs, ListenerPCs, StartChain, NextChain,
      messageVars
<1>2. Phases'
  BY ConstantsAssumption DEF IInv, TypeOK, Phases, StartChain, NextChain,
    Chains
<1>3. Routing'
  BY DEF IInv, Phases, Routing, StartChain, Chains
<1>4. Resuming'
  BY DEF IInv, TypeOK, Resuming, Initialised, Resume, StartChain, NextChain
<1>5. Bounded'
  BY DEF IInv, TypeOK, Phases, Bounded, Ahead, StartChain, messageVars, Chains
<1>6. RoutedIsAccounted'
  <2>1. \A x \in Messages : Accounted(x)' <=> Accounted(x)
    BY AccountedStays DEF StartChain
  <2>2. ASSUME NEW x \in Messages PROVE RoutedOf(x)'
    <3>1. SourceOf[x] \in Chains /\ BlockOf[x] \in Int
      BY ConstantsAssumption DEF Blocks
    <3>2. QED
      BY <3>1, <2>1 DEF IInv, RoutedIsAccounted, RoutedOf, Initialised,
        Resume, StartChain, NextChain
  <2>3. QED BY <2>2 DEF RoutedIsAccounted
<1>7. RefusedIsUnconfigured'
  BY DEF IInv, RefusedIsUnconfigured, StartChain, messageVars
<1>8. QED BY <1>1, <1>2, <1>3, <1>4, <1>5, <1>6, <1>7 DEF IInv

\* An end of the process turns what is being resolved into losses.
LEMMA ExitKeeps ==
  ASSUME IInv, Exit
  PROVE  IInv'
<1>1. TypeOK'
  BY ConstantsAssumption DEF IInv, TypeOK, CorePCs, ListenerPCs, Exit,
    Unresolved, Chains
<1>2. Phases'
  BY DEF Phases, Exit
<1>3. Routing'
  BY DEF Routing, Exit
<1>4. Resuming'
  BY DEF Resuming, Initialised, Exit
<1>5. Bounded'
  BY ConstantsAssumption DEF Bounded, Exit
<1>6. RoutedIsAccounted'
  <2>1. \A x \in Messages : Accounted(x) => Accounted(x)'
    BY DEF Accounted, Exit
  <2>2. ASSUME NEW x \in Messages PROVE RoutedOf(x)'
    <3>1. SourceOf[x] \in Chains /\ BlockOf[x] \in Int
      BY ConstantsAssumption DEF Blocks
    <3>2. QED
      BY <3>1, <2>1 DEF IInv, RoutedIsAccounted, RoutedOf,
        Initialised, Resume, Exit
  <2>3. QED BY <2>2 DEF RoutedIsAccounted
<1>7. RefusedIsUnconfigured'
  BY DEF IInv, RefusedIsUnconfigured, Exit
<1>8. QED BY <1>1, <1>2, <1>3, <1>4, <1>5, <1>6, <1>7 DEF IInv

\* All listeners are started when the core waits.
LEMMA SignalKeeps ==
  ASSUME IInv, Signal
  PROVE  IInv'
<1>1. TypeOK'
  BY DEF IInv, TypeOK, CorePCs, Signal, chainVars, messageVars
<1>2. Phases'
  BY DEF IInv, Phases, Signal, chainVars
<1>3. Routing'
  BY DEF IInv, Routing, Signal, chainVars
<1>4. Resuming'
  BY DEF IInv, Resuming, Initialised, Resume, Signal, chainVars
<1>5. Bounded'
  BY DEF IInv, Bounded, Ahead, Signal, chainVars, messageVars
<1>6. RoutedIsAccounted'
  <2>1. \A x \in Messages : Accounted(x)' <=> Accounted(x)
    BY AccountedStays DEF Signal
  <2>2. ASSUME NEW x \in Messages PROVE RoutedOf(x)'
    <3>1. SourceOf[x] \in Chains /\ BlockOf[x] \in Int
      BY ConstantsAssumption DEF Blocks
    <3>2. QED
      BY <3>1, <2>1 DEF IInv, RoutedIsAccounted, RoutedOf,
        Initialised, Resume, Signal,
        chainVars
  <2>3. QED BY <2>2 DEF RoutedIsAccounted
<1>7. RefusedIsUnconfigured'
  BY DEF IInv, RefusedIsUnconfigured, Signal, messageVars
<1>8. QED BY <1>1, <1>2, <1>3, <1>4, <1>5, <1>6, <1>7 DEF IInv

\* A listener that gave up stays where it was.
LEMMA HearListenerKeeps ==
  ASSUME IInv, NEW c \in Chains, HearListener(c)
  PROVE  IInv'
<1>1. TypeOK'
  BY DEF IInv, TypeOK, CorePCs, ListenerPCs, HearListener, messageVars
<1>2. Phases'
  BY DEF IInv, Phases, HearListener
<1>3. Routing'
  BY DEF IInv, Routing, HearListener
<1>4. Resuming'
  BY DEF IInv, Resuming, Initialised, Resume, HearListener
<1>5. Bounded'
  BY DEF IInv, Bounded, Ahead, HearListener, messageVars
<1>6. RoutedIsAccounted'
  <2>1. \A x \in Messages : Accounted(x)' <=> Accounted(x)
    BY AccountedStays DEF HearListener
  <2>2. ASSUME NEW x \in Messages PROVE RoutedOf(x)'
    <3>1. SourceOf[x] \in Chains /\ BlockOf[x] \in Int
      BY ConstantsAssumption DEF Blocks
    <3>2. QED
      BY <3>1, <2>1 DEF IInv, RoutedIsAccounted, RoutedOf, Initialised, Resume,
        HearListener
  <2>3. QED BY <2>2 DEF RoutedIsAccounted
<1>7. RefusedIsUnconfigured'
  BY DEF IInv, RefusedIsUnconfigured, HearListener, messageVars
<1>8. QED BY <1>1, <1>2, <1>3, <1>4, <1>5, <1>6, <1>7 DEF IInv

\* The message of the error is lost, unless it was voted on.
LEMMA HearWriterKeeps ==
  ASSUME IInv, NEW m \in Messages, HearWriter(m)
  PROVE  IInv'
<1>1. TypeOK'
  <2>1. reporting[m] - 1 \in 0 .. MaxRunning
    BY ConstantsAssumption DEF IInv, TypeOK, HearWriter
  <2>2. reporting' \in [Messages -> 0 .. MaxRunning]
    BY <2>1 DEF IInv, TypeOK, HearWriter
  <2>3. QED
    BY <2>1, <2>2 DEF IInv, TypeOK, CorePCs, HearWriter, chainVars
<1>2. Phases'
  BY DEF IInv, Phases, HearWriter, chainVars
<1>3. Routing'
  BY DEF IInv, Routing, HearWriter, chainVars
<1>4. Resuming'
  BY DEF IInv, Resuming, Initialised, Resume, HearWriter, chainVars
<1>5. Bounded'
  <2>1. \A x \in Messages : Ahead(x)' <=> Ahead(x)
    BY DEF Ahead, chainVars, HearWriter
  <2>2. \A x \in Messages :
          /\ running'[x] \in Nat /\ reporting'[x] \in Nat
          /\ running'[x] + reporting'[x] <= running[x] + reporting[x]
    BY DEF IInv, TypeOK, HearWriter
  <2>3. QED
    BY ConstantsAssumption, <2>1, <2>2 DEF IInv, TypeOK, Bounded
<1>6. RoutedIsAccounted'
  <2>1. \A x \in Messages : Accounted(x) => Accounted(x)'
    BY DEF Accounted, Unresolved, HearWriter
  <2>2. ASSUME NEW x \in Messages PROVE RoutedOf(x)'
    <3>1. SourceOf[x] \in Chains /\ BlockOf[x] \in Int
      BY ConstantsAssumption DEF Blocks
    <3>2. QED
      BY <3>1, <2>1 DEF IInv, RoutedIsAccounted, RoutedOf, Initialised, Resume,
        HearWriter, chainVars
  <2>3. QED BY <2>2 DEF RoutedIsAccounted
<1>7. RefusedIsUnconfigured'
  BY DEF IInv, RefusedIsUnconfigured, HearWriter
<1>8. QED BY <1>1, <1>2, <1>3, <1>4, <1>5, <1>6, <1>7 DEF IInv

\* To close a stop channel moves nobody.
LEMMA StopChainKeeps ==
  ASSUME IInv, StopChain
  PROVE  IInv'
<1>1. TypeOK'
  <2>1. at' \in Chains
    BY ConstantsAssumption DEF IInv, TypeOK, Chains, StopChain
  <2>2. QED
    BY <2>1 DEF IInv, TypeOK, StopChain, chainVars, messageVars
<1>2. Phases'
  BY DEF IInv, Phases, StopChain, chainVars
<1>3. Routing'
  BY DEF IInv, Routing, StopChain, chainVars
<1>4. Resuming'
  BY DEF IInv, Resuming, Initialised, Resume, StopChain, chainVars
<1>5. Bounded'
  BY DEF IInv, Bounded, Ahead, StopChain, chainVars, messageVars
<1>6. RoutedIsAccounted'
  <2>1. \A x \in Messages : Accounted(x)' <=> Accounted(x)
    BY AccountedStays DEF StopChain
  <2>2. ASSUME NEW x \in Messages PROVE RoutedOf(x)'
    <3>1. SourceOf[x] \in Chains /\ BlockOf[x] \in Int
      BY ConstantsAssumption DEF Blocks
    <3>2. QED
      BY <3>1, <2>1 DEF IInv, RoutedIsAccounted, RoutedOf, Initialised, Resume,
        StopChain, chainVars
  <2>3. QED BY <2>2 DEF RoutedIsAccounted
<1>7. RefusedIsUnconfigured'
  BY DEF IInv, RefusedIsUnconfigured, StopChain, messageVars
<1>8. QED BY <1>1, <1>2, <1>3, <1>4, <1>5, <1>6, <1>7 DEF IInv

\* What is read again need not be accounted for.
LEMMA RestartKeeps ==
  ASSUME IInv, Restart
  PROVE  IInv'
<1>1. TypeOK'
  BY DEF IInv, TypeOK, CorePCs, Restart, chainVars
<1>2. Phases'
  BY DEF IInv, Phases, Restart, chainVars
<1>3. Routing'
  BY DEF IInv, Routing, Restart, chainVars
<1>4. Resuming'
  BY DEF IInv, TypeOK, Phases, Resuming, Initialised, Restart, chainVars, Chains
<1>5. Bounded'
  BY ConstantsAssumption DEF IInv, Phases, Bounded, Restart
<1>6. RoutedIsAccounted'
  <2>1. \A x \in Messages :
          Accounted(x) /\ BlockOf[x] < Resume(SourceOf[x]) => Accounted(x)'
    BY DEF Accounted, Unresolved, Restart
  <2>2. ASSUME NEW x \in Messages PROVE RoutedOf(x)'
    <3>1. SourceOf[x] \in Chains /\ BlockOf[x] \in Int
      BY ConstantsAssumption DEF Blocks
    <3>2. QED
      BY <3>1, <2>1 DEF IInv, TypeOK, Phases, RoutedIsAccounted, RoutedOf,
        Initialised, Resume, chainVars, Chains, Restart
  <2>3. QED BY <2>2 DEF RoutedIsAccounted
<1>7. RefusedIsUnconfigured'
  BY DEF IInv, RefusedIsUnconfigured, Restart
<1>8. QED BY <1>1, <1>2, <1>3, <1>4, <1>5, <1>6, <1>7 DEF IInv

\* A stopped listener stays where it was.
LEMMA ListenerStopKeeps ==
  ASSUME IInv, NEW c \in Chains, ListenerStop(c)
  PROVE  IInv'
<1>1. TypeOK'
  BY DEF IInv, TypeOK, ListenerPCs, ListenerStop, messageVars
<1>2. Phases'
  BY DEF IInv, Phases, ListenerStop
<1>3. Routing'
  BY DEF IInv, Routing, ListenerStop
<1>4. Resuming'
  BY DEF IInv, Resuming, Initialised, Resume, ListenerStop
<1>5. Bounded'
  BY DEF IInv, Bounded, Ahead, ListenerStop, messageVars
<1>6. RoutedIsAccounted'
  <2>1. \A x \in Messages : Accounted(x)' <=> Accounted(x)
    BY AccountedStays DEF ListenerStop
  <2>2. ASSUME NEW x \in Messages PROVE RoutedOf(x)'
    <3>1. SourceOf[x] \in Chains /\ BlockOf[x] \in Int
      BY ConstantsAssumption DEF Blocks
    <3>2. QED
      BY <3>1, <2>1 DEF IInv, RoutedIsAccounted, RoutedOf, Initialised, Resume,
        ListenerStop
  <2>3. QED BY <2>2 DEF RoutedIsAccounted
<1>7. RefusedIsUnconfigured'
  BY DEF IInv, RefusedIsUnconfigured, ListenerStop, messageVars
<1>8. QED BY <1>1, <1>2, <1>3, <1>4, <1>5, <1>6, <1>7 DEF IInv

\* A listener that gives up stays where it was.
LEMMA ListenerFatalKeeps ==
  ASSUME IInv, NEW c \in Chains, ListenerFatal(c)
  PROVE  IInv'
<1>1. TypeOK'
  BY DEF IInv, TypeOK, ListenerPCs, ListenerFatal, messageVars
<1>2. Phases'
  BY DEF IInv, Phases, ListenerFatal, Polling
<1>3. Routing'
  BY DEF IInv, Routing, ListenerFatal, RetriesLeft
<1>4. Resuming'
  BY DEF IInv, Resuming, Initialised, Resume, ListenerFatal, Polling
<1>5. Bounded'
  BY DEF IInv, Bounded, Ahead, ListenerFatal, messageVars
<1>6. RoutedIsAccounted'
  <2>1. \A x \in Messages : Accounted(x)' <=> Accounted(x)
    BY AccountedStays DEF ListenerFatal
  <2>2. ASSUME NEW x \in Messages PROVE RoutedOf(x)'
    <3>1. SourceOf[x] \in Chains /\ BlockOf[x] \in Int
      BY ConstantsAssumption DEF Blocks
    <3>2. QED
      BY <3>1, <2>1 DEF IInv, RoutedIsAccounted, RoutedOf, Initialised, Resume,
        ListenerFatal, Polling
  <2>3. QED BY <2>2 DEF RoutedIsAccounted
<1>7. RefusedIsUnconfigured'
  BY DEF IInv, RefusedIsUnconfigured, ListenerFatal, messageVars
<1>8. QED BY <1>1, <1>2, <1>3, <1>4, <1>5, <1>6, <1>7 DEF IInv

\* There was an attempt left to use.
LEMMA PollFailsKeeps ==
  ASSUME IInv, NEW c \in Chains, PollFails(c)
  PROVE  IInv'
<1>1. TypeOK'
  <2>1. retry[c] - 1 \in 0 .. BlockRetryLimit
    BY ConstantsAssumption DEF IInv, TypeOK, PollFails, RetriesLeft
  <2>2. retry' \in [Chains -> 0 .. BlockRetryLimit]
    BY <2>1 DEF IInv, TypeOK, PollFails, UseRetry
  <2>3. QED
    BY <2>1, <2>2 DEF IInv, TypeOK, PollFails, messageVars
<1>2. Phases'
  BY DEF IInv, Phases, PollFails, Polling
<1>3. Routing'
  BY DEF IInv, Routing, PollFails, Polling, UseRetry
<1>4. Resuming'
  BY DEF IInv, Resuming, Initialised, Resume, PollFails
<1>5. Bounded'
  BY DEF IInv, Bounded, Ahead, PollFails, messageVars
<1>6. RoutedIsAccounted'
  <2>1. \A x \in Messages : Accounted(x)' <=> Accounted(x)
    BY AccountedStays DEF PollFails
  <2>2. ASSUME NEW x \in Messages PROVE RoutedOf(x)'
    <3>1. SourceOf[x] \in Chains /\ BlockOf[x] \in Int
      BY ConstantsAssumption DEF Blocks
    <3>2. QED
      BY <3>1, <2>1 DEF IInv, RoutedIsAccounted, RoutedOf, Initialised, Resume,
        PollFails
  <2>3. QED BY <2>2 DEF RoutedIsAccounted
<1>7. RefusedIsUnconfigured'
  BY DEF IInv, RefusedIsUnconfigured, PollFails, messageVars
<1>8. QED BY <1>1, <1>2, <1>3, <1>4, <1>5, <1>6, <1>7 DEF IInv

\* The messages of the block were ahead, and are now to do.
LEMMA ReadBlockKeeps ==
  ASSUME IInv, NEW c \in Chains, ReadBlock(c)
  PROVE  IInv'
<1>1. TypeOK'
  BY DEF IInv, TypeOK, ListenerPCs, ReadBlock, messageVars, InBlock
<1>2. Phases'
  BY DEF IInv, Phases, ReadBlock, Polling
<1>3. Routing'
  BY DEF IInv, TypeOK, Routing, ReadBlock, RetriesLeft
<1>4. Resuming'
  BY DEF IInv, Resuming, Initialised, Resume, ReadBlock, Polling
<1>5. Bounded'
  <2>1. ASSUME NEW x \in Messages, Ahead(x)' PROVE Ahead(x)
    <3>1. SourceOf[x] \in Chains /\ BlockOf[x] \in Int
      BY ConstantsAssumption DEF Blocks
    <3>2. CASE SourceOf[x] = c
      BY <2>1, <3>1, <3>2 DEF Ahead, InBlock, ReadBlock, Polling
    <3>3. CASE SourceOf[x] # c
      BY <2>1, <3>1, <3>3 DEF Ahead, ReadBlock
    <3>4. QED BY <3>2, <3>3
  <2>2. QED
    BY <2>1 DEF IInv, Bounded, messageVars, ReadBlock
<1>6. RoutedIsAccounted'
  <2>1. \A x \in Messages : Accounted(x)' <=> Accounted(x)
    BY AccountedStays DEF ReadBlock
  <2>2. ASSUME NEW x \in Messages PROVE RoutedOf(x)'
    <3>1. SourceOf[x] \in Chains /\ BlockOf[x] \in Int
      BY ConstantsAssumption DEF Blocks
    <3>2. QED
      BY <3>1, <2>1 DEF IInv, TypeOK, RoutedIsAccounted, RoutedOf,
        Initialised, Resume,
        InBlock, ReadBlock, Polling
  <2>3. QED BY <2>2 DEF RoutedIsAccounted
<1>7. RefusedIsUnconfigured'
  BY DEF IInv, RefusedIsUnconfigured, ReadBlock, messageVars
<1>8. QED BY <1>1, <1>2, <1>3, <1>4, <1>5, <1>6, <1>7 DEF IInv

\* Its guard leaves room for one more goroutine of each message.
LEMMA RereadBlockKeeps ==
  ASSUME IInv, NEW c \in Chains, RereadBlock(c)
  PROVE  IInv'
<1>1. TypeOK'
  <2>1. retry[c] - 1 \in 0 .. BlockRetryLimit
    BY ConstantsAssumption DEF IInv, TypeOK, Routing, RereadBlock
  <2>2. retry' \in [Chains -> 0 .. BlockRetryLimit]
    BY <2>1 DEF IInv, TypeOK, RereadBlock, UseRetry
  <2>3. QED
    BY <2>1, <2>2 DEF IInv, TypeOK, ListenerPCs, RereadBlock, messageVars
<1>2. Phases'
  BY DEF IInv, Phases, RereadBlock
<1>3. Routing'
  <2>1. \A d \in Chains \ {c} : retry'[d] = retry[d]
    BY DEF RereadBlock, UseRetry
  <2>2. QED
    BY <2>1 DEF IInv, TypeOK, Routing, RereadBlock
<1>4. Resuming'
  BY DEF IInv, Resuming, Initialised, Resume, RereadBlock
<1>5. Bounded'
  BY DEF IInv, Bounded, Ahead, InBlock, RereadBlock, messageVars
<1>6. RoutedIsAccounted'
  <2>1. \A x \in Messages : Accounted(x)' <=> Accounted(x)
    BY AccountedStays DEF RereadBlock
  <2>2. ASSUME NEW x \in Messages PROVE RoutedOf(x)'
    <3>1. SourceOf[x] \in Chains /\ BlockOf[x] \in Int
      BY ConstantsAssumption DEF Blocks
    <3>2. QED
      BY <3>1, <2>1 DEF IInv, TypeOK, RoutedIsAccounted, RoutedOf,
        Initialised, Resume,
        RereadBlock
  <2>3. QED BY <2>2 DEF RoutedIsAccounted
<1>7. RefusedIsUnconfigured'
  BY DEF IInv, RefusedIsUnconfigured, RereadBlock, messageVars
<1>8. QED BY <1>1, <1>2, <1>3, <1>4, <1>5, <1>6, <1>7 DEF IInv

\* A message is resolved or refused, the latter only without a writer.
LEMMA RouteKeeps ==
  ASSUME IInv, NEW c \in Chains, NEW m \in Messages, Route(c, m)
  PROVE  IInv'
<1>1. TypeOK'
  <2>1. running[m] + 1 \in 0 .. MaxRunning
    BY ConstantsAssumption DEF IInv, TypeOK, Bounded, Ahead, Routing, InBlock,
      Route
  <2>2. running' \in [Messages -> 0 .. MaxRunning]
    BY <2>1 DEF IInv, TypeOK, Route
  <2>3. QED
    BY <2>1, <2>2 DEF IInv, TypeOK, Route
<1>2. Phases'
  BY DEF IInv, Phases, Route
<1>3. Routing'
  BY DEF IInv, Routing, Route, Chains
<1>4. Resuming'
  BY DEF IInv, Resuming, Initialised, Resume, Route
<1>5. Bounded'
  <2>1. ASSUME NEW x \in Messages, Ahead(x)' PROVE Ahead(x) /\ x # m
    <3>1. SourceOf[x] \in Chains /\ BlockOf[x] \in Int
      BY ConstantsAssumption DEF Blocks
    <3>2. QED
      BY <2>1, <3>1 DEF IInv, TypeOK, Ahead, Routing, InBlock, Route
  <2>2. Ahead(m)
    BY DEF IInv, Ahead, Routing, InBlock, Route
  <2>3. QED
    BY ConstantsAssumption, <2>1, <2>2 DEF IInv, TypeOK, Bounded, Route
<1>6. RoutedIsAccounted'
  <2>1. \A x \in Messages : Accounted(x) => Accounted(x)'
    BY DEF IInv, TypeOK, Accounted, Unresolved, Route
  <2>2. Accounted(m)'
    BY DEF IInv, TypeOK, Accounted, Unresolved, Route
  <2>3. ASSUME NEW x \in Messages PROVE RoutedOf(x)'
    <3>1. SourceOf[x] \in Chains /\ BlockOf[x] \in Int
      BY ConstantsAssumption DEF Blocks
    <3>2. UNCHANGED <<listener, current, Resume(SourceOf[x]),
                      Initialised(SourceOf[x])>>
      BY DEF Resume, Initialised, Route
    <3>3. x # m => (x \in todo'[SourceOf[x]] <=> x \in todo[SourceOf[x]])
      BY <3>1 DEF Route
    <3>4. CASE x = m
      BY <2>1, <2>2, <3>2, <3>3, <3>4 DEF RoutedOf
    <3>5. CASE x # m
      BY <2>1, <2>2, <3>2, <3>3, <3>5 DEF IInv, RoutedIsAccounted, RoutedOf
    <3>6. QED BY <3>4, <3>5
  <2>4. QED BY <2>3 DEF RoutedIsAccounted
<1>7. RefusedIsUnconfigured'
  <2>1. registered = Chains
    BY DEF IInv, TypeOK, Phases, CorePCs, Route
  <2>2. QED
    BY <2>1 DEF IInv, RefusedIsUnconfigured, Route
<1>8. QED BY <1>1, <1>2, <1>3, <1>4, <1>5, <1>6, <1>7 DEF IInv

\* All messages of the block are routed, hence accounted for.
LEMMA StoreBlockKeeps ==
  ASSUME IInv, NEW c \in Chains, StoreBlock(c)
  PROVE  IInv'
<1>1. TypeOK'
  <2>1. current[c] \in 1 .. LastBlock /\ current[c] + 1 \in 1 .. LastBlock + 1
    BY ConstantsAssumption DEF IInv, TypeOK, Routing, StoreBlock
  <2>2. current' \in [Chains -> 1 .. LastBlock + 1]
    BY <2>1 DEF IInv, TypeOK, StoreBlock
  <2>3. stored' \in [Chains -> 0 .. LastBlock]
    BY <2>1 DEF IInv, TypeOK, StoreBlock
  <2>4. retry' \in [Chains -> 0 .. BlockRetryLimit]
    BY ConstantsAssumption DEF IInv, TypeOK, StoreBlock
  <2>5. QED
    BY <2>1, <2>2, <2>3, <2>4 DEF IInv, TypeOK, ListenerPCs, StoreBlock,
      messageVars
<1>2. Phases'
  BY DEF IInv, Phases, StoreBlock
<1>3. Routing'
  BY DEF IInv, TypeOK, Routing, StoreBlock
<1>4. Resuming'
  <2>1. ASSUME NEW d \in Chains, mode' = "stored", Initialised(d)'
        PROVE  Resume(d)' <= current'[d]
    <3>1. mode = "stored" /\ Initialised(d) /\ Resume(d) <= current[d]
      BY <2>1 DEF IInv, TypeOK, Resuming, Initialised, StoreBlock
    <3>2. QED
      BY <3>1 DEF IInv, TypeOK, Resume, StoreBlock
  <2>2. QED BY <2>1 DEF Resuming
<1>5. Bounded'
  <2>1. ASSUME NEW x \in Messages, Ahead(x)' PROVE Ahead(x)
    <3>1. SourceOf[x] \in Chains /\ BlockOf[x] \in Int
      BY ConstantsAssumption DEF Blocks
    <3>2. CASE SourceOf[x] = c
      BY <2>1, <3>1, <3>2 DEF IInv, TypeOK, Ahead, StoreBlock
    <3>3. CASE SourceOf[x] # c
      BY <2>1, <3>1, <3>3 DEF Ahead, StoreBlock
    <3>4. QED BY <3>2, <3>3
  <2>2. QED
    BY <2>1 DEF IInv, Bounded, messageVars, StoreBlock
<1>6. RoutedIsAccounted'
  <2>1. \A x \in Messages : Accounted(x) => Accounted(x)'
    BY AccountedStays DEF StoreBlock
  <2>2. /\ Resume(c)' <= current[c] \/ Resume(c)' = Resume(c)
        /\ Resume(c)' \in Int
    BY DEF IInv, TypeOK, Resume, StoreBlock
  <2>3. ASSUME NEW x \in Messages PROVE RoutedOf(x)'
    <3>1. SourceOf[x] \in Chains /\ BlockOf[x] \in Int
      BY ConstantsAssumption DEF Blocks
    <3>2. Initialised(SourceOf[x])' => Initialised(SourceOf[x])
      BY <3>1 DEF IInv, TypeOK, Initialised, StoreBlock
    <3>3. CASE SourceOf[x] = c
      <4>1. BlockOf[x] < current[c] + 1 => Accounted(x)
        BY <3>1, <3>3 DEF IInv, TypeOK, RoutedIsAccounted, RoutedOf,
          Initialised, StoreBlock
      <4>2. BlockOf[x] < Resume(c) => Accounted(x)
        BY <3>1, <3>3 DEF IInv, RoutedIsAccounted, RoutedOf
      <4>3. listener'[c] = "poll" /\ current'[c] = current[c] + 1
        BY DEF IInv, TypeOK, StoreBlock
      <4>4. BlockOf[x] < Resume(c)' => Accounted(x)
        BY <2>2, <3>1, <4>1, <4>2 DEF IInv, TypeOK
      <4>5. QED BY <2>1, <3>3, <4>1, <4>3, <4>4 DEF RoutedOf
    <3>4. CASE SourceOf[x] # c
      BY <2>1, <3>1, <3>2, <3>4 DEF IInv, TypeOK, Resume, RoutedIsAccounted,
        RoutedOf, StoreBlock
    <3>5. QED BY <3>3, <3>4
  <2>4. QED BY <2>3 DEF RoutedIsAccounted
<1>7. RefusedIsUnconfigured'
  BY DEF IInv, RefusedIsUnconfigured, StoreBlock, messageVars
<1>8. QED BY <1>1, <1>2, <1>3, <1>4, <1>5, <1>6, <1>7 DEF IInv

\* A vote accounts for the message of the goroutine that ends.
LEMMA VoteKeeps ==
  ASSUME IInv, NEW m \in Messages, Vote(m)
  PROVE  IInv'
<1>1. TypeOK'
  <2>1. running[m] - 1 \in 0 .. MaxRunning
    BY ConstantsAssumption DEF IInv, TypeOK, Vote
  <2>2. running' \in [Messages -> 0 .. MaxRunning]
    BY <2>1 DEF IInv, TypeOK, Vote, Finish
  <2>3. QED
    BY <2>1, <2>2 DEF IInv, TypeOK, Vote, chainVars
<1>2. Phases'
  <2>1. core \notin {"init", "exited"}
    BY DEF IInv, Phases, Vote
  <2>2. QED
    BY <2>1 DEF IInv, Phases, chainVars, Vote
<1>3. Routing'
  BY DEF IInv, Routing, Vote, chainVars
<1>4. Resuming'
  BY DEF IInv, Resuming, Initialised, Resume, Vote, chainVars
<1>5. Bounded'
  <2>1. \A x \in Messages : Ahead(x)' <=> Ahead(x)
    BY DEF Ahead, chainVars, Vote
  <2>2. \A x \in Messages :
          /\ running'[x] \in Nat /\ reporting'[x] \in Nat
          /\ running'[x] + reporting'[x] <= running[x] + reporting[x]
    BY DEF IInv, TypeOK, Vote, Finish
  <2>3. QED
    BY ConstantsAssumption, <2>1, <2>2 DEF IInv, TypeOK, Bounded
<1>6. RoutedIsAccounted'
  <2>1. \A x \in Messages : Accounted(x) => Accounted(x)'
    BY DEF Accounted, Unresolved, Vote, Finish
  <2>2. ASSUME NEW x \in Messages PROVE RoutedOf(x)'
    <3>1. SourceOf[x] \in Chains /\ BlockOf[x] \in Int
      BY ConstantsAssumption DEF Blocks
    <3>2. QED
      BY <3>1, <2>1 DEF IInv, RoutedIsAccounted, RoutedOf,
        Initialised, Resume, Vote,
        chainVars
  <2>3. QED BY <2>2 DEF RoutedIsAccounted
<1>7. RefusedIsUnconfigured'
  BY DEF IInv, RefusedIsUnconfigured, Vote
<1>8. QED BY <1>1, <1>2, <1>3, <1>4, <1>5, <1>6, <1>7 DEF IInv

\* A loss accounts for the message of the goroutine that ends.
LEMMA AbandonKeeps ==
  ASSUME IInv, NEW m \in Messages, Abandon(m)
  PROVE  IInv'
<1>1. TypeOK'
  <2>1. running[m] - 1 \in 0 .. MaxRunning
    BY ConstantsAssumption DEF IInv, TypeOK, Abandon
  <2>2. running' \in [Messages -> 0 .. MaxRunning]
    BY <2>1 DEF IInv, TypeOK, Abandon, Finish
  <2>3. QED
    BY <2>1, <2>2 DEF IInv, TypeOK, Abandon, chainVars
<1>2. Phases'
  BY DEF IInv, Phases, Abandon, chainVars
<1>3. Routing'
  BY DEF IInv, Routing, Abandon, chainVars
<1>4. Resuming'
  BY DEF IInv, Resuming, Initialised, Resume, Abandon, chainVars
<1>5. Bounded'
  <2>1. \A x \in Messages : Ahead(x)' <=> Ahead(x)
    BY DEF Ahead, chainVars, Abandon
  <2>2. \A x \in Messages :
          /\ running'[x] \in Nat /\ reporting'[x] \in Nat
          /\ running'[x] + reporting'[x] <= running[x] + reporting[x]
    BY DEF IInv, TypeOK, Abandon, Finish
  <2>3. QED
    BY ConstantsAssumption, <2>1, <2>2 DEF IInv, TypeOK, Bounded
<1>6. RoutedIsAccounted'
  <2>1. \A x \in Messages : Accounted(x) => Accounted(x)'
    BY DEF Accounted, Unresolved, Abandon, Finish
  <2>2. ASSUME NEW x \in Messages PROVE RoutedOf(x)'
    <3>1. SourceOf[x] \in Chains /\ BlockOf[x] \in Int
      BY ConstantsAssumption DEF Blocks
    <3>2. QED
      BY <3>1, <2>1 DEF IInv, RoutedIsAccounted, RoutedOf,
        Initialised, Resume, Abandon,
        chainVars
  <2>3. QED BY <2>2 DEF RoutedIsAccounted
<1>7. RefusedIsUnconfigured'
  BY DEF IInv, RefusedIsUnconfigured, Abandon
<1>8. QED BY <1>1, <1>2, <1>3, <1>4, <1>5, <1>6, <1>7 DEF IInv

\* The goroutine is counted among those that report.
LEMMA ReportKeeps ==
  ASSUME IInv, NEW m \in Messages, Report(m)
  PROVE  IInv'
<1>1. TypeOK'
  <2>1. running[m] - 1 \in 0 .. MaxRunning
    BY ConstantsAssumption DEF IInv, TypeOK, Report
  <2>2. running' \in [Messages -> 0 .. MaxRunning]
    BY <2>1 DEF IInv, TypeOK, Report, Finish
  <2>3. reporting[m] + 1 \in 0 .. MaxRunning
    BY ConstantsAssumption DEF IInv, TypeOK, Bounded, Report
  <2>4. reporting' \in [Messages -> 0 .. MaxRunning]
    BY <2>3 DEF IInv, TypeOK, Report
  <2>5. QED
    BY <2>1, <2>2, <2>3, <2>4 DEF IInv, TypeOK, Report, chainVars
<1>2. Phases'
  <2>1. core \notin {"init", "exited"}
    BY DEF IInv, Phases, Report
  <2>2. QED
    BY <2>1 DEF IInv, Phases, chainVars, Report
<1>3. Routing'
  BY DEF IInv, Routing, Report, chainVars
<1>4. Resuming'
  BY DEF IInv, Resuming, Initialised, Resume, Report, chainVars
<1>5. Bounded'
  <2>1. \A x \in Messages : Ahead(x)' <=> Ahead(x)
    BY DEF Ahead, chainVars, Report
  <2>2. \A x \in Messages :
          /\ running'[x] \in Nat /\ reporting'[x] \in Nat
          /\ running'[x] + reporting'[x] <= running[x] + reporting[x]
    BY DEF IInv, TypeOK, Report, Finish
  <2>3. QED
    BY ConstantsAssumption, <2>1, <2>2 DEF IInv, TypeOK, Bounded
<1>6. RoutedIsAccounted'
  <2>1. \A x \in Messages : Accounted(x) => Accounted(x)'
    BY DEF IInv, TypeOK, Accounted, Unresolved, Report, Finish
  <2>2. ASSUME NEW x \in Messages PROVE RoutedOf(x)'
    <3>1. SourceOf[x] \in Chains /\ BlockOf[x] \in Int
      BY ConstantsAssumption DEF Blocks
    <3>2. QED
      BY <3>1, <2>1 DEF IInv, RoutedIsAccounted, RoutedOf,
        Initialised, Resume, Report,
        chainVars
  <2>3. QED BY <2>2 DEF RoutedIsAccounted
<1>7. RefusedIsUnconfigured'
  BY DEF IInv, RefusedIsUnconfigured, Report
<1>8. QED BY <1>1, <1>2, <1>3, <1>4, <1>5, <1>6, <1>7 DEF IInv

-----------------------------------------------------------------------------
\* A step that changes nothing.
LEMMA StutterKeeps ==
  ASSUME IInv, UNCHANGED vars
  PROVE  IInv'
BY DEF IInv, vars, TypeOK, Phases, Routing, Resuming,
  Initialised, Resume, Bounded,
  Ahead, RoutedIsAccounted, RoutedOf, Accounted, Unresolved,
  RefusedIsUnconfigured

\* Every step keeps the inductive invariant.
LEMMA StepIInv == IInv /\ [Next]_vars => IInv'
<1> SUFFICES ASSUME IInv, [Next]_vars PROVE IInv' OBVIOUS
<1>1. CASE Main
  BY <1>1, InitializeChainKeeps, StartChainKeeps, StopChainKeeps, ExitKeeps,
    HearListenerKeeps, HearWriterKeeps DEF Main, Return
<1>2. CASE Restart
  BY <1>2, RestartKeeps
<1>3. CASE Fault
  BY <1>3, ExitKeeps, SignalKeeps, PollFailsKeeps,
    RereadBlockKeeps, AbandonKeeps, ReportKeeps DEF Fault, StartUpError, Crash
<1>4. ASSUME NEW c \in Chains, Listen(c) PROVE IInv'
  BY <1>4, ListenerStopKeeps, ListenerFatalKeeps, ReadBlockKeeps,
    StoreBlockKeeps, RouteKeeps DEF Listen
<1>5. ASSUME NEW m \in Messages, Resolve(m) PROVE IInv'
  BY <1>5, VoteKeeps, AbandonKeeps DEF Resolve
<1>6. CASE UNCHANGED vars
  BY <1>6, StutterKeeps
<1>7. QED
  BY <1>1, <1>2, <1>3, <1>4, <1>5, <1>6 DEF Next

\* IInv holds of every reachable state.
LEMMA Inductive == Spec => []IInv
BY InitIInv, StepIInv, PTL DEF Spec

\* The state of a relayer keeps its type: the retries of a block do not go below
\* zero, and no listener passes the last block.
THEOREM TypeCorrect == Spec => []TypeOK
<1>1. IInv => TypeOK BY DEF IInv
<1>2. QED BY <1>1, Inductive, PTL

\* No message for a configured chain is refused by the router, however the
\* start of the chains interleaves with their listeners (main.go, run).
THEOREM NoConfiguredRefused == Spec => []RefusedIsUnconfigured
<1>1. IInv => RefusedIsUnconfigured BY DEF IInv
<1>2. QED BY <1>1, Inductive, PTL

\* Whatever fails, stops, crashes or is read twice, and with whatever flags each
\* run is started, a message the listeners have passed is voted on, being
\* resolved, refused, or lost in a known way (left out by --latest among them).
THEOREM NothingDisappears == Spec => []PassedIsAccounted
<1>1. IInv => PassedIsAccounted
  <2>1. \A m \in Messages : SourceOf[m] \in Chains
    BY ConstantsAssumption
  <2>2. QED
    BY <2>1 DEF IInv, RoutedIsAccounted, RoutedOf, Initialised,
      PassedIsAccounted, Accounted
<1>2. QED BY <1>1, Inductive, PTL

LEMMA StoreIsAhead ==
  ASSUME IInv, [Next]_vars, mode = "stored", NEW c \in Chains
  PROVE  stored[c] <= stored'[c]
<1>1. stored \in [Chains -> 0 .. LastBlock] /\ stored[c] \in Int
  BY ConstantsAssumption DEF IInv, TypeOK
<1>2. ASSUME NEW d \in Chains, StoreBlock(d) PROVE stored[c] <= stored'[c]
  <2>1. stored' = stored \/ stored' = [stored EXCEPT ![d] = current[d]]
    BY <1>2 DEF StoreBlock
  <2>2. stored[d] <= current[d]
    <3>1. listener[d] = "route" BY <1>2 DEF StoreBlock
    <3>2. Resume(d) <= current[d]
      BY <3>1 DEF IInv, Resuming, Initialised
    <3>3. current[d] \in 1 .. LastBlock + 1 BY DEF IInv, TypeOK
    <3>4. QED BY <3>2, <3>3, ConstantsAssumption DEF Resume
  <2>3. QED BY <1>1, <2>1, <2>2
<1>3. ASSUME UNCHANGED stored PROVE stored[c] <= stored'[c] BY <1>1, <1>3
<1>4. ASSUME NEW d \in Chains, ListenerStop(d) \/ ListenerFatal(d)
                \/ ReadBlock(d) \/ PollFails(d) \/ RereadBlock(d) \/ HearListener(d)
      PROVE  UNCHANGED stored
  BY <1>4 DEF ListenerStop, ListenerFatal, ReadBlock, PollFails, RereadBlock,
    HearListener
<1>5. ASSUME NEW d \in Chains, NEW m \in Messages,
             \/ Route(d, m) \/ HearWriter(m) \/ Vote(m) \/ Abandon(m) \/ Report(m)
      PROVE  UNCHANGED stored
  BY <1>5 DEF Route, HearWriter, Vote, Abandon, Report
<1>6. ASSUME \/ InitializeChain \/ StartChain \/ StopChain \/ Return \/ Restart
             \/ StartUpError \/ Signal \/ Crash \/ UNCHANGED vars
      PROVE  UNCHANGED stored
  BY <1>6 DEF InitializeChain, StartChain, StopChain, Return, Restart,
    StartUpError, Signal, Crash, Exit, vars
<1>7. QED
  BY <1>2, <1>3, <1>4, <1>5, <1>6 DEF Next, Main, Listen, Resolve, Fault

\* A run without --fresh and --latest never moves a blockstore back, whatever
\* errors, stops, crashes and other runs, with whatever flags, came before it
\* (checkBlockstore, setupBlockstore).
THEOREM BlockstoreGrows == Spec => ProgressKept
<1>1. IInv /\ [Next]_vars =>
        [mode = "stored" => \A c \in Chains : stored[c] <= stored'[c]]_vars
  BY StoreIsAhead
<1>2. QED BY <1>1, Inductive, PTL DEF Spec, ProgressKept

-----------------------------------------------------------------------------
(* The connection.                                                         *)

Locked == {"gas", "nonce", "submit", "unlock", "unlockFailed"}

LockOwned == \A c \in Callers : pc[c] \in Locked => holder = c

OptsOwned ==
  \A c \in Callers :
    /\ pc[c] \in {"nonce", "submit"} => opts.priceBy = c
    /\ pc[c] = "submit" =>
         /\ opts.nonceBy = c
         /\ txs[opts.nonce] = NoTx
         /\ evicted \/ \A m \in Nonces : m < opts.nonce => txs[m] # NoTx

ConnIInv == ConnTypeOK /\ LockOwned /\ OptsOwned

-----------------------------------------------------------------------------
\* The product of two natural numbers is one.
LEMMA ProductIsNatural ==
  ASSUME NEW a \in Nat, NEW b \in Nat
  PROVE  a * b \in Nat
OBVIOUS

\* The quotient of two natural numbers is one.
LEMMA QuotientIsNatural ==
  ASSUME NEW a \in Nat, NEW b \in Nat \ {0}
  PROVE  a \div b \in Nat
OBVIOUS

\* SafeEstimateGas answers a price within the configured maximum.
LEMMA SafePricesAreSafe == SafePrices \subseteq 0 .. MaxGasPrice
<1>1. Suggested \subseteq Nat
  <2>1. \A a \in EgsAnswers : EgsPrice(a) \in Nat
    BY ConnAssumption, ProductIsNatural DEF EgsPrice, Larger
  <2>2. QED BY <2>1, ConnAssumption DEF Suggested
<1>2. ASSUME NEW s \in Nat PROVE Multiplied(s) \in Nat
  <2>1. s * Multiplier[1] \in Nat BY ConnAssumption, ProductIsNatural
  <2>2. QED BY <2>1, ConnAssumption, QuotientIsNatural DEF Multiplied
<1>3. ASSUME NEW g \in Nat PROVE Capped(g) \in 0 .. MaxGasPrice
  BY ConnAssumption DEF Capped
<1>4. QED BY <1>1, <1>2, <1>3 DEF SafePrices

-----------------------------------------------------------------------------
\* A failed attempt goes on to the next one or ends the loop.
LEMMA NextAttemptStays ==
  ASSUME ConnTypeOK, NEW c \in Callers, NextAttempt(c)
  PROVE  /\ tries' \in [Callers -> 0 .. TxRetryLimit - 1]
         /\ stop' \in BOOLEAN
         /\ pc' \in [Callers -> PCs]
         /\ pc'[c] \in {"top", "done"}
         /\ \A d \in Callers \ {c} : pc'[d] = pc[d]
<1>1. CASE AttemptsLeft(c)
  <2>1. /\ tries' = [tries EXCEPT ![c] = @ + 1] /\ stop' = stop
        /\ pc' = [pc EXCEPT ![c] = "top"]
    BY <1>1 DEF NextAttempt
  <2>2. tries[c] + 1 \in 0 .. TxRetryLimit - 1
    BY <1>1, ConnAssumption DEF ConnTypeOK, AttemptsLeft
  <2>3. QED BY <2>1, <2>2 DEF ConnTypeOK, PCs
<1>2. CASE ~AttemptsLeft(c)
  <2>1. tries' = tries /\ stop' = TRUE /\ pc' = [pc EXCEPT ![c] = "done"]
    BY <1>2 DEF NextAttempt
  <2>2. QED BY <2>1 DEF ConnTypeOK, PCs
<1>3. QED BY <1>1, <1>2

LEMMA ConnInitIInv == ConnInit => ConnIInv
<1> SUFFICES ASSUME ConnInit PROVE ConnIInv
  OBVIOUS
<1> USE ConnAssumption DEF ConnInit, Nonces, PCs
<1>1. ConnTypeOK
  <2>1. opts \in [price : 0 .. MaxGasPrice, priceBy : Callers \cup {NoCaller},
                  nonce : 0 .. MaxNonce, nonceBy : Callers \cup {NoCaller}]
    OBVIOUS
  <2>2. /\ tries \in [Callers -> 0 .. TxRetryLimit - 1]
        /\ mined \in 0 .. MaxNonce + 1
    OBVIOUS
  <2>3. QED BY <2>1, <2>2 DEF ConnTypeOK
<1>2. LockOwned BY DEF LockOwned, Locked
<1>3. OptsOwned BY DEF OptsOwned
<1>4. QED BY <1>1, <1>2, <1>3 DEF ConnIInv

LEMMA ConnIInvStep == ConnIInv /\ [ConnNext]_connVars => ConnIInv'
<1> SUFFICES ASSUME ConnIInv, [ConnNext]_connVars PROVE ConnIInv'
  OBVIOUS
<1> USE ConnAssumption DEF ConnIInv, nodeVars
<1>1. ASSUME NEW c \in Callers, Top(c) PROVE ConnIInv'
  <2>1. ConnTypeOK' BY <1>1 DEF Top, ConnTypeOK, PCs
  <2>2. LockOwned' BY <1>1 DEF Top, ConnTypeOK, LockOwned, Locked
  <2>3. OptsOwned' BY <1>1 DEF Top, ConnTypeOK, OptsOwned
  <2>4. QED BY <2>1, <2>2, <2>3
<1>2. ASSUME NEW c \in Callers, Lock(c) PROVE ConnIInv'
  <2>1. ConnTypeOK' BY <1>2 DEF Lock, ConnTypeOK, PCs
  <2>2. LockOwned' BY <1>2 DEF Lock, LockFree, ConnTypeOK, LockOwned, Locked
  <2>3. OptsOwned' BY <1>2 DEF Lock, ConnTypeOK, OptsOwned
  <2>4. QED BY <2>1, <2>2, <2>3
<1>3. ASSUME NEW c \in Callers, pc[c] \in Locked, UpdateFailed(c) PROVE ConnIInv'
  <2>1. /\ pc' \in [Callers -> PCs] /\ pc'[c] \in {"top", "done"}
        /\ \A d \in Callers \ {c} : pc'[d] = pc[d]
        /\ tries' \in [Callers -> 0 .. TxRetryLimit - 1] /\ stop' \in BOOLEAN
    <3>1. CASE NextAttempt(c) BY <3>1, NextAttemptStays
    <3>2. CASE ~NextAttempt(c) BY <1>3, <3>2 DEF UpdateFailed, ConnTypeOK, PCs
    <3>3. QED BY <3>1, <3>2
  <2>2. ConnTypeOK' BY <1>3, <2>1 DEF UpdateFailed, Released, ConnTypeOK
  <2>3. \A d \in Callers \ {c} : pc[d] \notin Locked
    BY <1>3 DEF LockOwned
  <2>4. \A d \in Callers : pc'[d] \notin Locked
    BY <2>1, <2>3 DEF Locked
  <2>5. LockOwned' /\ OptsOwned' BY <2>4 DEF LockOwned, OptsOwned, Locked
  <2>6. QED BY <2>2, <2>5
<1>4. ASSUME NEW c \in Callers, EstimateGas(c) PROVE ConnIInv'
  <2>1. CASE UpdateFailed(c) BY <1>4, <2>1, <1>3 DEF EstimateGas, Locked
  <2>2. CASE ~UpdateFailed(c)
    <3>1. PICK price \in 0 .. MaxGasPrice :
            opts' = [price |-> price, priceBy |-> c,
                     nonce |-> opts.nonce, nonceBy |-> opts.nonceBy]
      BY <1>4, <2>2, SafePricesAreSafe DEF EstimateGas
    <3>2. /\ pc[c] = "gas" /\ pc' = [pc EXCEPT ![c] = "nonce"]
          /\ UNCHANGED <<holder, tries, stop, txs, mined, evicted>>
      BY <1>4, <2>2 DEF EstimateGas
    <3>3. ConnTypeOK' BY <3>1, <3>2 DEF ConnTypeOK, PCs
    <3>4. LockOwned' BY <3>2 DEF ConnTypeOK, LockOwned, Locked
    <3>5. \A d \in Callers \ {c} : pc[d] \notin Locked
      BY <3>2 DEF LockOwned, Locked
    <3>6. OptsOwned' BY <3>1, <3>2, <3>5 DEF ConnTypeOK, OptsOwned, Locked
    <3>7. QED BY <3>3, <3>4, <3>6
  <2>3. QED BY <2>1, <2>2
<1>5. ASSUME NEW c \in Callers, UpdateNonce(c) PROVE ConnIInv'
  <2>1. CASE UpdateFailed(c) BY <1>5, <2>1, <1>3 DEF UpdateNonce, Locked
  <2>2. CASE ~UpdateFailed(c)
    <3>1. PICK n \in Nonces :
            /\ Pending(n)
            /\ opts' = [price |-> opts.price, priceBy |-> opts.priceBy,
                        nonce |-> n, nonceBy |-> c]
      BY <1>5, <2>2 DEF UpdateNonce
    <3>2. /\ pc[c] = "nonce" /\ pc' = [pc EXCEPT ![c] = "submit"]
          /\ UNCHANGED <<holder, tries, stop, txs, mined, evicted>>
      BY <1>5, <2>2 DEF UpdateNonce
    <3>3. ConnTypeOK' BY <3>1, <3>2 DEF ConnTypeOK, PCs
    <3>4. LockOwned' BY <3>2 DEF ConnTypeOK, LockOwned, Locked
    <3>5. \A d \in Callers \ {c} : pc[d] \notin Locked
      BY <3>2 DEF LockOwned, Locked
    <3>6. OptsOwned' BY <3>1, <3>2, <3>5 DEF ConnTypeOK, OptsOwned, Locked, Pending
    <3>7. QED BY <3>3, <3>4, <3>6
  <2>3. QED BY <2>1, <2>2
<1>6. ASSUME NEW c \in Callers, Submit(c) PROVE ConnIInv'
  <2>1. PICK l \in {"unlock", "unlockFailed"} :
          pc[c] = "submit" /\ pc' = [pc EXCEPT ![c] = l]
    BY <1>6 DEF Submit
  <2>2. txs' \in [Nonces -> [sender : Callers, price : 0 .. MaxGasPrice]
                              \cup {NoTx}]
    BY <1>6 DEF Submit, ConnTypeOK
  <2>3. ConnTypeOK' BY <1>6, <2>1, <2>2 DEF Submit, ConnTypeOK, PCs
  <2>4. LockOwned' BY <1>6, <2>1 DEF Submit, ConnTypeOK, LockOwned, Locked
  <2>5. \A d \in Callers \ {c} : pc[d] \notin Locked
    BY <2>1 DEF LockOwned, Locked
  <2>6. \A d \in Callers : pc'[d] \notin {"nonce", "submit"}
    BY <2>1, <2>5 DEF ConnTypeOK, Locked
  <2>7. OptsOwned' BY <2>6 DEF OptsOwned
  <2>8. QED BY <2>3, <2>4, <2>7
<1>7. ASSUME NEW c \in Callers, Unlock(c) PROVE ConnIInv'
  <2>1. ConnTypeOK' BY <1>7 DEF Unlock, ConnTypeOK, PCs
  <2>2. \A d \in Callers \ {c} : pc[d] \notin Locked
    BY <1>7 DEF Unlock, LockOwned, Locked
  <2>3. \A d \in Callers : pc'[d] \notin Locked
    BY <1>7, <2>2 DEF Unlock, ConnTypeOK, Locked
  <2>4. LockOwned' /\ OptsOwned' BY <2>3 DEF LockOwned, OptsOwned, Locked
  <2>5. QED BY <2>1, <2>4
<1>8. ASSUME NEW c \in Callers, Check(c) PROVE ConnIInv'
  <2>1. /\ pc' \in [Callers -> PCs] /\ pc'[c] \in {"top", "done"}
        /\ \A d \in Callers \ {c} : pc'[d] = pc[d]
        /\ tries' \in [Callers -> 0 .. TxRetryLimit - 1] /\ stop' \in BOOLEAN
    <3>1. CASE NextAttempt(c) BY <3>1, NextAttemptStays
    <3>2. CASE ~NextAttempt(c) BY <1>8, <3>2 DEF Check, ConnTypeOK, PCs
    <3>3. QED BY <3>1, <3>2
  <2>2. ConnTypeOK' BY <1>8, <2>1 DEF Check, ConnTypeOK
  <2>3. LockOwned' BY <1>8, <2>1 DEF Check, LockOwned, Locked
  <2>4. OptsOwned' BY <1>8, <2>1 DEF Check, OptsOwned
  <2>5. QED BY <2>2, <2>3, <2>4
<1>9. ASSUME Mine PROVE ConnIInv'
  <2>1. mined \in Nonces /\ mined' = mined + 1
    BY <1>9 DEF Mine
  <2>2. mined' \in 0 .. MaxNonce + 1 BY <2>1 DEF Nonces
  <2>3. ConnTypeOK' BY <1>9, <2>2 DEF Mine, ConnTypeOK
  <2>4. LockOwned' /\ OptsOwned' BY <1>9 DEF Mine, LockOwned, OptsOwned
  <2>5. QED BY <2>3, <2>4
<1>10. ASSUME NEW n \in Nonces, Evict(n) PROVE ConnIInv'
  <2>1. ConnTypeOK' BY <1>10 DEF Evict, ConnTypeOK
  <2>2. LockOwned' BY <1>10 DEF Evict, LockOwned
  <2>3. OptsOwned' BY <1>10 DEF Evict, ConnTypeOK, OptsOwned
  <2>4. QED BY <2>1, <2>2, <2>3
<1>11. ASSUME Stop PROVE ConnIInv'
  BY <1>11 DEF Stop, ConnTypeOK, LockOwned, OptsOwned
<1>12. ASSUME UNCHANGED connVars PROVE ConnIInv'
  BY <1>12 DEF connVars, ConnTypeOK, LockOwned, OptsOwned
<1>13. QED
  BY <1>1, <1>2, <1>4, <1>5, <1>6, <1>7, <1>8, <1>9, <1>10, <1>11, <1>12
     DEF ConnNext, Step

LEMMA ConnInvariance == ConnSpec => []ConnIInv
BY ConnInitIInv, ConnIInvStep, PTL DEF ConnSpec

-----------------------------------------------------------------------------
\* Every variable keeps its type, the shared gas price its bound included.
THEOREM ConnTypeCorrect == ConnSpec => []ConnTypeOK
<1>1. ConnIInv => ConnTypeOK BY DEF ConnIInv
<1>2. QED BY <1>1, ConnInvariance, PTL

\* A caller submits with the price and the nonce it has fetched itself, however
\* many callers there are and whatever fails.
THEOREM OptsAreOwned == ConnSpec => []SubmitsOwnOpts
<1>1. ConnIInv => SubmitsOwnOpts BY DEF ConnIInv, OptsOwned, SubmitsOwnOpts
<1>2. QED BY <1>1, ConnInvariance, PTL

\* The initial node maps to the empty lane.
LEMMA LaneStarts == ConnInit => Lane!LaneInit
BY DEF ConnInit, Lane!LaneInit

\* Every step places a transaction on a free nonce, evicts one, or leaves the
\* lane alone.
LEMMA LaneMoves ==
  ASSUME ConnIInv, [ConnNext]_connVars
  PROVE  [Lane!LaneNext]_<<txs, evicted>>
<1> USE DEF ConnIInv, nodeVars
<1>1. ASSUME NEW c \in Callers, Submit(c)
      PROVE  Lane!LaneNext \/ UNCHANGED <<txs, evicted>>
  <2>1. CASE UNCHANGED txs BY <1>1, <2>1 DEF Submit
  <2>2. CASE ~UNCHANGED txs
    <3> DEFINE n == opts.nonce
               price == opts.price
    <3>1. /\ pc[c] = "submit" /\ UNCHANGED evicted
          /\ txs' = [txs EXCEPT ![n] = [sender |-> c, price |-> price]]
      BY <1>1, <2>2 DEF Submit
    <3>2. n \in Nonces /\ price \in 0 .. MaxGasPrice BY DEF ConnTypeOK
    <3>3. Lane!Empty(n) BY <3>1 DEF OptsOwned, Lane!Empty
    <3>4. Lane!Front(n) \/ evicted
      BY <3>1 DEF OptsOwned, Lane!Front, Lane!Empty
    <3>5. txs'[n] = [sender |-> c, price |-> price]
      BY <3>1, <3>2 DEF ConnTypeOK
    <3>6. txs'[n] \in [sender : Callers, price : 0 .. MaxGasPrice]
      BY <3>2, <3>5
    <3>7. txs' = [txs EXCEPT ![n] = txs'[n]] BY <3>1, <3>5
    <3>8. Lane!Place(n) BY <3>1, <3>3, <3>4, <3>6, <3>7 DEF Lane!Place
    <3>9. QED BY <3>2, <3>8 DEF Lane!LaneNext
  <2>3. QED BY <2>1, <2>2
<1>2. ASSUME NEW n \in Nonces, Evict(n) PROVE Lane!LaneNext
  <2>1. Lane!Evict(n) BY <1>2 DEF Evict, Lane!Evict, Lane!Empty
  <2>2. QED BY <2>1 DEF Lane!LaneNext
<1>3. ASSUME NEW c \in Callers,
             Top(c) \/ Lock(c) \/ EstimateGas(c) \/ UpdateNonce(c)
               \/ Unlock(c) \/ Check(c)
      PROVE  UNCHANGED <<txs, evicted>>
  BY <1>3 DEF Top, Lock, EstimateGas, UpdateNonce, UpdateFailed, Unlock, Check
<1>4. ASSUME Mine \/ Stop \/ UNCHANGED connVars PROVE UNCHANGED <<txs, evicted>>
  BY <1>4 DEF Mine, Stop, connVars
<1>5. QED BY <1>1, <1>2, <1>3, <1>4 DEF ConnNext, Step

\* The connection implements the lane: its transactions never replace each
\* other, never pay more than the maximum, and leave no gap unless the node
\* evicts one.
THEOREM LaneImplemented == ConnSpec => ImplementsLane
<1>1. ConnIInv /\ [ConnNext]_connVars => [Lane!LaneNext]_<<txs, evicted>>
  BY LaneMoves
<1>2. QED
  BY LaneStarts, <1>1, ConnInvariance, PTL DEF ConnSpec, ImplementsLane, Lane!LaneSpec
==============================================================================
