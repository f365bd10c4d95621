------------------------------ MODULE RelayerCore ------------------------------
(***************************************************************************)
(* One relayer process as a whole: cmd/chainbridge/main.go, the Start and  *)
(* Stop of both kinds of chain (chains/*/chain.go), and what their         *)
(* listeners and writers do to each other through the router, the          *)
(* blockstores and the unbuffered channel sysErr.                          *)
(*                                                                         *)
(* Listeners and writers are coarser here than in the modules of their     *)
(* own: a listener reads a final block at once and routes its messages one *)
(* by one, and a message is resolved in one step, to a vote or not.  The   *)
(* core and the router are external libraries, modelled from how main.go   *)
(* and the chains use them.                                                *)
(***************************************************************************)
EXTENDS Integers

CONSTANTS
  NumChains,        \* the chains of the configuration file, in its order
  SubstrateChains,  \* those whose listener may refuse to start
  Messages,         \* one for each deposit
  SourceOf,         \* SourceOf[m]: the chain of the deposit
  DestOf,           \* DestOf[m]: the chain it is for, perhaps not configured
  BlockOf,          \* BlockOf[m]: the block of the deposit
  LastBlock,        \* bound: the last block of each chain
  StartModes,       \* how an operator starts it: subset of Modes
  BlockRetryLimit,  \* attempts at a block before a listener gives up
  MaxRunning,       \* bound: goroutines that resolve one message at a time
  Faults            \* what may go wrong: subset of FaultKinds

\* A chain that cannot be initialised or started, a query of a listener that
\* fails, a blockstore that is not written, a message that is not voted on, one
\* that ends in a fatal error, a signal, and a crash.
FaultKinds == {"init", "start", "rpc", "store", "vote", "fatalTx", "signal",
               "crash"}

\* Without a flag, with --fresh, and with --latest (which overrides --fresh).
Modes == {"stored", "fresh", "latest"}

Chains == 1 .. NumChains
Blocks == 1 .. LastBlock

ASSUME ConstantsAssumption ==
  /\ NumChains \in Nat \ {0}
  /\ SubstrateChains \subseteq Chains
  /\ SourceOf \in [Messages -> Chains]
  /\ DestOf \in [Messages -> Int]
  /\ BlockOf \in [Messages -> Blocks]
  /\ LastBlock \in Nat
  /\ StartModes \subseteq Modes
  /\ BlockRetryLimit \in Nat \ {0}
  /\ MaxRunning \in Nat \ {0}
  /\ Faults \subseteq FaultKinds

VARIABLES
  core,        \* where main is
  at,          \* the chain its loop has come to
  mode,        \* the flags of this run
  registered,  \* chains whose writer the router knows
  stopped,     \* chains whose stop channel is closed
  listener,    \* listener[c]: where the polling goroutine of c is
  current,     \* current[c]: the block it is at
  retry,       \* retry[c]: the attempts it has left
  todo,        \* todo[c]: messages of that block that are not routed yet
  stored,      \* stored[c]: the block in the blockstore file of c, or 0
  running,     \* running[m]: goroutines that resolve message m
  reporting,   \* reporting[m]: those of m that send an error on sysErr
  voted,       \* messages this relayer has voted on
  lost,        \* history: messages that were given up, or left out by --latest
  refused      \* history: messages the router did not take

chainVars == <<listener, current, retry, todo>>
messageVars == <<running, reporting, voted, lost, refused>>
vars == <<core, at, mode, registered, stopped, listener, current, retry, todo,
          stored, running, reporting, voted, lost, refused>>

CorePCs == {"init", "start", "wait", "stop", "exited"}
ListenerPCs == {"off", "poll", "route", "report", "gone"}

-----------------------------------------------------------------------------
(* main.                                                                   *)

\* The process ends, and with it every goroutine; only the blockstore stays.
Unresolved == {m \in Messages : running[m] + reporting[m] > 0}
Exit ==
  /\ core' = "exited" /\ at' = 1
  /\ registered' = {} /\ stopped' = {}
  /\ listener' = [c \in Chains |-> "off"]
  /\ current' = [c \in Chains |-> 1]
  /\ retry' = [c \in Chains |-> BlockRetryLimit]
  /\ todo' = [c \in Chains |-> {}]
  /\ running' = [m \in Messages |-> 0]
  /\ reporting' = [m \in Messages |-> 0]
  /\ lost' = lost \cup (Unresolved \ voted)
  /\ UNCHANGED <<mode, stored, voted, refused>>

\* The loops of main and of the core go through the chains in their order.
NextChain(phase, next) ==
  /\ core' = IF at < NumChains THEN phase ELSE next
  /\ at' = IF at < NumChains THEN at + 1 ELSE 1

\* The later of startBlock, which is 1, and the block in the blockstore.
Resume(c) == IF stored[c] = 0 THEN 1 ELSE stored[c]

\* The block a listener begins at: --fresh leaves the blockstore aside, and
\* --latest takes what the node says is its newest block.
FirstBlocks(c) ==
  IF mode = "latest" THEN Blocks
  ELSE IF mode = "fresh" THEN {1} ELSE {Resume(c)}

Below(c, b) == {m \in Messages : SourceOf[m] = c /\ BlockOf[m] < b}

StartedAtOnce == "poll"
NotStarted == "off"

\* InitializeChain loads the blockstore, connects, and makes the listener and
\* the writer; AddChain registers the writer with the router.  With --latest
\* the messages of the blocks below are left out.
InitializeChain ==
  /\ core = "init"
  /\ registered' = registered \cup {at}
  /\ \E b \in FirstBlocks(at) :
       /\ current' = [current EXCEPT ![at] = b]
       /\ lost' = IF mode = "latest"
                  THEN lost \cup (Below(at, b) \ (voted \cup refused))
                  ELSE lost
  /\ listener' = [listener EXCEPT ![at] = NotStarted]
  /\ retry' = [retry EXCEPT ![at] = BlockRetryLimit]
  /\ NextChain("init", "start")
  /\ UNCHANGED <<stopped, todo, mode, stored, running, reporting, voted, refused>>

\* Chain.Start starts the goroutine of the listener.
StartChain ==
  /\ core = "start"
  /\ listener' = [listener EXCEPT ![at] = "poll"]
  /\ NextChain("start", "wait")
  /\ UNCHANGED <<registered, stopped, current, retry, todo, mode, stored,
                 messageVars>>

\* An error ends main; so does a listener that does not start.
StartUpError ==
  /\ \/ core = "init" /\ "init" \in Faults
     \/ core = "start" /\ "start" \in Faults /\ at \in SubstrateChains
  /\ Exit

\* The core waits for a signal, or for an error.
Signal ==
  /\ core = "wait" /\ "signal" \in Faults
  /\ core' = "stop"
  /\ UNCHANGED <<at, registered, stopped, chainVars, mode, stored, messageVars>>

\* A send on sysErr and the receive of the core are one step.
HearListener(c) ==
  /\ core = "wait" /\ listener[c] = "report"
  /\ core' = "stop"
  /\ listener' = [listener EXCEPT ![c] = "gone"]
  /\ UNCHANGED <<at, registered, stopped, current, retry, todo, mode, stored,
                 messageVars>>

HearWriter(m) ==
  /\ core = "wait" /\ reporting[m] > 0
  /\ core' = "stop"
  /\ reporting' = [reporting EXCEPT ![m] = @ - 1]
  /\ lost' = IF m \in voted THEN lost ELSE lost \cup {m}
  /\ UNCHANGED <<at, registered, stopped, chainVars, mode, stored, running,
                 voted, refused>>

\* Chain.Stop, for one chain after the other.
StopChain ==
  /\ core = "stop" /\ at \notin stopped
  /\ stopped' = stopped \cup {at}
  /\ at' = IF at < NumChains THEN at + 1 ELSE at
  /\ UNCHANGED <<core, registered, chainVars, mode, stored, messageVars>>

ReturnAfterReports ==
  /\ core = "stop" /\ stopped = Chains
  /\ \A c \in Chains : listener[c] # "report"
  /\ Exit

\* The core returns, and main with it.
Return == core = "stop" /\ stopped = Chains /\ Exit

Crash == core # "exited" /\ "crash" \in Faults /\ Exit

\* The operator starts the process again.  What the listeners read once more,
\* going on from the blockstore, is no longer lost.
Restart ==
  /\ core = "exited"
  /\ core' = "init"
  /\ mode' \in StartModes
  /\ lost' = {m \in lost : BlockOf[m] < Resume(SourceOf[m])}
  /\ UNCHANGED <<at, registered, stopped, chainVars, stored, running, reporting,
                 voted, refused>>

-----------------------------------------------------------------------------
(* A listener.                                                             *)

InBlock(c, b) == {m \in Messages : SourceOf[m] = c /\ BlockOf[m] = b}

\* The top of the loop looks at the stop channel.
ListenerStop(c) ==
  /\ listener[c] = "poll" /\ c \in stopped
  /\ listener' = [listener EXCEPT ![c] = "gone"]
  /\ UNCHANGED <<core, at, registered, stopped, current, retry, todo, mode,
                 stored, messageVars>>

Polling(c) == listener[c] = "poll" /\ c \notin stopped

RetriesLeftOrNone(c) == retry[c] >= 0
RetriesLeft(c) == retry[c] > 0
UseRetry(c) == retry' = [retry EXCEPT ![c] = @ - 1]

\* What the comment of pollBlocks says of a block that cannot be parsed.
ContinueWithNextBlock(c) ==
  /\ Polling(c) /\ ~RetriesLeft(c) /\ current[c] <= LastBlock
  /\ current' = [current EXCEPT ![c] = @ + 1]
  /\ retry' = [retry EXCEPT ![c] = BlockRetryLimit]
  /\ UNCHANGED <<core, at, registered, stopped, listener, todo, mode, stored,
                 messageVars>>

\* The retries are used up: the goroutine sends an error on sysErr.
ListenerFatal(c) ==
  /\ Polling(c) /\ ~RetriesLeft(c)
  /\ listener' = [listener EXCEPT ![c] = "report"]
  /\ UNCHANGED <<core, at, registered, stopped, current, retry, todo, mode,
                 stored, messageVars>>

\* The last block, or what is in the block, cannot be queried.
PollFails(c) ==
  /\ Polling(c) /\ RetriesLeft(c) /\ "rpc" \in Faults
  /\ UseRetry(c)
  /\ UNCHANGED <<core, at, registered, stopped, listener, current, todo, mode,
                 stored, messageVars>>

ReadBlock(c) ==
  /\ Polling(c) /\ RetriesLeft(c) /\ current[c] <= LastBlock
  /\ listener' = [listener EXCEPT ![c] = "route"]
  /\ todo' = [todo EXCEPT ![c] = InBlock(c, current[c])]
  /\ UNCHANGED <<core, at, registered, stopped, current, retry, mode, stored,
                 messageVars>>

SkipRest(c) ==
  /\ listener[c] = "route" /\ todo[c] # {} /\ "rpc" \in Faults
  /\ todo' = [todo EXCEPT ![c] = {}]
  /\ UNCHANGED <<core, at, registered, stopped, listener, current, retry, mode,
                 stored, messageVars>>

\* An error between two messages: the block is read again, from its start.
RereadBlock(c) ==
  /\ listener[c] = "route" /\ todo[c] # {} /\ "rpc" \in Faults
  /\ \A m \in InBlock(c, current[c]) : running[m] + reporting[m] < MaxRunning
  /\ listener' = [listener EXCEPT ![c] = "poll"]
  /\ UseRetry(c)
  /\ todo' = [todo EXCEPT ![c] = {}]
  /\ UNCHANGED <<core, at, registered, stopped, current, mode, stored,
                 messageVars>>

\* router.Send starts a goroutine of the destination's writer, or returns an
\* error, which is only logged.
Route(c, m) ==
  /\ listener[c] = "route" /\ m \in todo[c]
  /\ IF DestOf[m] \in registered
     THEN running' = [running EXCEPT ![m] = @ + 1] /\ UNCHANGED refused
     ELSE refused' = refused \cup {m} /\ UNCHANGED running
  /\ todo' = [todo EXCEPT ![c] = @ \ {m}]
  /\ UNCHANGED <<core, at, registered, stopped, listener, current, retry, mode,
                 stored, reporting, voted, lost>>

\* The blockstore is written when the messages are routed, not when they are
\* resolved; that it cannot be written is only logged.
StoreBlock(c) ==
  /\ listener[c] = "route" /\ todo[c] = {}
  /\ \/ stored' = [stored EXCEPT ![c] = current[c]]
     \/ "store" \in Faults /\ UNCHANGED stored
  /\ current' = [current EXCEPT ![c] = @ + 1]
  /\ retry' = [retry EXCEPT ![c] = BlockRetryLimit]
  /\ listener' = [listener EXCEPT ![c] = "poll"]
  /\ UNCHANGED <<core, at, registered, stopped, todo, mode, messageVars>>

-----------------------------------------------------------------------------
(* A goroutine that resolves message m.                                    *)

Finish(m) == running' = [running EXCEPT ![m] = @ - 1]

Vote(m) ==
  /\ running[m] > 0
  /\ Finish(m)
  /\ voted' = voted \cup {m}
  /\ lost' = lost \ {m}
  /\ UNCHANGED <<core, at, registered, stopped, chainVars, mode, stored,
                 reporting, refused>>

\* It returns without a vote, after an error or because its chain is stopped.
Abandon(m) ==
  /\ running[m] > 0 /\ ("vote" \in Faults \/ DestOf[m] \in stopped)
  /\ Finish(m)
  /\ lost' = IF m \in voted THEN lost ELSE lost \cup {m}
  /\ UNCHANGED <<core, at, registered, stopped, chainVars, mode, stored,
                 reporting, voted, refused>>

\* ErrFatalTx, ErrFatalQuery, or a proposal that cannot be constructed.
Report(m) ==
  /\ running[m] > 0 /\ "fatalTx" \in Faults
  /\ Finish(m)
  /\ reporting' = [reporting EXCEPT ![m] = @ + 1]
  /\ UNCHANGED <<core, at, registered, stopped, chainVars, mode, stored, voted,
                 lost, refused>>

-----------------------------------------------------------------------------
Init ==
  /\ core = "init" /\ at = 1 /\ mode \in StartModes
  /\ registered = {} /\ stopped = {}
  /\ listener = [c \in Chains |-> "off"]
  /\ current = [c \in Chains |-> 1]
  /\ retry = [c \in Chains |-> BlockRetryLimit]
  /\ todo = [c \in Chains |-> {}]
  /\ stored = [c \in Chains |-> 0]
  /\ running = [m \in Messages |-> 0]
  /\ reporting = [m \in Messages |-> 0]
  /\ voted = {} /\ lost = {} /\ refused = {}

Main ==
  \/ InitializeChain \/ StartChain \/ StopChain \/ Return
  \/ \E c \in Chains : HearListener(c)
  \/ \E m \in Messages : HearWriter(m)

Listen(c) ==
  \/ ListenerStop(c) \/ ListenerFatal(c) \/ ReadBlock(c) \/ StoreBlock(c)
  \/ \E m \in Messages : Route(c, m)

Resolve(m) == Vote(m) \/ (DestOf[m] \in stopped /\ Abandon(m))

Fault ==
  \/ StartUpError \/ Signal \/ Crash
  \/ \E c \in Chains : PollFails(c) \/ RereadBlock(c)
  \/ \E m \in Messages : Abandon(m) \/ Report(m)

Next ==
  \/ Main \/ Restart \/ Fault
  \/ \E c \in Chains : Listen(c)
  \/ \E m \in Messages : Resolve(m)

Spec == Init /\ [][Next]_vars

\* The Go scheduler runs main and every goroutine, and an operator starts the
\* relayer again.
FairSpec ==
  /\ Spec
  /\ WF_vars(Main) /\ WF_vars(Restart)
  /\ \A c \in Chains : WF_vars(Listen(c))
  /\ \A m \in Messages : WF_vars(Resolve(m))

-----------------------------------------------------------------------------
(* Properties.                                                             *)

\* Every variable keeps its type.
TypeOK ==
  /\ core \in CorePCs /\ at \in Chains /\ mode \in StartModes
  /\ registered \subseteq Chains /\ stopped \subseteq Chains
  /\ listener \in [Chains -> ListenerPCs]
  /\ current \in [Chains -> 1 .. LastBlock + 1]
  /\ retry \in [Chains -> 0 .. BlockRetryLimit]
  /\ todo \in [Chains -> SUBSET Messages]
  /\ stored \in [Chains -> 0 .. LastBlock]
  /\ running \in [Messages -> 0 .. MaxRunning]
  /\ reporting \in [Messages -> 0 .. MaxRunning]
  /\ voted \subseteq Messages /\ lost \subseteq Messages
  /\ refused \subseteq Messages

\* main initialises every chain before it starts the first, so no listener
\* finds the router without the writer of a chain of the configuration, and
\* only messages for other chains are refused.
RefusedIsUnconfigured == \A m \in refused : DestOf[m] \notin Chains

\* Where a message is that its listener has passed, or would pass over after a
\* restart: voted on, being resolved, or lost by a failure of its goroutine or
\* an end of the process; errors, rereads and restarts make none disappear.
PassedIsAccounted ==
  \A m \in Messages :
    BlockOf[m] < (IF listener[SourceOf[m]] = "off" THEN Resume(SourceOf[m])
                  ELSE current[SourceOf[m]])
      => m \in voted \cup lost \cup refused \cup Unresolved

\* In a run without --fresh and --latest no blockstore goes back, whatever ended
\* the earlier runs, with whatever flags, between the reading of a block and its
\* storing.  (With --fresh it goes back to the first block on purpose, and with
\* --latest to the newest block of a node that lags.)
ProgressKept ==
  [][mode = "stored" => \A c \in Chains : stored[c] <= stored'[c]]_vars

\* A stop or a crash costs at most the messages of the blocks below the one in
\* the blockstore: a message of that block, or of a later one, is read again and
\* voted on, unless it fails again or the process ends again.
RestartResolves ==
  \A m \in Messages :
    (core = "init" /\ BlockOf[m] >= Resume(SourceOf[m]))
      ~> (m \in voted \cup lost \cup refused \/ core = "exited")

\* Whoever reports a fatal error, before or after the core begins to wait: the
\* process ends.  (Of several that report, all but one are never heard.)
FatalEndsProcess ==
  (\/ \E c \in Chains : listener[c] = "report"
   \/ \E m \in Messages : reporting[m] > 0)
    ~> core = "exited"
===============================================================================
