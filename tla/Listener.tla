------------------------------- MODULE Listener -------------------------------
(***************************************************************************)
(* What the listener of any chain promises the rest of the relayer.  It    *)
(* takes the final blocks one after the other, and goes to the next one    *)
(* when each deposit of the block has been routed, or dropped in a way     *)
(* that the listener's own module names.  After a restart it goes on from  *)
(* the configured block, or from the one it has noted, which it has        *)
(* finished.                                                               *)
(*                                                                         *)
(* EthListener and SubListener are shown to implement this specification.  *)
(***************************************************************************)
EXTENDS Integers

CONSTANTS
  First      \* the configured block

VARIABLES
  ledger,    \* ledger[b]: the deposits of block b, for the blocks that are final
  next,      \* the block at hand
  noted,     \* a block it has finished, or 0
  routed,    \* deposits whose message was routed
  dropped    \* deposits that were dropped

intakeVars == <<next, noted, routed, dropped>>

Final(b) == b \in DOMAIN ledger
Settled(b) == ledger[b] \subseteq routed \cup dropped

ListenerInit ==
  /\ \A b \in DOMAIN ledger : ledger[b] = {}
  /\ next = First /\ noted = 0
  /\ routed = {} /\ dropped = {}

\* More blocks become final, for good.
Finalize ==
  /\ DOMAIN ledger \subseteq DOMAIN ledger'
  /\ \A b \in DOMAIN ledger : ledger'[b] = ledger[b]
  /\ UNCHANGED intakeVars

\* Deposits of the block at hand are handled, some for the second time.
Route ==
  /\ Final(next)
  /\ routed' \ routed \subseteq ledger[next] /\ routed \subseteq routed'
  /\ UNCHANGED <<ledger, next, noted, dropped>>

Drop ==
  /\ Final(next)
  /\ dropped' \ dropped \subseteq ledger[next] /\ dropped \subseteq dropped'
  /\ UNCHANGED <<ledger, next, noted, routed>>

\* The block is finished, which may be noted or not.
Pass ==
  /\ Final(next) /\ Settled(next)
  /\ next' = next + 1
  /\ noted' \in {noted, next}
  /\ UNCHANGED <<ledger, routed, dropped>>

Restart ==
  /\ next' = First \/ (next' = noted /\ noted >= First)
  /\ UNCHANGED <<ledger, noted, routed, dropped>>

ListenerNext == Finalize \/ Route \/ Drop \/ Pass \/ Restart

ListenerSpec ==
  ListenerInit /\ [][ListenerNext]_<<ledger, next, noted, routed, dropped>>
===============================================================================
