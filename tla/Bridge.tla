-------------------------------- MODULE Bridge --------------------------------
(***************************************************************************)
(* What the bridge promises the users of two chains: every deposit that    *)
(* has become final on the source chain is executed on the destination     *)
(* chain at most once, with the data it was made with, and nothing else is *)
(* executed.  A deposit is known by its nonce, the count that the source   *)
(* chain gives it.                                                         *)
(*                                                                         *)
(* Delivery is shown to implement this specification.                      *)
(***************************************************************************)
EXTENDS Sequences

CONSTANTS
  Nonces,
  Data,
  NoDeposit

VARIABLES
  final,       \* final[n]: the data of deposit n once it is final, or NoDeposit
  executions   \* executions[n]: the data executed for deposit n, in order

BridgeInit ==
  /\ final = [n \in Nonces |-> NoDeposit]
  /\ executions = [n \in Nonces |-> <<>>]

\* A deposit becomes final, for good.
Finalize(n) ==
  /\ final[n] = NoDeposit
  /\ \E d \in Data : final' = [final EXCEPT ![n] = d]
  /\ UNCHANGED executions

\* It is executed, once.
Deliver(n) ==
  /\ final[n] # NoDeposit
  /\ executions[n] = <<>>
  /\ executions' = [executions EXCEPT ![n] = <<final[n]>>]
  /\ UNCHANGED final

BridgeNext == \E n \in Nonces : Finalize(n) \/ Deliver(n)

BridgeSpec == BridgeInit /\ [][BridgeNext]_<<final, executions>>

\* What has been executed is one final deposit, with its own data.
ExecutedOnce ==
  \A n \in Nonces :
    \/ executions[n] = <<>>
    \/ final[n] # NoDeposit /\ executions[n] = <<final[n]>>

\* An execution is never repeated, and its deposit never replaced.
NothingTakenBack ==
  [][\A n \in Nonces :
       executions[n] # <<>> => UNCHANGED <<final[n], executions[n]>>]_<<final, executions>>

==============================================================================
