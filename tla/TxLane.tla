-------------------------------- MODULE TxLane --------------------------------
(***************************************************************************)
(* What the relayer's account looks like to those who write to the chain   *)
(* with it: a lane of nonces that is filled from the front.  A transaction *)
(* is placed once, on a nonce nothing else holds, and no later one of the  *)
(* account takes its place.  Only the node can empty a nonce again.        *)
(*                                                                         *)
(* A writer's own module names what may leave a gap: an eviction, a        *)
(* submission that fails, a nonce that is written without the lock.        *)
(*                                                                         *)
(* EthConnection, EthClient and SubWriter are shown to implement this      *)
(* specification.                                                          *)
(***************************************************************************)
EXTENDS Integers

CONSTANTS
  Nonces,
  Txs,       \* what may be placed
  NoTx

VARIABLES
  lane,      \* lane[n]: the transaction with nonce n, or NoTx
  disturbed  \* something has happened that may leave a gap

Empty(n) == lane[n] = NoTx

\* Nothing below n is empty.
Front(n) == \A m \in Nonces : m < n => ~Empty(m)

LaneInit ==
  /\ lane = [n \in Nonces |-> NoTx]
  /\ disturbed = FALSE

\* A transaction is placed, at the front of the lane unless it is disturbed.
Place(n) ==
  /\ Empty(n)
  /\ Front(n) \/ disturbed
  /\ lane'[n] \in Txs
  /\ lane' = [lane EXCEPT ![n] = lane'[n]]
  /\ UNCHANGED disturbed

Evict(n) ==
  /\ ~Empty(n)
  /\ lane' = [lane EXCEPT ![n] = NoTx]
  /\ disturbed' = TRUE

Disturb == disturbed' = TRUE /\ UNCHANGED lane

LaneNext == Disturb \/ \E n \in Nonces : Place(n) \/ Evict(n)

LaneSpec == LaneInit /\ [][LaneNext]_<<lane, disturbed>>

===============================================================================
