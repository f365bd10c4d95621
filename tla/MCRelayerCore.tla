----------------------------- MODULE MCRelayerCore -----------------------------
(* Instances of RelayerCore for TLC: a deposit on an Ethereum chain, 1, for  *)
(* a Substrate chain, 2, and one in the same block for a chain that is not   *)
(* configured; the other blocks are empty.                                   *)
EXTENDS RelayerCore, TLC

CONSTANTS m1, m2

Sources == m1 :> 1 @@ m2 :> 1
Destinations == m1 :> 2 @@ m2 :> 3
DepositBlocks == m1 :> 1 @@ m2 :> 1
===============================================================================
