------------------------------ MODULE MCDelivery ------------------------------
(***************************************************************************)
(* Two relayers, either of which decides alone, and two deposits that      *)
(* compete for a nonce on two forks.                                       *)
(***************************************************************************)
EXTENDS Delivery
==============================================================================
