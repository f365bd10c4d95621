---------------------------- MODULE MCEthConnection ----------------------------
(* Instances of EthConnection for TLC. *)
EXTENDS EthConnection

CONSTANTS v1, x1

OneAndAHalf == <<3, 2>>
===============================================================================
