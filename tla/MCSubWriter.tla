------------------------------ MODULE MCSubWriter ------------------------------
(* Instances of SubWriter for TLC. *)
EXTENDS SubWriter, TLC

CONSTANTS ga, gb, pa, pb

OwnProposals == ga :> pa @@ gb :> pb
===============================================================================
