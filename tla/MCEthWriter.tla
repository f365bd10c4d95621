----------------------------- MODULE MCEthWriter -----------------------------
(* Instances of EthWriter for TLC: two relayers read one deposit, on the     *)
(* same fork of its source chain or on two forks with other data.            *)
EXTENDS EthWriter, TLC

CONSTANTS r1, r2, x, y

SameFork == r1 :> {x} @@ r2 :> {x}
OtherForks == r1 :> {x} @@ r2 :> {y}

\* Relayers may be exchanged together with the data they read.
ForkSymmetry ==
  {f \in Permutations(Relayers \cup Data) :
     \A r \in Relayers : f[r] \in Relayers /\ Read[f[r]] = {f[d] : d \in Read[r]}}
=============================================================================
