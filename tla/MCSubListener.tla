----------------------------- MODULE MCSubListener -----------------------------
(* Instances of SubListener for TLC. *)
EXTENDS SubListener, TLC

CONSTANTS f1, n1, g1

AllKinds == f1 :> "fungible" @@ n1 :> "nonFungible" @@ g1 :> "generic"
AllContents == {{}, {f1, n1}, {g1}}
===============================================================================
