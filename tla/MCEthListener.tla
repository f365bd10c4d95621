---------------------------- MODULE MCEthListener ----------------------------
(* Instances of EthListener for TLC: deposits are the strings below, and a   *)
(* block carries at most two of them.                                        *)
EXTENDS EthListener

AllDeposits == {"e20", "gen", "unk"}
AllKinds == [d \in AllDeposits |->
  CASE d = "e20" -> "erc20"
    [] d = "gen" -> "generic"
    [] d = "unk" -> "unknown"]

\* Deposits for handlers the relayer knows only.
KnownDeposits == {"e20", "gen"}
KnownKinds == [d \in KnownDeposits |-> AllKinds[d]]

UpToTwo(D) ==
  {<<>>} \cup {<<d>> : d \in D}
    \cup {p \in D \X D : p[1] # p[2]}
ContentsKnown == UpToTwo(KnownDeposits)
ContentsAll == UpToTwo(AllDeposits)
=============================================================================
