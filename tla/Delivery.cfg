CONSTANTS
  Relayers = {r1, r2}
  Data = {a, b}
  NoDeposit = none
  MaxBlock = 2
  ReorgDepth = 1
  Confirmations = 1
  Threshold = 1
  MaxCrashes = 1
  Faults = {"store", "abandon", "fresh", "cancel"}
SPECIFICATION FairSpec
INVARIANTS TypeOK
PROPERTIES ImplementsBridge FinalIsDelivered
CHECK_DEADLOCK FALSE
