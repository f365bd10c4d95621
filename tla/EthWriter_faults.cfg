SPECIFICATION Spec
CONSTANTS
  r1 = r1
  r2 = r2
  x = x
  y = y
  Relayers = {r1, r2}
  Deposits = {d1}
  Data = {x, y}
  Read <- OtherForks
  MaxDeliveries = 1
  Thresholds = {1}
  Expiry = 1
  MaxBlock = 3
  Confirmations = 1
  BlockRetryLimit = 1
  TxRetryLimit = 2
  WatchLimit = 3
  Faults = {"query", "submit", "evict", "cancel", "stop", "crash"}
CHECK_DEADLOCK FALSE
SYMMETRY ForkSymmetry
INVARIANTS
  TypeOK
  ExecuteOnlyPassed
  VotersWillExecute
  NoEventMissed
