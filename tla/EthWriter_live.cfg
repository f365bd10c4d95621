SPECIFICATION FairSpec
CONSTANTS
  r1 = r1
  r2 = r2
  x = x
  y = y
  Relayers = {r1, r2}
  Deposits = {d1}
  Data = {x}
  Read <- SameFork
  MaxDeliveries = 1
  Thresholds = {1, 2}
  Expiry = 9
  MaxBlock = 5
  Confirmations = 1
  BlockRetryLimit = 1
  TxRetryLimit = 1
  WatchLimit = 4
  Faults = {}
CHECK_DEADLOCK FALSE
PROPERTIES
  DeliveredIsDecided
  PassedIsExecuted
