SPECIFICATION ConnFairSpec
CONSTANTS
  v1 = v1
  x1 = x1
  Callers = {v1, x1}
  Voters = {v1}
  TxRetryLimit = 2
  MaxNonce = 4
  MaxGasPrice = 3
  Multiplier <- OneAndAHalf
  NodePrices = {3}
  EgsAnswers = {0}
  EgsUnit = 1
  NoTx = NoTx
  NoCaller = NoCaller
  ConnFaults = {"egs", "rpc", "refuse", "lostAnswer", "evict", "stop"}
INVARIANTS
  ConnTypeOK
  SubmitsOwnOpts
PROPERTIES
  ImplementsLane
  EveryCallReturns
CHECK_DEADLOCK FALSE
