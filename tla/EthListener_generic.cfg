SPECIFICATION Spec
CONSTANTS
  Deposits <- KnownDeposits
  KindOf <- KnownKinds
  BlockContents <- ContentsKnown
  Unroutable = {}
  MaxBlock = 3
  ReorgDepth = 0
  Confirmations = 1
  RetryLimit = 2
  StartBlock = 1
  StartModes = {"stored"}
  Faults = {"record"}
INVARIANTS
  RecognisedDepositForwarded
