SPECIFICATION FairSpec
CONSTANTS
  Deposits <- AllDeposits
  KindOf <- AllKinds
  BlockContents <- ContentsAll
  Unroutable = {}
  MaxBlock = 4
  ReorgDepth = 1
  Confirmations = 1
  RetryLimit = 2
  StartBlock = 1
  StartModes = {"stored", "fresh"}
  Faults = {"rpc", "record", "store", "stop", "crash"}
INVARIANTS
  TypeOK
  NoPhantomMessage
  NoDepositSkipped
  ResumeSkipsNothing
PROPERTIES
  DepositEventuallyHandled
