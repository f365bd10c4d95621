SPECIFICATION FairSpec
CONSTANTS
  f1 = f1
  n1 = n1
  g1 = g1
  Deposits = {f1, n1, g1}
  KindOf <- AllKinds
  BlockContents <- AllContents
  Unroutable = {g1}
  MaxBlock = 3
  MaxCode = 1
  BlockRetryLimit = 2
  StartBlock = 1
  StartModes = {"stored", "fresh"}
  Faults = {"rpc", "store", "stop", "crash"}
INVARIANTS
  TypeOK
  RoutedIsFinalized
  NoDepositSkipped
  ResumeSkipsNothing
  MetadataNotOutdated
PROPERTIES
  DepositEventuallyHandled
