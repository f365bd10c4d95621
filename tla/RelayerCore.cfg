SPECIFICATION FairSpec
CONSTANTS
  m1 = m1
  m2 = m2
  NumChains = 2
  SubstrateChains = {2}
  Messages = {m1, m2}
  SourceOf <- Sources
  DestOf <- Destinations
  BlockOf <- DepositBlocks
  LastBlock = 2
  StartModes = {"stored", "latest"}
  BlockRetryLimit = 2
  MaxRunning = 2
  Faults = {"init", "start", "rpc", "store", "vote", "fatalTx", "signal", "crash"}
INVARIANTS
  TypeOK
  RefusedIsUnconfigured
  PassedIsAccounted
PROPERTIES
  RestartResolves
  FatalEndsProcess
