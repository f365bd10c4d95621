SPECIFICATION FairSpec
CONSTANTS
  ga = ga
  gb = gb
  pa = pa
  pb = pb
  Resolvers = {ga, gb}
  Proposals = {pa, pb}
  PropOf <- OwnProposals
  Threshold = 2
  Others = 1
  BlockRetryLimit = 2
  StartNonce = 1
  MaxNonce = 5
  MaxForks = 0
  NoTx = NoTx
  Nobody = Nobody
  Faults = {"refuse"}
PROPERTIES
  RetryOnFailure
CHECK_DEADLOCK FALSE
