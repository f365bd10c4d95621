CONSTANTS
  Callers = {c1, c2}
  Programs <- MCPrograms
  NoCaller = none
  WaitRetries = 1
  MaxNonce = 6
  Faults = {"nonce", "query", "submit", "receipt", "revert"}
SPECIFICATION FairSpec
INVARIANTS TypeOK InOrderUnlessRaced
PROPERTIES EveryHelperReturns
CHECK_DEADLOCK FALSE
