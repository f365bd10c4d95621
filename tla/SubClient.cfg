CONSTANTS
  Callers = {c1, c2}
  Programs <- MCPrograms
  MaxCalls = 3
  MaxNonce = 6
  MaxForks = 1
  Faults = {"query", "submit", "drop", "usurp"}
SPECIFICATION FairSpec
INVARIANTS
  TypeOK
  InOrderIfUndisturbed
PROPERTIES
  EverySubmitReturns
CHECK_DEADLOCK FALSE
