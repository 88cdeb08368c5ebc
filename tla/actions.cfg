SPECIFICATION FairSpec
CONSTANTS
  r1 = r1
  r2 = r2
  None = None
  Runs <- TwoRuns
  Kinds <- EveryKind
  max_attempts = 3
  MaxCrashes = 2
  MaxCuts = 1
INVARIANTS
  AtMostOneEffect
  CompletedHasReceipt

  
CHECK_DEADLOCK FALSE
