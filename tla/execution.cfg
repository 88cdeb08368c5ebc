SPECIFICATION FairSpec
CONSTANTS
  w1 = w1
  w2 = w2
  Workers <- MCWorkers
  Plan <- GatedPlan
  MaxRepeats = 1
  MaxLost = 1
  MaxToggles = 1
  MaxQueued = 2

  
PROPERTY
  EveryExecutionSettles
CHECK_DEADLOCK FALSE
