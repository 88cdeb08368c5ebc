SPECIFICATION FairSpec
CONSTANTS
  w1 = w1
  w2 = w2
  Workers <- MCWorkers
  Plan <- TwoDelays
  MaxRepeats = 0
  MaxLost = 0
  MaxToggles = 0
  MaxQueued = 2
PROPERTIES
  DelayIsResumed
CHECK_DEADLOCK FALSE
