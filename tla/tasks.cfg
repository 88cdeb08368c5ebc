SPECIFICATION FairSpec
CONSTANTS
  t1 = t1
  t2 = t2
  w1 = w1
  w2 = w2
  o1 = o1
  o2 = o2
  None = None
  Tasks <- MCTasks
  Headerless <- MCHeaderless
  Workers <- MCWorkers
  Operators <- MCOperators
  max_attempts = 2
  MaxLost = 1
  MaxOutages = 1
  MaxReplays = 2
  MaxLetters = 4
INVARIANTS
  NothingVanishes
  RetryBudget
PROPERTY
  EveryTaskConcludes
CHECK_DEADLOCK FALSE
