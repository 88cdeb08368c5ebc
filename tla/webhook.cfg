SPECIFICATION FairSpec
CONSTANTS
  d1 = d1
  d2 = d2
  w1 = w1
  w2 = w2
  c1 = c1
  None = None
  Deliveries <- MCDeliveries
  Workers <- MCWorkers
  Configs <- MCConfigs
  ConfigOf <- MCConfigOf
  MAX_DELIVERY_ATTEMPTS = 2
  FAILURE_THRESHOLD = 2
  MaxQueued = 1
  MaxLost = 1
INVARIANT
  WebhookInv
PROPERTIES
  LeaseHolderSettles
  EveryAttemptConcludes
CHECK_DEADLOCK FALSE
