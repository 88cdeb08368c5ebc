SPECIFICATION FairSpec
CONSTANTS
  p1 = p1
  p2 = p2
  crm = crm
  trigger = trigger
  Events <- MCEvents
  HandlersFor <- MCHandlersFor
  Pollers <- MCPollers
  MAX_ATTEMPTS = 2
  BATCH_SIZE = 2
  MaxCrashes = 1
INVARIANT
  OutboxInv
PROPERTIES
  ImplementsEventDelivery
  EveryEventConcludes
CHECK_DEADLOCK FALSE
