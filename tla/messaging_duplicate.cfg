SPECIFICATION Spec
CONSTANTS
  m1 = m1
  m2 = m2
  p1 = p1
  p2 = p2
  None = None
  Inbound <- MCInbound
  Phones <- MCPhones
  From <- MCFrom
  MaxRequests = 3
  MaxLost = 1
INVARIANT RecordedOnce
CHECK_DEADLOCK FALSE
