SPECIFICATION Spec
CONSTANTS
  p1 = p1
  authorized = authorized
  captured = captured
  failed = failed
  refunded = refunded
  other = other
  unknown = unknown
  h1 = h1
  h2 = h2
  None = None
  Payments <- MCPayments
  Events <- MCEvents
  PaymentOf <- MCPaymentOf
  Target <- MCTarget
  Disagreeing <- MCDisagreeing
  Handlers <- MCHandlers
  MaxDeliveries = 6
PROPERTY CapturedIsNotRewritten
CHECK_DEADLOCK FALSE
