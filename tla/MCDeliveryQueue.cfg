SPECIFICATION Spec
CONSTANTS
  d1 = d1
  d2 = d2
  r1 = r1
  Deliveries = {d1, d2}
  Payloads = 2
  Left = {d2}
  Kinds <- CallKinds
  Recoveries = {r1}
  MaxRetries = 2
  Backoff <- Delays
  Budget = 1
  MaxTime = 2
  MaxCrashes = 1
  MaxRestarts = 1
CHECK_DEADLOCK FALSE
INVARIANTS
  DeliveryInv
PROPERTIES
  AttemptsAreDue
