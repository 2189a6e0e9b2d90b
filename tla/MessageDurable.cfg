SPECIFICATION Spec
CONSTANTS
  MAX_COMMIT_ATTEMPTS = 3
  MaxWrites = 3
  MaxTroubles = 3
  m1 = m1
  m2 = m2
  Messages <- TwoMessages
  Older <- FirstMessage
  Refusable = {}
INVARIANT ConfirmedIsStored
CHECK_DEADLOCK FALSE
