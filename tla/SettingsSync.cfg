SPECIFICATION FairSpec
CONSTANTS
  Attempts = 1
  MaxEdits = 2
  MaxDeletes = 1
  MaxTroubles = 1
  a = a
  b = b
  k1 = k1
  k2 = k2
  Clients <- TwoClients
  Keys <- OneKey
INVARIANT Converged
PROPERTY OwnOrder
PROPERTY Settles
CHECK_DEADLOCK FALSE
