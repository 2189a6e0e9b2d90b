SPECIFICATION Spec
CONSTANTS
  Attempts = 1
  MaxEdits = 2
  MaxDeletes = 0
  MaxTroubles = 0
  a = a
  b = b
  k1 = k1
  k2 = k2
  Clients <- TwoClients
  Keys <- OneKey
SYMMETRY Symmetry
PROPERTY EditKept
CHECK_DEADLOCK FALSE
