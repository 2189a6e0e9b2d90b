SPECIFICATION Spec
CONSTANTS
  HistoryLimit = 1
  MaxLifecycles = 2
  MaxDrops = 1
  MaxTroubles = 1
  a = a
  b = b
  Clients <- TwoClients
SYMMETRY Symmetry
INVARIANT NoStaleSource
INVARIANT RecordedIsKnown
PROPERTY AbortsOnlyTheAimed
CHECK_DEADLOCK FALSE
