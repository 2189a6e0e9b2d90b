SPECIFICATION FairSpec
CONSTANTS
  MaxBytes = 1
  Streaming = TRUE
  MAX_NO_PROGRESS_REATTACHES = 2
  MaxTroubles = 1
  a = a
  b = b
  Pages <- TwoPages
  Author <- a
INVARIANT ClaimedIsKept
INVARIANT StoredIsWhole
INVARIANT OneReader
CHECK_DEADLOCK FALSE
PROPERTY EventuallyClaimed
