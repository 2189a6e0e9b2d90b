SPECIFICATION FairSpec
CONSTANTS
  Chunks = 2
  Attempts = 2
  MaxSessions = 2
  MaxFaults = 1
INVARIANT WholeFile
INVARIANT RestoreUndisturbed
INVARIANT ToldTruth
PROPERTY SlotFreed
CHECK_DEADLOCK FALSE
