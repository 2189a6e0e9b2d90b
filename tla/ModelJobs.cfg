SPECIFICATION Spec
CONSTANTS
  MaxJobs = 2
  MaxChunks = 0
  RetainTerminal = 1
  MaxPending = 2
  MaxRestarts = 1
  WriteFaults = FALSE
  c1 = c1
  c2 = c2
  r1 = r1
  Chats <- OneChat
  Readers = {}
INVARIANT RunningHasDriver
INVARIANT OneLiveGeneration
INVARIANT ToldIsDurable
INVARIANT IndexConverges
PROPERTY UnclaimedKept
CHECK_DEADLOCK FALSE
PROPERTY LedgerKept
