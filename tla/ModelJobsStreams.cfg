SPECIFICATION FairSpec
CONSTANTS
  MaxJobs = 1
  MaxChunks = 2
  RetainTerminal = 1
  MaxPending = 2
  MaxRestarts = 1
  WriteFaults = TRUE
  c1 = c1
  c2 = c2
  r1 = r1
  Chats <- OneChat
  Readers <- OneReader
INVARIANT StreamComplete
PROPERTY EveryJobSettles
PROPERTY StreamEnds
CHECK_DEADLOCK FALSE
