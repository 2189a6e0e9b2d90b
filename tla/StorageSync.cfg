SPECIFICATION FairSpec
CONSTANTS
  a = a
  b = b
  s = s
  u = u
  Replaced = {a}
  Added = {b}
  Skipped = {s}
  Users <- OneUser
  MaxAttempts = 3
  MaxWrites = 1
  MaxFaults = 2
  MaxRestarts = 1
INVARIANT HolderAlone
INVARIANT AllOrNothing
INVARIANT Recoverable
PROPERTY FailedMeansOld
CHECK_DEADLOCK FALSE
PROPERTY GateReopens
