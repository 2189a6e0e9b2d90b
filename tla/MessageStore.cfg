SPECIFICATION FairSpec
CONSTANTS
  MAX_COMMIT_ATTEMPTS = 2
  MaxWrites = 2
  MaxTroubles = 2
  m1 = m1
  m2 = m2
  Messages <- TwoMessages
  Older <- FirstMessage
  Refusable <- SecondMessage
INVARIANT NothingLost
INVARIANT NewestStands
INVARIANT ViewMatches
CHECK_DEADLOCK FALSE
PROPERTY GetsPastRefused
