SPECIFICATION FairSpec
CONSTANTS
  MaxEdits = 3
  MaxFailures = 1
  MaxWaiting = 1
  c1 = c1
  x1 = x1
  x2 = x2
  order = order
  manifest = manifest
  Characters <- OneCharacter
  Chats <- TwoChats
  Noted <- LastChat
  Owner <- OwnerOfAll
  Order = order
  Manifest <- OneManifest
INVARIANT UnsavedIsMarked
INVARIANT Converged
CHECK_DEADLOCK FALSE
PROPERTY Settles
