CONSTANTS
    a1 = a1
    a2 = a2
    a3 = a3
    a4 = a4
    Page = page
    Clients <- OnePage
    NoController = NoController
    Attempts <- FourAttempts
    HistoryLimit = 2
    MaxEvents = 4
    MaxRestarts = 1
    MaxLosses = 2
    MaxOnline = 1
SPECIFICATION FairPage
CHECK_DEADLOCK FALSE
INVARIANTS ReplayIsComplete LoopGoesOn OneLoop ShownIsReal
PROPERTY CatchesUp
