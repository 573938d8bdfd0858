CONSTANT MaxReqs <- MCLiveMaxReqs
CONSTANT MaxNr <- MCMaxNr
SPECIFICATION Spec
INVARIANT AtMostOnceCallbacks
INVARIANT NrTimeoutHasCb
PROPERTY NoStuckAttempt
PROPERTY EveryNeighborReportAnswered
CHECK_DEADLOCK FALSE
