CONSTANT MaxReqs <- MCMaxReqs
CONSTANT MaxNr <- MCNoNr
SPECIFICATION Spec
INVARIANT TypeOK
INVARIANT AtMostOnceCallbacks
INVARIANT TrackedIdsOutstanding
CHECK_DEADLOCK FALSE
