CONSTANT MaxReqs <- MCMaxReqs
CONSTANT MaxNr <- MCNoNr
SPECIFICATION Spec
INVARIANT NoStaleTeardownPending
CHECK_DEADLOCK FALSE
