CONSTANT MaxReqs <- MCMaxReqs
CONSTANT MaxNr <- MCNoNr
SPECIFICATION Spec
INVARIANT DisconnectCbKept
CHECK_DEADLOCK FALSE
