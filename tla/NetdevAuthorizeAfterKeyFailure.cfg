CONSTANT MaxReqs <- MCMaxReqs
CONSTANT MaxNr <- MCNoNr
SPECIFICATION Spec
INVARIANT NoAuthorizeAfterKeyFailure
CHECK_DEADLOCK FALSE
