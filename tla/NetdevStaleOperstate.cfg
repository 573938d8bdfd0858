CONSTANT MaxReqs <- MCMaxReqs
CONSTANT MaxNr <- MCNoNr
SPECIFICATION Spec
INVARIANT OkOnlyAfterAssociation
CHECK_DEADLOCK FALSE
