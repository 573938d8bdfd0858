CONSTANT MaxReqs <- MCLiveMaxReqs
CONSTANT MaxNr <- MCNoNr
SPECIFICATION Spec
PROPERTY EveryRequestAnswered
CHECK_DEADLOCK FALSE
