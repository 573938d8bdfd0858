CONSTANTS e1 = e1
          e2 = e2
CONSTANT Enrollees <- MCEnrollees
CONSTANT MaxProbes <- MCMaxProbes
CONSTANT MaxTime <- MCMaxTime
CONSTANT ClockInit <- MCClockAfterMonitor
CONSTANT MaxCalls <- MCMaxCalls
CONSTANT PoolEnabled = TRUE
CONSTANT APRangeStart <- MCAPRangeStart
CONSTANT APRangeEnd <- MCAPRangeEnd
CONSTANT DhcpCanFail = FALSE
SPECIFICATION Spec
INVARIANT TypeOK
INVARIANT NoPbcDuringOverlap
INVARIANT SoleRecordInPbc
INVARIANT ApIfValid
INVARIANT KernelApOwned
INVARIANT PoolHeld
CHECK_DEADLOCK FALSE
