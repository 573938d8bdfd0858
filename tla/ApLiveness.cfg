CONSTANTS e1 = e1
          e2 = e2
CONSTANT Enrollees <- MCEnrollees
CONSTANT MaxProbes <- MCMaxProbes
CONSTANT MaxTime <- MCClockAfterMonitor
CONSTANT ClockInit <- MCClockAfterMonitor
CONSTANT MaxCalls <- MCMaxCallsLiveness
CONSTANT PoolEnabled = TRUE
CONSTANT APRangeStart <- MCAPRangeStart
CONSTANT APRangeEnd <- MCAPRangeEnd
CONSTANT DhcpCanFail = FALSE
SPECIFICATION FairSpec
PROPERTY EveryCallAnswered
CHECK_DEADLOCK FALSE
