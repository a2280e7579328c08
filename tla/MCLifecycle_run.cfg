SPECIFICATION FairSpec
CONSTANTS
    Requests = {r1, r2}
    Ports <- MCPorts
    Periods <- MCPeriods
    Actions = 2
    SetupFails = TRUE
INVARIANT StopInv
PROPERTY StopsAtLast
CHECK_DEADLOCK FALSE
