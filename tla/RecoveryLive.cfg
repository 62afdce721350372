CONSTANTS
    Proc = {p1, p2, p3}
    NoProc = NoProc
    Faults = FALSE
    Crashes = FALSE
    Timeouts = FALSE
SPECIFICATION FairSpec
PROPERTIES RecoveryEnds DashboardReturns
CHECK_DEADLOCK FALSE
