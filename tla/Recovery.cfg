CONSTANTS
    Proc = {p1, p2, p3}
    NoProc = NoProc
    Faults = TRUE
    Crashes = TRUE
    Timeouts = TRUE
SPECIFICATION Spec
INVARIANTS WriteAhead IInv
PROPERTIES CommitOnlyWhenNeeded ResumedAfterParent BudgetSpec
CHECK_DEADLOCK FALSE
