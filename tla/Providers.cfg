CONSTANTS
    Thread = {o1, o2}
    NoThread = NoThread
    Io = {i1, i2}
    NoIo = NoIo
    Candidates = 2
    ReadAttempts = 3
    Child = {c1, c2}
    NoChild = NoChild
    Target = {g1, g2}
    NoTarget = NoTarget
    MaxInterfaces = 2
    MaxPipe = 1
    MaxFrame = 2
    Levels = 2
SPECIFICATION Spec
INVARIANTS OnlyVerifiedRuns InStep
PROPERTIES
    OneOwner CallerReturns OneIoAtATime GateReopens OneCapture StopsWhenOff
CHECK_DEADLOCK FALSE
