CONSTANTS
    Process = {p1, p2, p3}
    NoProcess = NoProcess
    MaxCandidates = 2
    Workload = {0, 1, 2}
    Margin = 2
    SwitchWindows = 2
    Seconds = 2
    LongInterval = FALSE
    Account = {a1, a2}
    NoAccount = NoAccount
    Channel = {v1, v2}
    NoChannel = NoChannel
    MaxInbox = 1
    Id = {1, 2}
    CriticalId = {1}
    Program = {w1, w2}
    NoProgram = NoProgram
    Title = {t1, t2}
    Window = {0, 1, 3}
    MaxGeneration = 2
    Slow = {hwinfo, lhm}
    First = hwinfo
    Kept = {battery}
    Dropped = {audio}
    MaxQueue = 1
    MaxBytes = 2
    Backups = 2
    Excess = 1
    MaxLines = 6
    Instance = {s1, s2}
    NoInstance = NoInstance
    File = {f0, f1, f2}
    Primary = f0
    MaxIncludes = 2
    MaxFiles = 3
    MaxDirectives = 3
    MaxLength = 3
    MaxPart = 1
    Field = {temp}
    StaleAfter = 1
    NoMemory = NoMemory
    MaxDepth = 2
    MaxResponse = 12
    Deadline = 2
    Path = {ga}
    NoPath = NoPath
    MaxApplications = 3
    Changes = 3
    MaxLine = 1
    LineQueue = 1
    MaxFrames = 2
    LastLine = 4
    Steps = 2
    TestButton = {b1}
    MaxTicks = 1
SPECIFICATION Spec
INVARIANTS
    TypeOK TokenKept ChannelFollowed LoadedAsWritten KeptWhole WholeReadings
    HonestReport
PROPERTIES KeptUnlessBeaten StaleIsShown EpisodeEnds EndsOnlyTheHung OwnGeneration
CHECK_DEADLOCK FALSE
