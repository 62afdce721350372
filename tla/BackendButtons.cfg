CONSTANTS
    Buttons = {b1}
    Kind = "auto"
    Picture <- OnePicture
    MaxFrame = 1
    MaxFaults = 2
    MaxMsgs = 2
    MaxPresses = 3
    MaxRequests = 1
    MaxSpawns = 2
SPECIFICATION FairSpec
PROPERTIES EdgesAlternate NoStuckButton StopEnds
CHECK_DEADLOCK FALSE
