CONSTANTS
    Buttons = {}
    Kind = "auto"
    Picture <- ThreePictures
    MaxFrame = 3
    MaxFaults = 3
    MaxMsgs = 4
    MaxPresses = 0
    MaxRequests = 1
    MaxSpawns = 1
SPECIFICATION FairSpec
PROPERTIES NeverOlder NewestShown HealthIsFresh
CHECK_DEADLOCK FALSE
