CONSTANTS
    AtStart = {"active", "off"}
    Failures = 1
    MaxSaves = 1
    MaxEvents = 0
    MaxMsgs = 2
SPECIFICATION FairSpec
PROPERTY LastSaveRuns
