CONSTANTS
    AtStart = {"active", "off"}
    Failures = 2
    MaxSaves = 1
    MaxEvents = 1
    MaxMsgs = 2
SPECIFICATION FairSpec
INVARIANTS RequestConsistent ConfirmedUnderCurrent
PROPERTY Settles
