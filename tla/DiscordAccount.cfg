CONSTANTS
    Channel = {v1, v2}
    NoChannel = NoChannel
    MaxInbox = 2
SPECIFICATION Spec
INVARIANT OnlyActiveAccount
CHECK_DEADLOCK FALSE
