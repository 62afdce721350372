CONSTANTS
    Buttons = 2
    Target = {t1}
    NoTarget = NoTarget
    Active = {on}
    Off = off
    CheckFails = TRUE
SPECIFICATION FairSpec
INVARIANT OneBoundPress
PROPERTY PressEnds
