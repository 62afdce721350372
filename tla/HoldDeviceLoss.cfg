CONSTANTS
    Buttons = 2
    Target = {t1, t2}
    NoTarget = NoTarget
    Active = {on}
    Off = off
    CheckFails = TRUE
SPECIFICATION Spec
PROPERTY TerminateUnbroken
