SYMMETRY Targets
CONSTANTS
    Buttons = 2
    Target = {t1, t2}
    NoTarget = NoTarget
    Active = {on}
    Off = off
    CheckFails = FALSE
SPECIFICATION Spec
PROPERTIES FiresOnce TerminateUnbroken
