SPECIFICATION Spec
CONSTANTS
    N = 1
    Base = 1
    PlanKinds = {"create", "new_version"}
    Attempts = {a1}
    None = None
    MaxTries = 3
    MaxEdits = 0
    MaxLost = 0
    MaxTimeouts = 0
    LateCancel = TRUE
    LateReplay = TRUE
PROPERTIES TerminalIsTerminal
CHECK_DEADLOCK FALSE
