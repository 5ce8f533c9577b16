\* Crashes but no zombies left by timeouts: what the job's status reports is true.
SPECIFICATION FairSpec
CONSTANTS
    N = 2
    Base = 1
    PlanKinds = {"create", "new_version", "skip", "conflict"}
    Attempts = {a1, a2}
    None = None
    MaxTries = 2
    MaxEdits = 1
    MaxLost = 4
    MaxTimeouts = 0
    LateCancel = FALSE
    LateReplay = FALSE
INVARIANTS ReportsAreTrue
PROPERTIES ApplyEnds CompensationEnds
CHECK_DEADLOCK FALSE
