\* Workers crash and the server times attempts out: zombies race live attempts.
SPECIFICATION Spec
CONSTANTS
    N = 2
    Base = 1
    PlanKinds = {"create", "new_version"}
    Attempts = {a1, a2}
    None = None
    MaxTries = 3
    MaxEdits = 1
    MaxLost = 1
    MaxTimeouts = 1
    LateCancel = TRUE
    LateReplay = TRUE
SYMMETRY Symmetry
INVARIANTS TypeOK OpLedgerAgreement AppliedOnReviewedBase CompensationRestores
PROPERTIES CancelYieldsToDone
CHECK_DEADLOCK FALSE
