SPECIFICATION Spec
CONSTANTS
    Attempts = {a1, a2}
    None = None
    MaxTries = 2
    MaxUploads = 2
    MaxCopies = 2
    MaxLost = 1
    MaxTimeouts = 1
    EarlyRequest = FALSE
    TornCompensation = FALSE
SYMMETRY AttemptSymmetry
INVARIANTS TypeOK BoundObjectKept FinalizedIsBound BoundIsIntact NothingLost CleanupIsDone
PROPERTIES CancelHolds
CHECK_DEADLOCK FALSE
