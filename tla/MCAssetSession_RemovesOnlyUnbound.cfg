SPECIFICATION Spec
CONSTANTS
    Attempts = {a1, a2}
    None = None
    MaxTries = 2
    MaxUploads = 1
    MaxCopies = 1
    MaxLost = 1
    MaxTimeouts = 1
    EarlyRequest = TRUE
    TornCompensation = FALSE
SYMMETRY AttemptSymmetry
PROPERTIES RemovesOnlyUnbound
CHECK_DEADLOCK FALSE
