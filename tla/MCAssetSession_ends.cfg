SPECIFICATION FairSpec
CONSTANTS
    Attempts = {a1}
    None = None
    MaxTries = 1
    MaxUploads = 2
    MaxCopies = 2
    MaxLost = 2
    MaxTimeouts = 1
    EarlyRequest = TRUE
    TornCompensation = FALSE
PROPERTIES VerificationEnds FinalizationEnds
CHECK_DEADLOCK FALSE
