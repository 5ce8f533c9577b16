SPECIFICATION FairSpec
CONSTANTS
    Attempts = {a1, a2}
    None = None
    MaxTries = 2
    MaxUploads = 2
    MaxLost = 1
    MaxTimeouts = 1
INVARIANTS TypeOK InfectedIsIsolated ReviewedIsClean
PROPERTIES CancelHolds RestIsLeftAlone SourceComesToRest
CHECK_DEADLOCK FALSE
