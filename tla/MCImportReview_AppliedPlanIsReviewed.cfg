SPECIFICATION Spec
CONSTANTS
    N = 1
    RowKinds = {"draft"}
    Attempts = {a1}
    None = None
    MaxMappings = 2
    MaxSets = 2
    MaxEdits = 0
    MaxTimeouts = 0
INVARIANTS AppliedPlanIsReviewed
CHECK_DEADLOCK FALSE
