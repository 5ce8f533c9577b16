\* Mappings replaced, validations that linger, owner edits, a policy retired.
SPECIFICATION Spec
CONSTANTS
    N = 1
    RowKinds = {"draft", "active", "invalid", "conflict"}
    Attempts = {a1, a2}
    None = None
    MaxMappings = 2
    MaxSets = 2
    MaxEdits = 1
    MaxTimeouts = 1
SYMMETRY Symmetry
INVARIANTS TypeOK AppliedSetApproved StagedUnderMapping
PROPERTIES CancelHolds ImplementsGate
CHECK_DEADLOCK FALSE
