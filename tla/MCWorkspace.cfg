SPECIFICATION Spec
CONSTANTS
    Objects <- MCObjects
    TypeOf <- MCTypeOf
    Required <- MCRequired
    Policies = {p1, p2}
    ActivePolicies = {p1}
    Furnished = TRUE
    Keys = {k1, k2}
    Requests = {r1, r2}
    None = None
    MaxEdits = 2
    MaxOrdinal = 2
SYMMETRY Symmetry
INVARIANTS ChunksCounted AnswersAgree SeenAtOneMoment
PROPERTIES ActivationHolds
CHECK_DEADLOCK FALSE
