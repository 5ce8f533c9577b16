SPECIFICATION Spec
CONSTANTS
    Ids = {o1, o2}
    Slugs = {s1, s2}
    Stables = {k1}
    None = None
    Bad = Bad
    MaxRows = 2
    MaxEdits = 1
SYMMETRY Symmetry
INVARIANTS VerdictIsExact PlanWritesOnce
CHECK_DEADLOCK FALSE
