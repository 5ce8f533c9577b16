SPECIFICATION FairSpec
CONSTANTS
    Objects = {a, b}
    Keys = {k1, k2}
    Bodies = {text}
    Requests = {r1, r2, r3}
    None = None
INVARIANTS TypeOK Dense KeyBuysOne AnswersAgree
PROPERTIES ImplementsLedger EveryCallEnds
CHECK_DEADLOCK FALSE
