SPECIFICATION Spec
CONSTANTS
    Threads = {t1, t2}
    Workers = {w1, w2}
    NPairs = 2
    MaxCalls = 2
INVARIANTS
    OwnAnswer
    PairsComeBack
PROPERTIES
    AnsweredReturns
CHECK_DEADLOCK FALSE
