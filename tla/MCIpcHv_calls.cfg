\* One context at first and one on demand, and three callers.
SPECIFICATION SafetySpec
CONSTANTS
    Threads = {t1, t2, t3}
    Loops = {l1}
    Ctxs = {x1, x2}
    InitCount = 1
    MaxCalls = 3
    None = None
SYMMETRY Symmetry
INVARIANTS
    ContextExclusive
    HeadIsLentToCrowd
    OwnAnswer
    ForeignAnswerIsLate
    ShutOnlyAfterTimeout
CHECK_DEADLOCK FALSE
