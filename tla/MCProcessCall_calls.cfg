\* Connections close and calls time out.
SPECIFICATION Spec
CONSTANTS
    Threads = {t1, t2}
    Ctxs = {x1, x2}
    Timeouts = TRUE
    MaxCalls = 3
    MaxCloses = 1
    None = None
SYMMETRY Symmetry
INVARIANTS ContextExclusive PendingOwned SteadyAnswerIsMine NoLostAnswer
CHECK_DEADLOCK FALSE
