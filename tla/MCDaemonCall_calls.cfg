\* Two threads and a callback of the main loop share two contexts; the daemon
\* and another process may disconnect.
SPECIFICATION Spec
CONSTANTS
    Threads = {t1, t2, t3}
    Loop = {t3}
    Ctxs = {x1, x2}
    Peers = {p1}
    MaxSeq = 3
    None = None
INVARIANTS AnswerIsMine ContextExclusive NoLostAnswer CallLeavesNothing
PROPERTIES CallReturns
CHECK_DEADLOCK FALSE
