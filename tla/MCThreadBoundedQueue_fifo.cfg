\* One thread has a buffer too short for the long message, one gives up after its
\* timeout; memory may run out.
SPECIFICATION Spec
CONSTANTS
    t1 = t1
    t2 = t2
    t3 = t3
    short = short
    long = long
    None = None
    Threads = {t1, t2, t3}
    Values = {short, long}
    Size <- Sizes
    Buffer <- OneSmallBuffer
    NodeSize = 1
    Capacity = 2
    Patient = {t1, t2}
INVARIANTS NoLostWakeup
PROPERTIES IsFifo StopReleases
