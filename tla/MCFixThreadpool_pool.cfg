SPECIFICATION PoolSpec
CONSTANTS
    v1 = v1
    v2 = v2
    v3 = v3
    v4 = v4
    Values = {v1, v2, v3, v4}
    Threads = {w1, w2, a1, a2}
    Workers = {w1, w2}
    Adders = {a1, a2}
    Patient = {w1, w2}
    Batches <- TaskAndBatch
    Size <- OneByte
    Buffer <- OneByteBuffer
    NodeSize = 1
    Capacity = 2
    None = None
INVARIANTS
    TaskInOnePlace
PROPERTIES
    AcceptedIsRun
    DestroyReturns
CHECK_DEADLOCK FALSE
