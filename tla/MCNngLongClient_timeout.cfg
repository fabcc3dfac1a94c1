SPECIFICATION Spec
CONSTANTS
    Threads = {t1}
    Workers = {w1}
    NPairs = 2
    MaxCalls = 2
PROPERTIES
    CallReturns
CHECK_DEADLOCK FALSE
