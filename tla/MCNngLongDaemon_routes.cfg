SPECIFICATION Spec
CONSTANTS
    p = p
    q = q
    a = a
    b = b
    e1 = e1
    e2 = e2
    Processes = {p, q}
    Modules = {a, b}
    Events = {e1, e2}
    Hosts <- TwoProcesses
    Type <- EventType
    Src <- EventSrc
    Dests <- EventDests
    MaxItems = 3
    MaxExits = 1
    MaxAsked = 1
    MaxTries <- Tries
    None = None
CHECK_DEADLOCK FALSE
INVARIANTS
    NoDanglingEntry
    OnePlace
    SoleClaimIsReachable
PROPERTIES
    RequestIsSettled
