SPECIFICATION DiscoverySpec
CONSTANTS
    p = p
    c = c
    None = None
    Names = {p, c}
    Channels = {c1, c2, c3}
    Services = {m}
    Methods = {m}
    Items = {i1, i2}
    Providers <- OneProvider
    Consumers <- OneConsumer
    Callers = {c}
    Revokers = {}
    Cancellers = {}
    Statuses = {"AVAILABLE", "UNAVAILABLE"}
    MaxOutbox = 1
    MaxInbox = 1
VIEW View
SYMMETRY Symmetry
INVARIANTS
    QueryUnderWay
    FoundIsCurrent
    
