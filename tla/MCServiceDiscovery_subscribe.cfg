SPECIFICATION DiscoverySpec
CONSTANTS
    p = p
    c = c
    None = None
    Names = {p, c}
    Channels = {c1, c2, c3}
    Services = {e}
    Methods = {}
    Items = {i1, i2}
    Providers <- OneProvider
    Consumers <- OneConsumer
    Callers = {}
    Revokers = {p}
    Cancellers = {c}
    Statuses = {}
    MaxOutbox = 1
    MaxInbox = 2
VIEW View
SYMMETRY Symmetry
INVARIANTS
    SubscriptionKept
    SubscriberIsServed
    CancelIsFinal
