SPECIFICATION Spec
CONSTANTS
    p = p
    q = q
    None = None
    Names = {p, q}
    Channels = {c1, c2, c3}
    Services = {m}
    Methods = {m}
    Items = {i1, i2, i3}
    Providers <- TwoProviders
    Consumers <- QConsumes
SYMMETRY Symmetry
INVARIANTS
    OnlineIsConnected
    OneRunningInstance
    NoticeIsTruthful
    AvailableHasLiveProvider
    ProducedItemIsCurrent
PROPERTIES
    StatusChangeIsTold
