SPECIFICATION SettledSpec
CONSTANTS
    n1 = n1
    n2 = n2
    s1 = s1
    a1 = a1
    a2 = a2
    k1 = k1
    k2 = k2
    c1 = c1
    c2 = c2
    p1 = p1
    Notifier = {n1, n2}
    PubsCap = 2
    Service = {s1}
    Address = {a1, a2}
    Api = {k1, k2}
    EndpointOf <- MCEndpointOf
    NameOf <- MCNameOf
    RoutesInfo <- MCRoutesInfo
    PrivateOverrides <- MCPrivateOverrides
    ExposePrivateAPIs = FALSE
    EventsAPIs <- MCEventsAPIs
    APILimiters <- MCAPILimiters
    RequiredServices <- NoneRequired
    Caller = {c1}
    Peer = {p1}
    Extractor = {}
    MaxDate = 1
INVARIANTS
    LimitersFollowPeers
CHECK_DEADLOCK FALSE
