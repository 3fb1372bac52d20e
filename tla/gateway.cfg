SPECIFICATION GFairSpec
CONSTANTS
    r1 = r1
    r2 = r2
    p1 = p1
    Request = {r1, r2}
    Extractor = {r1, r2}
    Source <- MCSource
    InterceptorResult <- MCResults
    Peer = {p1}
    MaxDate = 1
INVARIANTS
    SharesFollowPeers
    AskedAtShare
    GaugesCountConnections
    StopWaitsForRequests
PROPERTIES
    StopEnds
CHECK_DEADLOCK FALSE
