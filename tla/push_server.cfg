\* Two sessions, one of which sends a message, and one event.
CONSTANTS
    s1 = s1
    s2 = s2
    e1 = e1
    e2 = e2
    a = a
    b = b
    NoConfig = NoConfig
    ErrorEvent = ErrorEvent
    Session = {s1, s2}
    Event = {e1}
    Identity = {a, b}
    IdentityOf <- OneEvent
    Related <- Unrelated
    Configs <- OnlyOnB
    EnablingConfigs = {}
    EnableErrors = {s1}
    BadEncoding = {s2}
    PublicationsCap = 1
    DataChCap = 1
    MaxMessages <- OneAndNone
SPECIFICATION FairSpec
INVARIANTS TypeOK MapEntriesAreOwned GaugeCountsConnections
PROPERTIES ShutdownCompletes SessionsDrain DispatchersFinish
\* Run returns and the clients have left: the program ends.
CHECK_DEADLOCK FALSE
