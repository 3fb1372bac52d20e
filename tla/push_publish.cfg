\* A pusher with two events and one session.
CONSTANTS
    s1 = s1
    s2 = s2
    e1 = e1
    e2 = e2
    p1 = p1
    a = a
    b = b
    NoConfig = NoConfig
    ErrorEvent = ErrorEvent
    Session = {s1}
    Event = {e1, e2}
    Identity = {a, b}
    IdentityOf <- TwoEvents
    Related <- Unrelated
    Configs = {}
    EnablingConfigs = {}
    EnableErrors = {}
    BadEncoding = {}
    PublicationsCap = 1
    DataChCap = 1
    MaxMessages <- NoMessages
    Pusher = {p1}
    Batches <- TwoInOneCall
    MaxAttempts = 3
SPECIFICATION PFairSpec
INVARIANTS PTypeOK PublishedOnceInOrder
PROPERTY PublishedIsDispatched
\* Run returns and the clients have left: the program ends.
CHECK_DEADLOCK FALSE
