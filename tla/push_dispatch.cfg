\* One session that sends two messages, against two concurrent dispatchers.
CONSTANTS
    s1 = s1
    s2 = s2
    e1 = e1
    e2 = e2
    a = a
    b = b
    NoConfig = NoConfig
    ErrorEvent = ErrorEvent
    Session = {s1}
    Event = {e1, e2}
    Identity = {a, b}
    IdentityOf <- TwoEvents
    Related <- BRelatedToA
    Configs <- OnAOrOnB
    EnablingConfigs = {{b}}
    EnableErrors = {}
    BadEncoding = {}
    PublicationsCap = 1
    DataChCap = 2
    MaxMessages <- Two
SPECIFICATION HSpec
INVARIANTS SendsAreJustified OnlyLaterEventsQueued
\* Run returns and the clients have left: the program ends.
CHECK_DEADLOCK FALSE
