\* One request for a response, to which one goroutine replies late.
CONSTANTS
    q1 = q1
    q2 = q2
    q3 = q3
    c1 = c1
    c2 = c2
    NoRequest = NoRequest
    NoCaller = NoCaller
    Request = {q1}
    Mode <- OneRequest
    Caller = {c1}
    PubsCap = 1
    ErrorsCap = 1
SPECIFICATION NFairSpec
PROPERTY LateReplyFails
\* Reply and responseHandler may end up waiting for each other.
CHECK_DEADLOCK FALSE
