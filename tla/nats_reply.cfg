\* One request of each mode; two goroutines reply.
CONSTANTS
    q1 = q1
    q2 = q2
    q3 = q3
    c1 = c1
    c2 = c2
    NoRequest = NoRequest
    NoCaller = NoCaller
    Request = {q1, q2, q3}
    Mode <- Modes
    Caller = {c1, c2}
    PubsCap = 1
    ErrorsCap = 1
SPECIFICATION NSpec
INVARIANTS OneReplySucceeds BlockedReplyHasHandler AckedIsKept
PROPERTY IsRequestReply
\* Reply and responseHandler may end up waiting for each other.
CHECK_DEADLOCK FALSE
