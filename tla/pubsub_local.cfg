\* Two subscribers on a topic with two publications, and a publication on another.
CONSTANTS
    r1 = r1
    r2 = r2
    r3 = r3
    p1 = p1
    p2 = p2
    p3 = p3
    t1 = t1
    t2 = t2
    NoPub = NoPub
    Subscription = {r1, r2}
    Pub = {p1, p2, p3}
    Topic = {t1, t2}
    TopicOf <- Topics
    QueueCap = 2
    ChanCap = 1
SPECIFICATION LFairSpec
INVARIANTS NoSendOnClosed
PROPERTIES IsBroadcast PublishReturns UnsubscribeCloses
\* After Disconnect callers wait for a listen that is gone.
CHECK_DEADLOCK FALSE
