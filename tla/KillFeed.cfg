\* Three kills for one pending place, a queue of one and a ring of two; two connections.
CONSTANTS
    PendingSlots = 1
    QueueSize = 1
    RingSize = 2
    MaxKill = 3
    MaxTaken = 3
    MaxToken = 2
SPECIFICATION FairSpec
INVARIANT KillFeedTypeOK
PROPERTIES KeepsPromise FeedGoesQuiet
CHECK_DEADLOCK FALSE
