SPECIFICATION Spec
CONSTANTS
    t1 = t1
    t2 = t2
    Trx = {t1, t2}
    Expiry <- OneExpiry
    Mode = "speculative_producer"
    MaxLen = 2
    MaxTime = 3
    MaxIncoming = 1
INVARIANT NothingLost
INVARIANT QueueFresh
