SPECIFICATION Spec
CONSTANTS
    t1 = t1
    t2 = t2
    Trx = {t1, t2}
    Expiry <- LateExpiry
    Mode = "speculative_producer"
    MaxLen = 1
    MaxTime = 2
    MaxIncoming = 1
PROPERTY PersistedApplied
