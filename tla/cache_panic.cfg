SPECIFICATION Spec
CONSTANTS
    Keys = {k1}
    Subs = {s1, s2}
    None = None
    MILLI = 1
    RECORD_LIMIT = 2
    CACHE_EXPIRY_S = 2
    CACHE_TIMEOUT_S = 1
    CACHE_UPDATE_TIMEOUT_S = 0
    CACHE_MAILBOX = 1
    FEED_MAILBOX = 1
    MaxTime = 2
    MaxRows = 2
    Skews = {0, 2}
    InOrder = FALSE
    FailUntil = 1
    Lookbacks = {0}
INVARIANTS
    NeverPanics
