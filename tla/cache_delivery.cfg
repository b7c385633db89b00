SPECIFICATION FairSpec
CONSTANTS
    Keys = {k1}
    Subs = {s1}
    None = None
    MILLI = 2
    RECORD_LIMIT = 1
    CACHE_EXPIRY_S = 3
    CACHE_TIMEOUT_S = 1
    CACHE_UPDATE_TIMEOUT_S = 0
    CACHE_MAILBOX = 1
    FEED_MAILBOX = 1
    MaxTime = 4
    MaxRows = 3
    Skews = {0}
    InOrder = TRUE
    FailUntil = 1
    Lookbacks = {1}
INVARIANTS
    PushedGapless
    HistoryCached
PROPERTIES
    RowsReachSubscribers
    ImplementsDelivery
