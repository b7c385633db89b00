SPECIFICATION FairSpec
CONSTANTS
    Conns = {c1}
    Audit = {}
    Threads = {t1}
    Idle = Idle
    Kinds = {"anonymous", "state"}
    Timestamped = {TRUE}
    DB_BATCH_SIZE = 2
    BUFFER_MAILBOX = 2
    DB_MAILBOX = 6
    MaxLogs = 3
    MaxFailures = 0
PROPERTIES
    LogsSettle
    PeersIdentified
    KnowledgeKept
    ClosedLeave
