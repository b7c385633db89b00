SPECIFICATION Spec
CONSTANTS
    Conns = {c1, c2}
    Audit = {c1}
    Threads = {t1}
    Idle = Idle
    Kinds = {"connected", "anonymous", "other"}
    Timestamped = {TRUE}
    DB_BATCH_SIZE = 1
    BUFFER_MAILBOX = 6
    DB_MAILBOX = 6
    MaxLogs = 2
    MaxFailures = 0
INVARIANTS
    AuditLogsNotLost
