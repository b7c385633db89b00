SPECIFICATION FairSpec
CONSTANTS
    Conns = {c1}
    Audit = {}
    Threads = {t1, t2}
    Idle = Idle
    Kinds = {"connected", "anonymous", "state", "other"}
    Timestamped = {TRUE, FALSE}
    DB_BATCH_SIZE = 2
    BUFFER_MAILBOX = 2
    DB_MAILBOX = 6
    MaxLogs = 2
    MaxFailures = 0
PROPERTIES
    PeersIdentified
