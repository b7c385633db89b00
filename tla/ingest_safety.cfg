SPECIFICATION Spec
CONSTANTS
    Conns = {c1, c2}
    Audit = {c1}
    Threads = {t1, t2}
    Idle = Idle
    Kinds = {"connected", "other"}
    Timestamped = {TRUE, FALSE}
    DB_BATCH_SIZE = 1
    BUFFER_MAILBOX = 1
    DB_MAILBOX = 2
    MaxLogs = 2
    MaxFailures = 1
SYMMETRY Symmetry
INVARIANTS
    TypeOK
    AccountedOnce
    ForeignKeys
