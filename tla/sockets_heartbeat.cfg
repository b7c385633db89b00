SPECIFICATION FairSpec
CONSTANTS
    Conns = {n1, f1}
    Feeds = {f1}
    None = None
    HEARTBEAT_INTERVAL = 2
    CLIENT_TIMEOUT_S = 4
    FEED_HEARTBEAT_INTERVAL = 1
    FEED_CLIENT_TIMEOUT_S = 3
    Modulus = 4
INVARIANTS
    TypeOK
    SilentNoticed
    GaugesExact
PROPERTIES
    
    SilentLeaves
