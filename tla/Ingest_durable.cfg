SPECIFICATION FairSpec
CONSTANTS
    Client = {c1}
    Conn = {k1, k2}
    Deletable = {d1}
    MaxOps = 2
    MaxBatch = 2
    Faults = {"db", "crash", "writer"}
    NoConn = NoConn
INVARIANTS
    TypeOK
    PrefixClosed
    CaughtUpIsDurable
    PersistedBeforeBroadcast
PROPERTY StableConnectionDurable
