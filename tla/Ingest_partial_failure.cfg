SPECIFICATION Spec
CONSTANTS
    Client = {c1}
    Conn = {k1}
    Deletable = {d1}
    MaxOps = 1
    MaxBatch = 1
    Faults = {"db"}
    NoConn = NoConn
INVARIANT PersistedIsBroadcast
