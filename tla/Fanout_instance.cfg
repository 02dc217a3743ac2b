SPECIFICATION InstanceSpec
CHECK_DEADLOCK FALSE
CONSTANTS
    Client = {c1, c2}
    Editor = {c1}
    Conn = {k1, k2, k3}
    Stale = {k1, k2}
    Watching = {k1}
    Instance = {i1}
    Channel = {h1, h2}
    Deletable = {}
    MaxOps = 2
    Capacity = 8
    NatsBuffer = 8
    Faults = {}
    None = None
INVARIANT NoGap
PROPERTIES
    StableConverges
    SessionEndsWhole
