SPECIFICATION Spec
CONSTANTS
    Client = {c1, c2}
    Editor = {c1}
    Conn = {k1, k2}
    Instance = {i1}
    Channel = {h1, h2}
    Deletable = {d1}
    MaxOps = 2
    Capacity = 1
    NatsBuffer = 1
    Faults = {"db", "crash"}
    None = None
SYMMETRY FanoutSymmetry
ACTION_CONSTRAINT InBounds
INVARIANTS
    TypeOK
    HandshakeRepairs
