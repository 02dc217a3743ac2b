SPECIFICATION Spec
CONSTANTS
    Client = {c1, c2}
    Editor = {c1}
    Conn = {k1, k2}
    Instance = {i1, i2}
    Channel = {h1, h2}
    Deletable = {}
    MaxOps = 1
    Capacity = 8
    NatsBuffer = 8
    Faults = {}
    None = None
INVARIANT NoGap
