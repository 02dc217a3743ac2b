SPECIFICATION FairSpec
CONSTANTS
    Conn = {k1, k2, k3}
    State = {s1, s2, s3}
    Cell = {o1, o2, o3}
    None = None
INVARIANTS
    TypeOK
    OneLiveState
    LiveIsReachable
    CellMeansNoState
PROPERTIES
    RegisterReturns
    ImplementsTopicChannel
