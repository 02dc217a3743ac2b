SPECIFICATION Spec
CONSTANTS
    Ids = {1, 2}
    MaxTime = 3
    Lag = 0
    Levels = {viewer, editor}
    Orders <- ModifiedPermissions
    DefaultPageSize = 1
    MaxPageSize = 2
    None = None
CHECK_DEADLOCK FALSE
INVARIANTS
    SteadyOnce
