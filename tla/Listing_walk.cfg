SPECIFICATION Spec
CONSTANTS
    Ids = {1, 2, 3}
    MaxTime = 2
    Lag = 1
    Levels = {viewer, editor}
    Orders <- SoundOrders
    DefaultPageSize = 1
    MaxPageSize = 2
    None = None
SYMMETRY Symmetry
CHECK_DEADLOCK FALSE
INVARIANTS
    TypeOK
    SteadyOnce
PROPERTY CursorGoesBack
