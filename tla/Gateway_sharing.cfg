SPECIFICATION GatewaySpec
CONSTANTS
    Docs = {d1, d2}
    Users = {u1}
    Guests = {g1}
    Requests = {r1, r2}
    MaxBatch = 2
    Faults = TRUE
    Absent = Absent
    Same = Same
SYMMETRY Symmetry
ACTION_CONSTRAINT InBounds
INVARIANTS
    GatewayTypeOK
    CreatorOwns
    GuestsInSync
PROPERTIES
    DeletedOnce
    ResponsesAreTrue
