SPECIFICATION FairSpec
CONSTANTS
    Docs = {d1, d2}
    Users = {u1}
    Guests = {}
    Requests = {r1, r2}
    MaxBatch = 2
    Faults = FALSE
    Absent = Absent
    Same = Same
PROPERTIES
    DeletedOnce
    LoneDeletionIsDefinite
    CallsAreAnswered
