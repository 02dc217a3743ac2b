SPECIFICATION GatewaySpec
CONSTANTS
    Docs = {d1}
    Users = {u1}
    Guests = {}
    Requests = {r1}
    MaxBatch = 1
    Faults = FALSE
    Absent = Absent
    Same = Same
PROPERTY GetFindsDocument
