SPECIFICATION FairSpec
CONSTANTS
    Ids = {i1, i2}
    Names = {n1, n2}
    Emails = {e1}
    Passwords = {p1, p2}
    Short = {n2}
    Unfit = {p2}
    Requests = {r1, r2}
    Faults = TRUE
    None = None
INVARIANTS
    TypeOK
    DefiniteAnswers
    LoginIsCurrent
PROPERTIES
    ChangeFromOld
    CallsEnd
