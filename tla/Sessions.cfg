CONSTANTS
    Users = {a1, s1}
    Admins = {a1}
    Requests = {r1, r2}
    Codes = {c1}
    Nobody = Nobody
    Nothing = Nothing
    MaxTime = 1
    MaxSignIns = 3
    MaxFaults = 1
SPECIFICATION Spec
INVARIANTS TypeOK CodeLoginsBounded RevokedSoon LogoutHolds
SYMMETRY Interchangeable
\* With every code expired and the bounds used up, all is at rest.
CHECK_DEADLOCK FALSE
