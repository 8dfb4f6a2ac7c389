CONSTANTS
    People = {b1, b2, s1}
    Students = {s1}
    Firms = {f1, f2}
    Numbers = {n1, n2}
    Requests = {r1, r2}
    MaxRequests = 8
    MaxFaults = 1
    Nobody = Nobody
    NoFirm = NoFirm
    NoRow = NoRow
    NoChange = NoChange
SPECIFICATION Spec
INVARIANTS TypeOK ProfilesKept ApprovalsKept BusinessesLinked
SYMMETRY Interchangeable
CHECK_DEADLOCK FALSE
