CONSTANTS
    Users = {u1}
    Jobs = {j1}
    Requests = {r1, r2}
    Records = {a1, a2, a3}
    Tokens = {t1, t2}
    NoJob = NoJob
    NoRow = NoRow
    NA = NA
    OtpLife = 1
    KeyLife = 2
    MaxTime = 3
    MaxFaults = 0
SPECIFICATION Spec
SYMMETRY Interchangeable
INVARIANT AtMostOneOpen
\* With the bounds used up the service rests.
CHECK_DEADLOCK FALSE
