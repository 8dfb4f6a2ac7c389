CONSTANTS
    Users = {u1}
    Jobs = {j1}
    Requests = {r1}
    Records = {a1, a2}
    Tokens = {t1, t2}
    NoJob = NoJob
    NoRow = NoRow
    NA = NA
    OtpLife = 1
    KeyLife = 2
    MaxTime = 4
    MaxFaults = 1
SPECIFICATION Spec
INVARIANTS TypeOK AtMostOneOpen ValidOtpIsAccepted NoEternalKey
PROPERTY ImplementsTimesheet
\* Between requests the service rests; with the bounds used up it stops.
CHECK_DEADLOCK FALSE
