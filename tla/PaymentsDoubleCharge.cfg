CONSTANTS
    Invoices = {i1}
    Students = {s1}
    Requests = {r1, r2}
    Sessions = {cs1, cs2}
    NoInvoice = NoInvoice
    Nobody = Nobody
    NoSession = NoSession
    MaxIntents = 3
    MaxBulk = 1
    MaxDuplicates = 0
    MaxFaults = 0
SPECIFICATION Spec
INVARIANTS ChargedOnce
\* With every session paid or expired and the bounds used up, all is at rest.
CHECK_DEADLOCK FALSE
