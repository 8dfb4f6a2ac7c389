CONSTANTS
    Invoices = {i1}
    Students = {s1}
    Requests = {r1, r2}
    Sessions = {cs1, cs2, cs3}
    NoInvoice = NoInvoice
    Nobody = Nobody
    NoSession = NoSession
    MaxIntents = 2
    MaxBulk = 2
    MaxDuplicates = 1
    MaxFaults = 1
SPECIFICATION FairSpec
INVARIANTS TypeOK LateBounded
PROPERTIES ImplementsLedger PaidIsSettled
\* With every session paid or expired and the bounds used up, all is at rest.
CHECK_DEADLOCK FALSE
