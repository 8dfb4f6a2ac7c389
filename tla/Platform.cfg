CONSTANTS
    Workers = {w1, w2}
    Requests = {r1, r2}
    Privileges = {p1, p2}
    Defaults = {p1}
    Role = Role
    Items <- Positions
    ChunkSize = 2
    MaxAssigns = 2
    MaxBulks = 1
    MaxCrashes = 1
    Nowhere = Nowhere
SPECIFICATION FairSpec
INVARIANTS TypeOK SeedSurvived AssignedAsAsked BulkSettled
PROPERTIES BulkEnds
\* Once every process that could still do something is dead, nothing replaces it:
\* the system really may stop.
CHECK_DEADLOCK FALSE
