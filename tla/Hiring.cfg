CONSTANTS
    Students = {s1}
    Jobs = {j1}
    Requests = {r1, r2}
    NewStatuses <- Accepted
    MaxRows = 3
    MaxRatings = 2
    MaxFaults = 1
    Nothing = Nothing
SPECIFICATION FairSpec
INVARIANTS TypeOK DuplicatesBounded ListingCurrent AverageExplained
PROPERTIES AveragesCatchUp
