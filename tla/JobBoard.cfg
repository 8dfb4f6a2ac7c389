CONSTANTS
    Requests = {r1, r2}
    Crons = {c1}
    Filters <- ListedStatuses
    NewStatuses <- UpdatedStatuses
    NewDays = {2}
    ChangedDays = {1}
    PerPage = 2
    MaxPage = 2
    MaxJobs = 3
    Table <- PostedBefore
    MaxEdits = 1
    MaxDay = 1
    MaxFaults = 1
    Miss = Miss
    NoRow = NoRow
SPECIFICATION FairSpec
INVARIANTS TypeOK EditsKept StaleExplained PagesCover
PROPERTIES Deactivated
