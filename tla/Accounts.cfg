CONSTANTS
    Users = {u1}
    Requests = {r1, r2}
    Tokens = {t1, t2}
    NoRow = NoRow
    NoToken = NoToken
    Nobody = Nobody
    MaxFaults = 1
SPECIFICATION FairSpec
INVARIANTS TypeOK ResetsBounded LatestLinkLives RowKept
PROPERTIES LinksDie
