SPECIFICATION Spec
SYMMETRY RequestSymmetry
INVARIANTS
    StaysWarm
    MapFollowsUse
PROPERTY OnlyItsOwnMove
CONSTANTS
    Requests = {r1, r2}
    Convs = {c1, c2, c3}
    Accounts = {a1, a2, a3}
    NoAccount = NoAccount
    MaxEntries = 2
    TTL = 2
    Score <- Scores
    r1 = r1
    r2 = r2
    c1 = c1
    c2 = c2
    c3 = c3
    a1 = a1
    a2 = a2
    a3 = a3
