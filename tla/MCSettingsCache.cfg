SPECIFICATION FairSpec
INVARIANTS
    StalenessBounded
    NeverUncommitted
PROPERTY
    Converges
CONSTANTS
    Requests = {r1, r2, r3}
    NoRequest = NoRequest
    Workers = {w1, w2}
    WorkerOf <- TwoWorkers
    TTL = 2
    MaxLoad = 1
    MaxVersion = 2
    r1 = r1
    r2 = r2
    r3 = r3
    w1 = w1
    w2 = w2
