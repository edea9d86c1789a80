SPECIFICATION Spec
INVARIANTS
    SelectionComplete
    AffinityYields
    SparesSpentAccounts
    RoundRobinFair
CONSTANTS
    Accounts = {a1, a2, a3}
    NoAccount = NoAccount
    Priority <- MCPriority
    Weight <- MCWeight
    NameRank <- MCRank
    FAILURE_THRESHOLD = 3
    FAILURE_BACKOFF = 30
    MAX_BACKOFF = 900
    DEFAULT_WAIT = 60
    ONE_DAY = 86400
    RRPeriod = 6
    a1 = a1
    a2 = a2
    a3 = a3
CHECK_DEADLOCK FALSE
