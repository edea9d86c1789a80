SPECIFICATION Spec
INVARIANTS
    OneSendPerAccount
    FailsOnlyAfterTryingUsable
    CrashesOnlyOnDelete
    GrantHoldsLock
CONSTANTS
    Accounts = {a1, a2, a3}
    NoAccount = NoAccount
    Priority <- MCPriority
    Weight <- MCWeight
    NameRank <- MCRank
    FAILURE_THRESHOLD = 2
    FAILURE_BACKOFF = 1
    MAX_BACKOFF = 3
    DEFAULT_WAIT = 1
    ONE_DAY = 9
    Requests = {r1, r2}
    Probers = {}
    Operator = Operator
    NoWriter = NoWriter
    MaxAttempts = 3
    Strategy = "capacity_weighted"
    Sticky = TRUE
    MAX_REFRESH_FAILURES = 2
    RRPeriod = 6
    Initial = {a1, a3}
    OAuth = {a2}
    Unsupported = {a3}
    Pinned <- NotPinned
    Answers = {"relay", "error", "rejected"}
    HeaderChoices <- PlainHeaders
    RetryAfters <- NoRetryAfter
    OperatorChanges = {"delete", "create"}
    HealthChanges = FALSE
    a1 = a1
    a2 = a2
    a3 = a3
    r1 = r1
    r2 = r2
    r3 = r3
