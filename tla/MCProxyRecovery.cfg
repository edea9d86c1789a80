SPECIFICATION FairSpec
PROPERTIES
    Termination
    Recovery
    RotationLedger
    IsFailover
CONSTANTS
    Accounts = {a1}
    NoAccount = NoAccount
    Priority <- MCPriority
    Weight <- MCWeight
    NameRank <- MCRank
    FAILURE_THRESHOLD = 2
    FAILURE_BACKOFF = 1
    MAX_BACKOFF = 1
    DEFAULT_WAIT = 1
    ONE_DAY = 9
    Requests = {r1}
    Probers = {scheduler}
    Operator = Operator
    NoWriter = NoWriter
    MaxAttempts = 2
    Strategy = "round_robin"
    Sticky = FALSE
    MAX_REFRESH_FAILURES = 2
    RRPeriod = 1
    Initial = {a1}
    OAuth = {a1}
    Unsupported = {}
    Pinned <- NotPinned
    Answers = {"relay", "limited", "error", "transport", "rejected", "broken"}
    HeaderChoices <- PlainHeaders
    RetryAfters <- NoRetryAfter
    OperatorChanges = {"enable", "disable", "delete"}
    HealthChanges = TRUE
    a1 = a1
    a2 = a2
    a3 = a3
    r1 = r1
    r2 = r2
    r3 = r3
