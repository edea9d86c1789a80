SPECIFICATION Spec
PROPERTIES
    CooldownHonoured
CONSTANTS
    Accounts = {a1}
    NoAccount = NoAccount
    Priority <- MCPriority
    Weight <- MCWeight
    NameRank <- MCRank
    FAILURE_THRESHOLD = 2
    FAILURE_BACKOFF = 1
    MAX_BACKOFF = 3
    DEFAULT_WAIT = 1
    ONE_DAY = 9
    Requests = {r1, r2}
    Probers = {}
    Operator = Operator
    NoWriter = NoWriter
    MaxAttempts = 2
    Strategy = "capacity_weighted"
    Sticky = FALSE
    MAX_REFRESH_FAILURES = 2
    RRPeriod = 1
    Initial = {a1}
    OAuth = {}
    Unsupported = {}
    Pinned <- NotPinned
    Answers = {"relay", "limited"}
    HeaderChoices <- SomeHeaders
    RetryAfters <- ShortOrNone
    OperatorChanges = {}
    HealthChanges = FALSE
    a1 = a1
    a2 = a2
    a3 = a3
    r1 = r1
    r2 = r2
    r3 = r3
