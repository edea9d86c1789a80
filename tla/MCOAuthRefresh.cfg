SPECIFICATION FairSpec
INVARIANTS
    TypeOK
    NoReplay
    GrantsMatchNeeds
PROPERTIES
    StoreNeverGoesBack
    BreakerTrips
    CallsEnd
    IsSingleFlight
CONSTANTS
    Callers = {c1, c2}
    NoCaller = NoCaller
    MAX_REFRESH_FAILURES = 2
    Rotates = TRUE
    Lossy = TRUE
    Crashes = TRUE
    Patches = TRUE
    MaxTokens = 3
    c1 = c1
    c2 = c2
