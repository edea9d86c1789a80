SPECIFICATION Spec
SYMMETRY SlotSymmetry
INVARIANTS
    TrendComplete
    BilledInFull
    BudgetBounded
    TotalsAgree
CONSTANTS
    Slots = {s1, s2}
    Keys = {k1}
    NoKey = NoKey
    NoWriter = NoWriter
    Limit = 1
    Window = 1
    Retention = 2
    TicksPerDay = 2
    Spans = {1}
    MaxNow = 3
    MaxServed = 3
    k1 = k1
    s1 = s1
    s2 = s2
