SPECIFICATION Spec
INVARIANTS
    OwnSignIn
    LostOnlyToRace
PROPERTY LoginsEnd
CONSTANTS
    Flows = {f1, f2, f3}
    NoFlow = NoFlow
    Names = {n1, n2}
    Name <- MCName
    ManualFlows = {f3}
    Port <- MCPort
    ChecksVerifier = FALSE
    MaxStrays = 1
    MaxEdits = 2
    f1 = f1
    f2 = f2
    f3 = f3
    n1 = n1
    n2 = n2
CHECK_DEADLOCK FALSE
