SPECIFICATION Spec
INVARIANTS
    OldSessionsEnd
    AuditKeepsNewest
PROPERTIES
    EndedSessionsChangeNothing
    ConfirmsWhatWasChecked
CONSTANTS
    Requests = {r1, r2}
    NoRequest = NoRequest
    Local = {r1}
    Keep = 2
    MaxEvents = 4
    r1 = r1
    r2 = r2
