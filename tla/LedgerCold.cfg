SPECIFICATION Spec
CONSTANTS
    NoRequest = none
    Interval = 2
    MaxPurge = 2
    MaxEngines = 2
    HotUnlock = FALSE
    Requests = {r1, r2, r3}
SYMMETRY Symmetry
INVARIANTS TypeOK LogContiguous LogLinked PersistedIsPrefix AuditComplete WritesNeverCollide OwnEntriesVerify
PROPERTIES ImplementsAuditTrail
CHECK_DEADLOCK FALSE
