SPECIFICATION Spec
CONSTANTS
    NoRequest = none
    Interval = 2
    MaxPurge = 2
    MaxEngines = 2
    HotUnlock = TRUE
    Requests = {r1, r2}
INVARIANTS AuditComplete
CHECK_DEADLOCK FALSE
