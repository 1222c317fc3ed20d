SPECIFICATION FairSpec
CONSTANTS
    NoRequest = none
    Interval = 2
    MaxPurge = 2
    MaxEngines = 2
    HotUnlock = TRUE
    Requests = {r1, r2}
INVARIANTS AuditOnce CheckpointsSound
PROPERTIES RequestsEnd
CHECK_DEADLOCK FALSE
