SPECIFICATION Spec
CONSTANTS
    NoRequest = none
    Interval = 2
    MaxPurge = 2
    MaxEngines = 2
    HotUnlock = FALSE
    Requests = {r1, r2}
INVARIANTS UntamperedLedgerVerifies
CHECK_DEADLOCK FALSE
