SPECIFICATION Spec
CONSTANTS
    n1 = n1
    n2 = n2
    r1 = r1
    r2 = r2
    r3 = r3
    Records = {x1}
    Nodes = {n1, n2}
    Requests = {r1, r2, r3}
    NoRequest = NoRequest
    RetryMax = 2
SYMMETRY Alike
INVARIANTS TypeOK SeqUnique AckedStored AheadIsOrphaned ExhaustedAreDead NoSilentLoss FeedOrdered
PROPERTY ImplementsDelivery
CHECK_DEADLOCK FALSE
