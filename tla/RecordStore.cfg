SPECIFICATION Spec
CONSTANTS
    x1 = x1
    x2 = x2
    u1 = u1
    r1 = r1
    r2 = r2
    r3 = r3
    r4 = r4
    Records = {x1, x2}
    Users = {u1}
    Requests = {r1, r2, r3, r4}
    NoRequest = NoRequest
    Owner <- MCOwner
    Size <- MCSize
    Limited = {u1}
    Quota = 2
SYMMETRY AnyRequest
INVARIANTS TypeOK LiveHasBlob RemovedForGood OrphansFromPuts QuotaUnlessRaced
PROPERTIES NeverBack ImplementsVault
CHECK_DEADLOCK FALSE
