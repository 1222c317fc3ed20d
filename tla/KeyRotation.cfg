SPECIFICATION Spec
CONSTANTS
    v1 = v1
    r1 = r1
    r2 = r2
    p1 = p1
    p2 = p2
    KeyIds = {k0, v1}
    Configured = k0
    Passphrases = {p1, p2}
    NoPassphrase = NoPassphrase
    Records = {x1}
    Requests = {r1, r2}
    NoRequest = NoRequest
    MaxKeys = 2
    MaxSealed = 1
SYMMETRY Alike
INVARIANTS TypeOK NamesTellKeys RotationsRepeat StrandedStay SharesRecover
PROPERTIES ImplementsCustody KeyFilesStay
CHECK_DEADLOCK FALSE
