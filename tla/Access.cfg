SPECIFICATION Spec
CONSTANTS
    ann = ann
    bob = bob
    cal = cal
    c1 = c1
    k1 = k1
    k2 = k2
    Admin = ann
    Owner = bob
    Users = {ann, bob, cal}
    NoUser = NoUser
    SdkClients = {c1}
    NoClient = NoClient
    Calls = {k1, k2}
    NoCall = NoCall
    Rule <- HereOnly
    Addresses = {"near", "far"}
    Roles = {"admin", "reader", "guest"}
    Permissions = {"read"}
    Workloads <- AllWorkloads
    MaxChallenges = 2
SYMMETRY Alike
INVARIANTS TypeOK RevokedRefused ChallengeOnce WithinLimit
PROPERTIES ImplementsSessions DisabledHaveNoRole GrantsOnlyAdd
CHECK_DEADLOCK FALSE
