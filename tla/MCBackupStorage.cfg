SPECIFICATION Spec
CONSTANTS
    b1 = b1
    b2 = b2
    u1 = u1
    k1 = k1
    k2 = k2
    Names = {n1, n2}
    Buckets = {b1, b2}
    Urls = {u1}
    Keys = {k1, k2}
    Granted <- MCGranted
    Edits <- MCEdits
    Requests = {r1, r2}
    MaxWrites = 4
    MaxFaults = 1
SYMMETRY Symmetry
INVARIANTS
    TypeOK
    CreatedStaysUsable
    UniqueLocation
    SecretPaired
PROPERTIES
    CredentialsGiveAccess
CHECK_DEADLOCK FALSE
