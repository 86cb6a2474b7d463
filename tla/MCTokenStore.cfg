SPECIFICATION Spec
CONSTANTS
    s1 = s1
    s2 = s2
    ta = ta
    tb = tb
    tu = tu
    Servers = {s1, s2}
    Tokens = {ta, tb, tu}
    Requests = {r1, r2}
    Unnamed = {tu}
    Exp <- MCExp
    Skew <- MCSkew
    MaxSkew = 1
    MaxRetries = 1
    MaxTime = 2
    MaxVersions = 3
INVARIANTS
    EntriesOnlyExpire
    RevokedStaysListed
PROPERTIES
    BlockedStaysBlocked
    ImplementsRevocation
    LogoutReachesEveryReplica
    LogoutEnds
CHECK_DEADLOCK FALSE
