SPECIFICATION Spec
CONSTANTS
    e1 = e1
    e2 = e2
    p1 = p1
    p2 = p2
    d1 = d1
    d2 = d2
    Engines = {e1, e2}
    Plans = {p1, p2}
    PlanOf <- OnePlan
    Late = {e2}
    Dbs = {d1}
    EngineOf <- MCEngineOf
    Approvers = {a1, a2}
    Writers = {w1}
    MaxTroubles = 1
INVARIANTS
    TypeOK
    UpgradeUnderLock
    SuccessMeansApproved
PROPERTIES
    RefusalUnlocks
    LockReleased
CHECK_DEADLOCK FALSE
