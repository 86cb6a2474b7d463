SPECIFICATION Spec
CONSTANTS
    e1 = e1
    e2 = e2
    p1 = p1
    p2 = p2
    d1 = d1
    d2 = d2
    Engines = {e1, e2}
    Plans = {p1, p2}
    PlanOf <- OnePlan
    Late = {}
    Dbs = {d1, d2}
    EngineOf <- MCEngineOf
    Approvers = {a1}
    Writers = {}
    MaxTroubles = 1
INVARIANTS
    SuccessAlwaysMeansApproved
CHECK_DEADLOCK FALSE
