SPECIFICATION Spec
CONSTANTS
    Backups = {b1, b2}
    Restores = {x1}
    Requests = {r1, r2}
    Ops = {"create", "deleteCluster", "deleteBackup", "restore"}
    Existing = {b2}
    LabelAtCreation = FALSE
    MaxRequests = 4
    MaxGiveUps = 1
    MaxWrites = 4
SYMMETRY Symmetry
INVARIANTS
    TypeOK
    ListedDataStays
    UntriedCleanupRemovesData
CHECK_DEADLOCK FALSE
