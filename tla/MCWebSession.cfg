SPECIFICATION Spec
CONSTANTS
    t1 = t1
    t2 = t2
    c1 = c1
    c2 = c2
    ua = ua
    ub = ub
    view = view
    edit = edit
    Tabs = {t1, t2}
    Slots <- MCSlots
    Users = {ua, ub}
    Actions = {view, edit}
    FirstGrants <- MCFirstGrants
    NoUser = NoUser
    MaxTokens = 3
    MaxEvents = 3
    Past <- MCPast
INVARIANTS
    TypeOK
    OffersOnlyGranted
    LoopsEnd
PROPERTIES
    TokenLeavesDead
    PermissionsCatchUp
CHECK_DEADLOCK FALSE
