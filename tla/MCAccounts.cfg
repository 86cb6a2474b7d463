SPECIFICATION AccountsSpec
CONSTANTS
    Users = {admin, bob}
    Passwords = {pa, pb}
    InitialAdmin = admin
    InitialPassword = pa
    Clients = {c1, c2}
    Replicas = {s1}
    Ops = {"create", "set", "delete"}
    MaxWrites = 2
    MaxLost = 1
INVARIANTS
    PasswordWorksUnlessDeleteRaced
PROPERTIES
    InsertKeepsItsCheck
    
CHECK_DEADLOCK FALSE
