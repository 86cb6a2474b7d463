SPECIFICATION PitrSpec
CONSTANTS
    Second = 4
    Backups = {b1, b2}
    Engine = "postgresql"
    Enabled = TRUE
    Reliable = FALSE
    UploadInterval = 0
    Default <- MCDefault
    MaxTime = 14
INVARIANTS
    WindowRestorable
CHECK_DEADLOCK FALSE
