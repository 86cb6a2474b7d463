SPECIFICATION FairSpec
CONSTANTS
    Kinds = {"cluster", "policy", "config"}
    e1 = e1
    backups = backups
    exposure = exposure
    Editors <- MCEditors
    Settings <- MCSettings
    Values <- MCValues
    RetryTimeout = 1
    MaxVersion = 4
PROPERTIES
    NoSilentOverwrite
    GivesUpInTime
    EveryUpdateEnds
CHECK_DEADLOCK FALSE
