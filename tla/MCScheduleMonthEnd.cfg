SPECIFICATION Spec
CONSTANTS
    Users = {"london", "abroad"}
    Offsets <- MCOffsets
    Engines = {"psmdb", "postgresql"}
    Names = {"a", "b"}
    Forms <- MCForms
    FirstTimes <- MCFirstTimes
    MaxSaves = 2
    MaxChanges = 1
PROPERTIES
    SchedulesStay
CHECK_DEADLOCK FALSE
