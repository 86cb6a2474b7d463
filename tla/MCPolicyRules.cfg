SPECIFICATION Spec
CONSTANTS
    FormInputs <- MCFormInputs
    FirstConfig <- MCFirstConfig
    Foreign <- MCForeign
    MaxRules = 2
    MaxVersion = 3
    MaxSaves = 3
INVARIANTS
    TypeOK
    WellFormed
PROPERTIES
    SaveIsExact
    OthersSurvive
CHECK_DEADLOCK FALSE
