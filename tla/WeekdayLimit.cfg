SPECIFICATION Spec
CONSTANTS
    open = open
    evening = evening
    Unknown = Unknown
    None = None
    WeekS = 2
    Policies <- PoliciesDef
    HourPlans <- HourPlansDef
    Unrestricted = open
    MaxDay = 1
    MaxEdits = 1
    MaxLocal = 0
    MaxFaults = 0
INVARIANT
    LimitIsTodays
CHECK_DEADLOCK FALSE
