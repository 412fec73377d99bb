SPECIFICATION FairSpec
CONSTANTS
    open = open
    evening = evening
    Unknown = Unknown
    None = None
    WeekS = 2
    Policies <- PoliciesDef
    HourPlans <- HourPlansDef
    Unrestricted = open
    MaxDay = 1
    MaxEdits = 2
    MaxLocal = 1
    MaxFaults = 1
INVARIANTS
    TypeOK
    AppliedIsHeld
PROPERTIES
    EventuallyAcknowledged
CHECK_DEADLOCK FALSE
