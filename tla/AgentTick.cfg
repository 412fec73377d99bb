SPECIFICATION MCSpec
CONSTANTS
    DeadbandS = 1
    HardResetThresholdS = 2
    RegressionToleranceS = 1
    DayS = 20
    SaveIntervalS = 1
    Limits = {1, 4}
    Grants = {0, 1}
    HubOfflinePolicy = "capped"
    Wallclock = FALSE
    GraceS = 1
    CapS = 1
    MaxDay = 1
    MaxNow = 3
    MaxOther = 1
    MaxFaults = 1
    MaxAdmin = 1
INVARIANTS
    TypeOK
    NeverOvercharges
    UseIsCounted
    HubBooksOnlyRealUse
PROPERTIES
    OutageIsCapped
    LandsOnTarget
    EventuallySettles
CHECK_DEADLOCK FALSE
