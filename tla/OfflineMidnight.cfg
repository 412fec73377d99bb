SPECIFICATION Spec
CONSTANTS
    DeadbandS = 0
    HardResetThresholdS = 1
    RegressionToleranceS = 1
    DayS = 20
    SaveIntervalS = 1
    Limits = {4}
    Grants = {0}
    HubOfflinePolicy = "capped"
    Wallclock = FALSE
    GraceS = 1
    CapS = 1
    MaxDay = 1
    MaxNow = 2
    MaxOther = 0
    MaxFaults = 2
    MaxAdmin = 0
PROPERTIES
    NeverRefunds
CHECK_DEADLOCK FALSE
