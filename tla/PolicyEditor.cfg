SPECIFICATION Spec
CONSTANTS
    HoursInDay = 3
    HourLen = 2
    Unset = Unset
    Rejected = Rejected
    ApiDays <- AllDays
    Windows <- WindowsDef
INVARIANTS
    TypeOK
    DeviceGetsWhatWasAsked
    ReassembledExactly
PROPERTIES
    UntouchedSaveKeepsExpressible
CHECK_DEADLOCK FALSE
