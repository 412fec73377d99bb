SPECIFICATION Spec
CONSTANTS
    anna = anna
    ben = ben
    laptop = laptop
    tower = tower
    Devices = {laptop, tower}
    UserOrder <- OneUser
    MaxPending = 1
    Midnight = 3
    MaxNow = 3
    MaxFaults = 2
INVARIANTS
    TypeOK
    BurnOnce
    NoActivityLost
SYMMETRY Interchangeable
CHECK_DEADLOCK FALSE
