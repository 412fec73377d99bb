SPECIFICATION Spec
CONSTANTS
    anna = anna
    ben = ben
    laptop = laptop
    tower = tower
    Devices = {laptop}
    UserOrder <- TwoUsers
    MaxPending = 1
    Midnight = 3
    MaxNow = 3
    MaxFaults = 0
INVARIANT
    NoActivityLost
CHECK_DEADLOCK FALSE
