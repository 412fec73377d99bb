SPECIFICATION FairFormsSpec
CONSTANTS
    Devices = {v1}
    Pages = {"statistics"}
    Browsers = {b1}
    Minute = 2
    Policies <- MCPolicies
    Gates <- MCGates
    Overrides <- MCOverrides
    Bonuses <- MCBonuses
    Week = 2
    MaxDay = 1
    MaxChanges = 2
    None = None
INVARIANTS
    FormsTypeOK
    LastEditStands
PROPERTIES
    OneRegister
    DevicesLearnTheLimit
    PageIsOneMoment
