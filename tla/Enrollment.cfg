SPECIFICATION FairSpec
CONSTANTS
    Machines = {laptop}
    Terminals = {t1, t2}
    Codes = {c1, c2}
    Rows = {r1, r2, r3}
    None = None
    MaxTokens = 3
    MaxRemovals = 2
    MaxFaults = 1
INVARIANTS
    TypeOK
    CodeEnrollsOnce
PROPERTIES
    RevokeSticks
    TokensAreARegister
    FindsItsToken
CHECK_DEADLOCK FALSE
