SPECIFICATION FairSpec
CONSTANTS
    Names = {"alice", "bob"}
    Devices = {"laptop", "desktop", "tablet"}
    Requests = {"sync", "enroll", "tablet", "edit", "delete"}
    Job <- JobDef
    Known <- KnownDef
    None = None
    MaxIds = 9
INVARIANTS
    TypeOK
    CurrentIsLatest
    NobodyClashes
    AliasesAreLive
    DeadlocksAreCrossings
PROPERTIES
    EveryoneFinishes
