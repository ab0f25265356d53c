CONSTANTS
    DeployHeight = 2
    MaxHeight = 9
    HandleCanFail = TRUE
    MergeCanFail = TRUE
    WriteCanFail = TRUE
    StartCanFail = TRUE
    StopCanFail = TRUE
    ReloadCanFail = TRUE
CONSTRAINT StoreLogBound
INIT Init
NEXT Next
INVARIANTS
    TypeOK
    CacheMatchesStore
    IndexExactWhileReloadsKept
PROPERTIES
    ViewIsCurrent
