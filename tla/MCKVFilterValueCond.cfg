CONSTANTS
    v1 = v1
    v2 = v2
    Vals = {v1, v2}
    Missing = Missing
    NilValue = NilValue
    MaxEntries = 3
    MaxSnapshots = 2
    StoreCanFail = TRUE
    ConcurrentWriters = FALSE
    Keys <- MCKeys
    Batches <- MCBatches
    CondHolds <- ValueCond
INIT Init
NEXT Next
INVARIANTS
    FilterMatchesGet
