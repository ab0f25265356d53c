CONSTANTS
    G = G
    a1 = a1
    b1 = b1
    a2 = a2
    b2 = b2
    x2 = x2
    a3 = a3
    z0 = z0
    bad1 = bad1
    y1 = y1
    Genesis <- G
    NoBlock = NoBlock
    Callers = {c1, c2}
    Subscribers = {s1}
    StorageCanFail = TRUE
    KeysAvailable = FALSE
    MintCanFail = TRUE
    Blocks <- MCBlocks
    Height <- MCHeight
    Prev <- MCPrev
    Invalid <- MCInvalid
INIT Init
NEXT Next
INVARIANTS
    ChainValid
    SubscribersInOrder
