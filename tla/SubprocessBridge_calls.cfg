SPECIFICATION FairSpec
CONSTANTS
    w1 = w1
    w2 = w2
    h1 = h1
    h2 = h2
    h3 = h3
    x = x
    Wrappers = {w1}
    Exchange <- OneExchange
    Callers = {h1, h2}
    Uses <- AllUseOne
    Owner <- OneOwner
    MaxCalls = 4
    MaxBridges = 2
    Exits = TRUE
    Prints = TRUE
INVARIANTS
    OneBridge
    OwnId
    BridgeInv
PROPERTIES
    CallsEnd
CHECK_DEADLOCK FALSE
