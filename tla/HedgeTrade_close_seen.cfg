SPECIFICATION Spec
CONSTANTS
    w1 = w1
    w2 = w2
    h1 = h1
    h2 = h2
    t1 = t1
    e1 = e1
    e2 = e2
    NoExchange = NoExchange
    NoCaller = NoCaller
    Workers = {w1}
    Callers = {h1}
    Home <- Alone
    Tickers = {t1}
    Exchanges = {e1, e2}
    Asks <- AnyCall
    OperatorAt = {}
    MaxLot = 2
    MaxVolume = 2
    MaxJobs = 1
    Slip = 0
    MinFutures = 1
    LateFills = FALSE
    CrashesOn = FALSE
    TornSaves = FALSE
INVARIANTS
    CloseIsSeen
CHECK_DEADLOCK FALSE
