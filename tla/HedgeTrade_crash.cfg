SPECIFICATION Spec
CONSTANTS
    w1 = w1
    w2 = w2
    h1 = h1
    h2 = h2
    t1 = t1
    e1 = e1
    e2 = e2
    NoExchange = NoExchange
    NoCaller = NoCaller
    Workers = {w1}
    Callers = {h1, h2}
    Home <- OneWorker
    Tickers = {t1}
    Exchanges = {e1, e2}
    Asks <- RivalEntries
    OperatorAt = {e1}
    MaxLot = 2
    MaxVolume = 2
    MaxJobs = 2
    Slip = 0
    MinFutures = 1
    LateFills = FALSE
    CrashesOn = TRUE
    TornSaves = FALSE
INVARIANTS
    Inv
    
PROPERTIES
    BookSpec
CHECK_DEADLOCK FALSE
