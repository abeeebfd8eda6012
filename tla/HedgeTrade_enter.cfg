SPECIFICATION FairSpec
CONSTANTS
    w1 = w1
    w2 = w2
    h1 = h1
    h2 = h2
    t1 = t1
    e1 = e1
    e2 = e2
    NoExchange = NoExchange
    NoCaller = NoCaller
    Workers = {w1}
    Callers = {h1, h2}
    Home <- OneWorker
    Tickers = {t1}
    Exchanges = {e1, e2}
    Asks <- TwoEntrants
    OperatorAt = {}
    MaxLot = 2
    MaxVolume = 2
    MaxJobs = 2
    Slip = 0
    MinFutures = 1
    LateFills = FALSE
    CrashesOn = FALSE
    TornSaves = FALSE
INVARIANTS
    OneOpenJob
    RolledBackIsFlat
PROPERTIES
    CallsReturn
    HedgeStaysPut
    
CHECK_DEADLOCK FALSE
