SPECIFICATION PreFairSpec
CONSTANTS
    t1 = t1
    t2 = t1
    n1 = n1
    n2 = n2
    n3 = n3
    Tickers <- MCTickers
    Sources <- MCSources
    Notices <- MCNotices
    From <- MCFrom
    About <- MCAbout
    Kind <- MCKind
    MaxDay = 1
    Jobs = {1, 2}
    Users = {u, v}
    MaxOpen = 2
    DayCap = 1
    PerDay = 1
    Tears = TRUE
    Runs = {"pre", "hack"}
    MaxCrashes = 1
 
INVARIANT ClosedOnce
INVARIANT HackedOnce
 
PROPERTY HoldsEnd
CHECK_DEADLOCK FALSE
