SPECIFICATION FairSpec
CONSTANTS
    t1 = t1
    t2 = t2
    e1 = e1
    e2 = e2
    u1 = u1
    Tickers = {t1}
    Watchlist = {t1}
    Users = {u1}
    Exchanges = {e1, e2}
    NoExchange = NoExchange
    Configured = e1
    Nominal = 2
    Cap = 3
    Cooldown = 1
    Submits = TRUE
    MaxTime = 1
    MaxDay = 1
    MaxOpened = 2
INVARIANTS
    CapHolds
    AutoInv
PROPERTIES
    LoopsTurn
    CooldownHolds
