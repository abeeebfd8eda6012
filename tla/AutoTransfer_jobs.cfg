SPECIFICATION FairSpec
CONSTANTS
    Loop = loop
    Users = {u1}
    Clerks = {c1, c2}
    Callers = {loop, u1, c1, c2}
    Casts = {{loop, u1}, {c1, c2}}
    NoOne = NoOne
    Tickers = {t1}
    Cap = 1
    MaxJobs = 2
    MaxTokens = 2
    MaxRequests = 2
    MaxCrashes = 1
INVARIANTS
    SentOnce
    OneTransfer
    WithdrawingWasSent
PROPERTIES
    WaitsEnd
