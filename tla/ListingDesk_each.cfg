SPECIFICATION Spec
CONSTANTS
    t1 = t1
    t2 = t2
    b1 = b1
    u1 = u1
    u2 = u2
    Tickers <- MCTickers
    Notices <- MCNotices
    Source <- MCSource
    About <- MCAbout
    Combos <- MCCombos
    Full = 1
    MaxDay = 1
    ShortCap = 1
    Closers = {c1, c2}
    JobIds = {1, 2}
    LongCap = 1
    MaxOpen = 2
    ByHand = {t2}
    Callers = 1
    Overrides = {}
    FollowCap = 1
INVARIANT OneShort
INVARIANT ShortSpentBounded
INVARIANT BoughtOnce
INVARIANT EnteredBounded
 
CHECK_DEADLOCK FALSE
