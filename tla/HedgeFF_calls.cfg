SPECIFICATION Spec
CONSTANTS
    user = user
    other = other
    Callers = {user, other}
    T = T
    Tickers = {T}
    fine = fine
    coarse = coarse
    Venues = {fine, coarse}
    Lot <- MCLot
    Size = 2
    Quiet = {"reduce"}
    None = None
    MaxJobs = 2
    MaxCrashes = 1
SYMMETRY CallersAlike

    
PROPERTIES
    OpensApart
    BookSpec
CHECK_DEADLOCK FALSE
