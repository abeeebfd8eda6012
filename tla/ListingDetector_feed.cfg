SPECIFICATION FairSpec
CONSTANTS
    u1 = u1
    u2 = u2
    u3 = u2
    b1 = b1
    b2 = b2
    Exchanges <- MCExchanges
    Notices <- MCNotices
    Page <- MCPage
    Listings <- MCListings
    SeenCap = 16
    Tears = TRUE
    MaxCrashes = 2
 
 
PROPERTY AllAnnounced
