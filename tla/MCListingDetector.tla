------------------------- MODULE MCListingDetector --------------------------
(* Two exchanges, three listings, and notices of another kind.             *)
EXTENDS ListingDetector

CONSTANTS u1, u2, u3, b1, b2

MCExchanges == {"upbit", "bithumb"}
MCNotices == {u1, u2, u3, b1, b2}
MCPage == [x \in MCExchanges |-> IF x = "upbit" THEN {u1, u2, u3} ELSE {b1, b2}]
MCListings == {u1, b1, b2}
=============================================================================
