--------------------------- MODULE MCListingDesk ----------------------------
(* Two tickers: both exchanges announce the first, Upbit alone the second. *)
EXTENDS ListingDesk

CONSTANTS t1, t2, b1, u1, u2

MCTickers == {t1, t2}
MCNotices == {b1, u1, u2}
MCSource == [n \in MCNotices |-> IF n = b1 THEN "bithumb" ELSE "upbit"]
MCAbout == [n \in MCNotices |-> IF n = u2 THEN t2 ELSE t1]
MCCombos == {{"short"}, {"long"}, {"follower"}}
=============================================================================
