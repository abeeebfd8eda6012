--------------------------- MODULE MCHedgeClients ---------------------------
(* Two tickers; of the first, two sources have news, one of each kind. *)
EXTENDS HedgeClients, TLC

CONSTANTS t1, t2, n1, n2, n3

MCTickers == {t1, t2}
MCSources == {"upbit", "bithumb"}
MCNotices == {n1, n2, n3}
MCFrom == [n \in MCNotices |-> IF n = n2 THEN "bithumb" ELSE "upbit"]
MCAbout == [n \in MCNotices |-> IF n = n3 THEN t2 ELSE t1]
MCKind == (n1 :> "hedge") @@ (n2 :> "short") @@ (n3 :> "none")
=============================================================================
