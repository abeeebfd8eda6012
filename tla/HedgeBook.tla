----------------------------- MODULE HedgeBook ------------------------------
(***************************************************************************)
(* What HedgeTradeService promises of its book: a ticker is hedged on at   *)
(* most one futures exchange, and changes exchange only by closing first.  *)
(* A book may be lost as a whole, when the store's file is truncated and   *)
(* the process dies.                                                       *)
(***************************************************************************)
CONSTANTS Tickers, Exchanges, NoExchange,
          MayForget   \* may the whole book be lost?

VARIABLE active   \* active[t]: the exchange the hedge of t is on, or NoExchange

Init == active = [t \in Tickers |-> NoExchange]

Open(t, e) ==
    /\ active[t] = NoExchange
    /\ active' = [active EXCEPT ![t] = e]

Close(t) ==
    /\ active[t] # NoExchange
    /\ active' = [active EXCEPT ![t] = NoExchange]

Forget == MayForget /\ active' = [t \in Tickers |-> NoExchange]

Next ==
    \/ \E t \in Tickers : Close(t) \/ \E e \in Exchanges : Open(t, e)
    \/ Forget

Spec == Init /\ [][Next]_active
=============================================================================
