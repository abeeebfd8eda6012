---------------------------- MODULE MCHedgeTrade ----------------------------
(* Small instances of HedgeTrade: who runs where, and what is symmetric.   *)
EXTENDS HedgeTrade, TLC

CONSTANTS w1, w2, h1, h2, t1, e1, e2

\* One process with two coroutines.
OneWorker == (h1 :> w1) @@ (h2 :> w1)
\* "uvicorn ... --workers 2": a coroutine in each of two processes.
TwoWorkers == (h1 :> w1) @@ (h2 :> w2)
\* One process, one coroutine.
Alone == (h1 :> w1)

Enter(e) == [op |-> "enter", t |-> t1, ex |-> e]
Close == [op |-> "close", t |-> t1, ex |-> NoExchange]
Refresh(e) == [op |-> "refresh", t |-> t1, ex |-> e]

\* Two coroutines that enter on two exchanges and close: the auto trigger, which
\* always uses one exchange, and the API, which may name another.
TwoEntrants == (h1 :> {Enter(e1), Close}) @@ (h2 :> {Enter(e2), Refresh(NoExchange)})
\* Entries on two exchanges, and the refresh that sees a hedge closed.
RivalEntries == (h1 :> {Enter(e1)}) @@ (h2 :> {Enter(e2), Refresh(NoExchange)})
\* Entries on either exchange, and refreshes.
OpenAndRefresh == (h1 :> {Enter(e1), Enter(e2), Refresh(NoExchange)})
\* Any call of the API, one after the other.
AnyCall == (h1 :> {Enter(e1), Enter(e2), Close, Refresh(NoExchange), Refresh(e1), Refresh(e2)})

=============================================================================
