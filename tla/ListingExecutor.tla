-------------------------- MODULE ListingExecutor ---------------------------
(***************************************************************************)
(* ListingExecutor: shorts the perpetual of a ticker that is being listed. *)
(* The gates of an event are passed in one step; the orders are awaited    *)
(* with the ticker in _inflight_tickers.  What it knows is in memory only. *)
(***************************************************************************)
EXTENDS ListingWorld

CONSTANTS
    ShortCap,     \* daily_cap_usd, in the units of Full; Full is notional_usd
    Closers       \* callers of close

ASSUME ExecutorAssumption == ShortCap \in Nat

VARIABLES
    liveShort,    \* live_armed
    shorting,     \* the notices whose order is awaited: their tickers are in flight
    book,         \* book[t]: entry_qty of the open job, or 0
    hot,          \* the tickers in their cooldown
    shortSpent, shortDay,   \* daily_spent_usd, daily_reset_epoch
    closing       \* closing[c]: the ticker whose close c awaits, and its quantity

shortVars == <<liveShort, shorting, book, hot, shortSpent, shortDay, closing>>
NoClose == <<>>

ExecInit ==
    /\ liveShort \in BOOLEAN
    /\ shorting = {} /\ hot = {}
    /\ book = [t \in Tickers |-> 0]
    /\ shortSpent = 0 /\ shortDay = 0
    /\ closing = [c \in Closers |-> NoClose]

-----------------------------------------------------------------------------
Inflight == {About[n] : n \in shorting}

\* Mutant of Admits: the ticker in flight is not looked for.
AdmitsTwice(t) ==
    /\ t \notin hot
    /\ (IF day > shortDay THEN 0 ELSE shortSpent) + Full <= ShortCap
    /\ book[t] = 0

\* Mutant of Admits: the cap leaves out the order itself.
AdmitsOver(t) ==
    /\ t \notin Inflight
    /\ t \notin hot
    /\ (IF day > shortDay THEN 0 ELSE shortSpent) <= ShortCap
    /\ book[t] = 0

\* Gates 3, 6, 7 and the first half of 8; no perpetual, an old event, the kill switch, the
\* service disabled and a job of the hedge service may stop an event anyway.
Admits(t) ==
    /\ t \notin Inflight
    /\ t \notin hot
    /\ (IF day > shortDay THEN 0 ELSE shortSpent) + Full <= ShortCap
    /\ book[t] = 0

RollShortDay ==
    /\ shortSpent' = IF day > shortDay THEN 0 ELSE shortSpent
    /\ shortDay' = day

ShortSkips(n) ==
    /\ <<"short", n>> \in inbox
    /\ inbox' = inbox \ {<<"short", n>>}
    /\ \/ RollShortDay
       \/ UNCHANGED <<shortSpent, shortDay>>
    /\ UNCHANGED <<started, announced, day, upbit, sold, bought>>
    /\ UNCHANGED <<liveShort, shorting, book, hot, closing>>

\* _handle_listing: through the gates; a dry run is recorded at once.
ShortBegins(n) ==
    /\ <<"short", n>> \in inbox
    /\ inbox' = inbox \ {<<"short", n>>}
    /\ Admits(About[n])
    /\ RollShortDay
    /\ IF liveShort THEN shorting' = shorting \cup {n} /\ UNCHANGED hot
                    ELSE hot' = hot \cup {About[n]} /\ UNCHANGED shorting
    /\ UNCHANGED <<started, announced, day, upbit, sold, bought>>
    /\ UNCHANGED <<liveShort, book, closing>>

\* _execute_short comes back, the order filled and reported closed: the job is opened.
ShortOpens(n) ==
    /\ n \in shorting
    /\ shorting' = shorting \ {n}
    /\ LET t == About[n] IN
       \E q \in Fills(Full) \ {0} :
          /\ sold' = [sold EXCEPT ![t] = @ + q]
          /\ book' = [book EXCEPT ![t] = q]
          /\ hot' = hot \cup {t}
    /\ shortSpent' = shortSpent + Full
    /\ UNCHANGED <<started, announced, inbox, day, upbit, bought>>
    /\ UNCHANGED <<liveShort, shortDay, closing>>

\* It fails, before the order or after: what was filled is in the jsonl at most.
ShortFails(n) ==
    /\ n \in shorting
    /\ shorting' = shorting \ {n}
    /\ \E q \in Fills(Full) : sold' = [sold EXCEPT ![About[n]] = @ + q]
    /\ UNCHANGED <<started, announced, inbox, day, upbit, bought>>
    /\ UNCHANGED <<liveShort, book, hot, shortSpent, shortDay, closing>>

\* The cooldown of t is over.
Cools(t) ==
    /\ t \in hot /\ hot' = hot \ {t}
    /\ UNCHANGED worldVars
    /\ UNCHANGED <<liveShort, shorting, book, shortSpent, shortDay, closing>>

\* close reads the job, and awaits the reduce-only order.
CloseBegins(c, t) ==
    /\ "short" \in started
    /\ closing[c] = NoClose /\ book[t] > 0
    /\ closing' = [closing EXCEPT ![c] = <<t, book[t]>>]
    /\ UNCHANGED worldVars
    /\ UNCHANGED <<liveShort, shorting, book, hot, shortSpent, shortDay>>

\* The job of the ticker, whichever it is by now, goes if something was filled and the
\* order is reported closed.
CloseEnds(c) ==
    /\ closing[c] # NoClose
    /\ LET t == closing[c][1] IN
       \E q \in Fills(Min({closing[c][2], ToBuy(t)})) :
          /\ sold' = [sold EXCEPT ![t] = @ - q]
          /\ book' \in {book} \cup (IF q > 0 THEN {[book EXCEPT ![t] = 0]} ELSE {})
    /\ closing' = [closing EXCEPT ![c] = NoClose]
    /\ UNCHANGED <<started, announced, inbox, day, upbit, bought>>
    /\ UNCHANGED <<liveShort, shorting, hot, shortSpent, shortDay>>

ExecNext ==
    \/ \E n \in Notices : ShortSkips(n) \/ ShortBegins(n) \/ ShortOpens(n) \/ ShortFails(n)
    \/ \E t \in Tickers : Cools(t)
    \/ \E c \in Closers : CloseEnds(c) \/ \E t \in Tickers : CloseBegins(c, t)

-----------------------------------------------------------------------------
(* Properties *)

ExecTypeOK ==
    /\ liveShort \in BOOLEAN
    /\ shorting \subseteq Notices /\ hot \subseteq Tickers
    /\ book \in [Tickers -> 0..Full]
    /\ shortSpent \in Nat /\ shortDay \in 0..day
    /\ closing \in [Closers -> {NoClose} \cup (Tickers \X (1..Full))]

\* A ticker has one order in flight or one open job, never both nor two: no job is
\* written over another that still has its short (gates 3 and 8, and _inflight_tickers).
OneShort ==
    \A t \in Tickers :
        Cardinality({n \in shorting : About[n] = t}) + (IF book[t] > 0 THEN 1 ELSE 0) <= 1

\* The cap is checked before the orders and the money counted after: a day may pass it
\* by an order of each other ticker that was in flight, and by no more.
ShortSpentBounded ==
    shortSpent + Full * Cardinality(shorting) <= ShortCap + Full * Max({0, Cardinality(Tickers) - 1})

\* The inductive invariant of both: the tickers in flight are different ones, and have no
\* job.
ShortInv ==
    /\ IsFiniteSet(shorting)
    /\ \A m, n \in shorting : m # n => About[m] # About[n]
    /\ \A n \in shorting : book[About[n]] = 0
    /\ ShortSpentBounded
=============================================================================
