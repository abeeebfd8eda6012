---------------------------- MODULE ListingWorld ----------------------------
(***************************************************************************)
(* What the strategies that trade listings share: the detector's events,   *)
(* each a task per listener, the calendar, the pairs that Upbit trades,    *)
(* and one position per ticker on the futures venue.  The detector is its  *)
(* promise, ListingFeed, which ListingDetector implements.                 *)
(***************************************************************************)
EXTENDS Integers, FiniteSetsExt

CONSTANTS
    Tickers,
    Notices,      \* the listings announced
    Source,       \* Source[n]: "upbit" or "bithumb"
    About,        \* About[n]: its ticker
    Combos,       \* the sets of services the environment may enable together
    Full,         \* what an order asks for
    MaxDay        \* bound: midnights

ASSUME WorldAssumption ==
    /\ Source \in [Notices -> {"upbit", "bithumb"}]
    /\ About \in [Notices -> Tickers]
    /\ Combos \subseteq SUBSET {"short", "long", "follower"}
    /\ Full \in Nat \ {0} /\ MaxDay \in Nat
    /\ IsFiniteSet(Tickers) /\ Tickers # {}

VARIABLES
    started,    \* the services main has started
    announced,  \* announced[n]: the events of n
    inbox,      \* the listeners' tasks that have not run: <<service, notice>>
    day,        \* the midnights that have passed
    upbit,      \* the tickers Upbit trades
    sold,       \* sold[t]: what the executor has sold and not bought back
    bought      \* bought[t]: what the cross-listing service has bought and not sold

worldVars == <<started, announced, inbox, day, upbit, sold, bought>>

Feed == INSTANCE ListingFeed WITH Listings <- Notices, torn <- FALSE

WorldInit ==
    /\ started \in Combos
    /\ announced = [n \in Notices |-> 0]
    /\ inbox = {} /\ day = 0 /\ upbit = {}
    /\ sold = [t \in Tickers |-> 0]
    /\ bought = [t \in Tickers |-> 0]

\* _dispatch_listeners: a task per listener.
Announce(n) ==
    /\ Feed!Announce(n)
    /\ inbox' = inbox \cup (started \X {n})
    /\ UNCHANGED <<started, day, upbit, sold, bought>>

Midnight ==
    /\ day < MaxDay /\ day' = day + 1
    /\ UNCHANGED <<started, announced, inbox, upbit, sold, bought>>

\* Upbit opens the market of a ticker.
UpbitLists(t) ==
    /\ t \notin upbit /\ upbit' = upbit \cup {t}
    /\ UNCHANGED <<started, announced, inbox, day, sold, bought>>

WorldNext ==
    \/ \E n \in Notices : Announce(n)
    \/ Midnight
    \/ \E t \in Tickers : UpbitLists(t)

-----------------------------------------------------------------------------
(* The futures venue: one net position per ticker. *)

\* What a reduce-only order to buy, or to sell, can still do.
ToBuy(t) == Max({0, sold[t] - bought[t]})
ToSell(t) == Max({0, bought[t] - sold[t]})
\* What an order for q may come to: filled in whole, in part or not at all.
Fills(q) == 0..q

-----------------------------------------------------------------------------
(* What the world keeps *)

WorldTypeOK ==
    /\ started \in Combos /\ announced \in [Notices -> 0..1]
    /\ inbox \subseteq started \X Notices
    /\ day \in 0..MaxDay /\ upbit \subseteq Tickers
    /\ sold \in [Tickers -> Nat] /\ bought \in [Tickers -> Nat]

\* A task that waits has a notice that was announced.
InboxInv == \A x \in inbox : announced[x[2]] = 1
=============================================================================
