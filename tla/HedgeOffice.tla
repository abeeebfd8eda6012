---------------------------- MODULE HedgeOffice -----------------------------
(***************************************************************************)
(* The hedge service as the strategies that call it see it: HedgeBook and  *)
(* the pairs of futures, with what a call of enter, close_job or close_ff  *)
(* may come to, and the service's other callers.                           *)
(***************************************************************************)
EXTENDS Integers, FiniteSets, Sequences

CONSTANTS
    Tickers,
    MaxDay        \* bound: midnights

ASSUME OfficeAssumption == MaxDay \in Nat

VARIABLES
    spot,       \* spot[t]: for what the open hedge of spot and futures was made, or Nothing
    pair,       \* pair[t]: a pair of futures is open
    day         \* the midnights that have passed

officeVars == <<spot, pair, day>>

Nothing == 0
Another == -1   \* neither of these: what others make

OfficeInit ==
    /\ spot = [t \in Tickers |-> Nothing]
    /\ pair = [t \in Tickers |-> FALSE]
    /\ day = 0

-----------------------------------------------------------------------------
(* What a call comes to, besides an error or an answer that is not ok, which leave the book. *)

\* enter answers ok: a new hedge, or more of the one there is.
Entered(t, for) ==
    /\ spot' = IF spot[t] = Nothing THEN [spot EXCEPT ![t] = for] ELSE spot
    /\ UNCHANGED <<pair, day>>

\* close_job answers ok when there was a hedge to close and it has tried: its refresh may
\* find it closed, or not.
ClosedSpot(t) ==
    /\ spot[t] # Nothing
    /\ spot' \in {spot, [spot EXCEPT ![t] = Nothing]}
    /\ UNCHANGED <<pair, day>>

\* close_ff likewise, of a pair of futures.
ClosedPair(t) ==
    /\ pair[t]
    /\ pair' \in {pair, [pair EXCEPT ![t] = FALSE]}
    /\ UNCHANGED <<spot, day>>

-----------------------------------------------------------------------------
\* The service's other callers, and the operator: hedges, and pairs of futures.
OthersHedge(t) == (spot[t] = Nothing /\ Entered(t, Another)) \/ ClosedSpot(t)
OthersPair(t) == pair' = [pair EXCEPT ![t] = ~ @] /\ UNCHANGED <<spot, day>>

Midnight == day < MaxDay /\ day' = day + 1 /\ UNCHANGED <<spot, pair>>
=============================================================================
