----------------------------- MODULE AutoHedge ------------------------------
(***************************************************************************)
(* AutoTriggerService, which opens hedges, AutoExitService, which closes   *)
(* them, and the API's callers, over one HedgeTradeService: a loop each,   *)
(* one lock between them, and a safety gate with a daily cap and a cool-   *)
(* down per ticker.  The service is its promise, HedgeBook, which          *)
(* HedgeTrade implements; what each of its calls can come to is a choice.  *)
(***************************************************************************)
EXTENDS Integers, Sequences, FiniteSetsExt

CONSTANTS
    Tickers,
    Watchlist,    \* the tickers of cfg.watchlist; the others are scanned
    Users,        \* callers of the API
    Exchanges,
    NoExchange,
    Configured,   \* cfg.futures_exchange
    Nominal,      \* cfg.nominal_usd
    Cap,          \* cfg.daily_cap_usd
    Cooldown,     \* cfg.per_ticker_cooldown_min
    Submits,      \* AUTO_EXIT_SUBMIT_CLOSE
    MaxTime,      \* bound: units of time
    MaxDay,       \* bound: midnights
    MaxOpened     \* bound: hedges, of all tickers together

ASSUME AutoAssumption ==
    /\ Watchlist \subseteq Tickers
    /\ Configured \in Exchanges /\ NoExchange \notin Exchanges
    /\ {Nominal, Cap, Cooldown, MaxTime, MaxDay, MaxOpened} \subseteq Nat
    /\ Submits \in BOOLEAN
    /\ {"trigger", "exit"} \cap Users = {}

VARIABLES
    now,        \* the clock
    day,        \* the midnights that have passed
    allowed,    \* cfg.enabled, and no kill-switch file
    dryRun,     \* cfg.dry_run
    spent,      \* daily_spent_usd
    resetDay,   \* daily_reset_epoch
    lastEntry,  \* lastEntry[t]: last_entry_ts_per_ticker
    trig,       \* where the trigger's loop is
    todo,       \* the tickers the trigger has still to look at in this tick
    wide,       \* the tick is past the watchlist
    exit,       \* where the loop of the auto exit is
    left,       \* the hedges it has still to check, as it listed them
    judged,     \* the hedge it is about: <<ticker, number>>
    queue,      \* the calls of the service: the first has the lock
    trading,    \* the first has passed its checks and awaits the venues
    active,     \* active[t]: the exchange t is hedged on, or NoExchange
    opened,     \* opened[t]: hedges of t so far, so that each has a number
    entered     \* history: entered[d], what the trigger's entries of day d come to

clockVars == <<now, day>>
cfgVars == <<allowed, dryRun>>
gateVars == <<spent, resetDay, lastEntry, entered>>
trigVars == <<trig, todo, wide>>
exitVars == <<exit, left, judged>>
callVars == <<queue, trading>>
bookVars == <<active, opened>>
vars == <<clockVars, cfgVars, gateVars, trigVars, exitVars, callVars, bookVars>>

Book == INSTANCE HedgeBook WITH MayForget <- FALSE

-----------------------------------------------------------------------------
Days == 0..MaxDay
\* An entry so long ago that no cooldown is left of it.
Never == -Cooldown
Calling(by) == \E i \in DOMAIN queue : queue[i].by = by
Requests == [by: Users \cup {"trigger", "exit"}, op: {"enter", "close", "refresh"},
             t: Tickers, e: Exchanges \cup {NoExchange}]
Call(by, op, t, e) == [by |-> by, op |-> op, t |-> t, e |-> e]
NoHedge == <<>>

Init ==
    /\ now = 0 /\ day = 0
    /\ allowed \in BOOLEAN /\ dryRun \in BOOLEAN
    /\ spent = 0 /\ resetDay = 0
    /\ lastEntry = [t \in Tickers |-> Never]
    /\ trig = "asleep" /\ todo = {} /\ wide = FALSE
    /\ exit = "asleep" /\ left = {} /\ judged = NoHedge
    /\ queue = <<>> /\ trading = FALSE
    /\ active = [t \in Tickers |-> NoExchange]
    /\ opened = [t \in Tickers |-> 0]
    /\ entered = [d \in Days |-> 0]

-----------------------------------------------------------------------------
(* The world: time, the operator's switches, the API's callers. *)

Tick ==
    /\ now < MaxTime
    /\ now' = now + 1
    /\ UNCHANGED <<day, cfgVars, gateVars, trigVars, exitVars, callVars, bookVars>>

Midnight ==
    /\ day < MaxDay
    /\ day' = day + 1
    /\ UNCHANGED <<now, cfgVars, gateVars, trigVars, exitVars, callVars, bookVars>>

\* set_dry_run, set_enabled, and the kill-switch file made or removed.
Switch ==
    /\ allowed' \in BOOLEAN /\ dryRun' \in BOOLEAN
    /\ UNCHANGED <<clockVars, gateVars, trigVars, exitVars, callVars, bookVars>>

\* Mutant of Enqueue: the last to come is let in first.
EnqueueFirst(c) ==
    queue' = IF queue = <<>> THEN <<c>> ELSE <<Head(queue), c>> \o Tail(queue)

\* asyncio.Lock lets its waiters in in the order they came.
Enqueue(c) == queue' = Append(queue, c)

UserCalls(u) ==
    /\ ~Calling(u)
    /\ \E t \in Tickers :
          \/ \E e \in Exchanges : Enqueue(Call(u, "enter", t, e))
          \/ \E op \in {"close", "refresh"} : Enqueue(Call(u, op, t, NoExchange))
    /\ UNCHANGED <<clockVars, cfgVars, gateVars, trigVars, exitVars, trading, bookVars>>

-----------------------------------------------------------------------------
(* SafetyGate. *)

\* _maybe_rollover_daily, and what is spent then: s in all, or only what is new.
Rollover(before, new) ==
    /\ spent' = (IF day > resetDay THEN 0 ELSE before) + new
    /\ resetDay' = IF day > resetDay THEN day ELSE resetDay

\* Mutant of RecordEntry: yesterday's account is not closed first.
RecordEntryLate(t) ==
    /\ spent' = spent + Nominal
    /\ lastEntry' = [lastEntry EXCEPT ![t] = now]
    /\ entered' = [entered EXCEPT ![day] = @ + Nominal]
    /\ UNCHANGED resetDay

RecordEntry(t) ==
    /\ Rollover(spent, Nominal)
    /\ lastEntry' = [lastEntry EXCEPT ![t] = now]
    /\ entered' = [entered EXCEPT ![day] = @ + Nominal]

Spent == IF day > resetDay THEN 0 ELSE spent

\* Mutant of CanEnter: the cooldown is not looked at.
CanEnterHot(t) == allowed /\ Spent + Nominal <= Cap

\* can_enter; no loss is ever recorded with the gate, so it never halts.
CanEnter(t) ==
    /\ allowed
    /\ Spent + Nominal <= Cap
    /\ now - lastEntry[t] >= Cooldown

\* The gate is read for the status page, or for a ticker it blocks.
Status ==
    /\ day > resetDay
    /\ Rollover(spent, 0)
    /\ UNCHANGED <<clockVars, cfgVars, lastEntry, entered, trigVars, exitVars, callVars, bookVars>>

-----------------------------------------------------------------------------
(* AutoTriggerService._loop. *)

TriggerWakes ==
    /\ trig = "asleep" /\ allowed
    /\ trig' = "looking" /\ todo' = Watchlist /\ wide' = FALSE
    /\ UNCHANGED <<clockVars, cfgVars, gateVars, exitVars, callVars, bookVars>>

\* The gap of t is below the threshold and the gate is open; the tickers it looked
\* at before t were not so.
Triggers(t) ==
    /\ trig = "looking" /\ t \in todo
    /\ CanEnter(t) /\ Rollover(spent, 0)
    /\ active[t] = NoExchange
    /\ todo' \in SUBSET (todo \ {t})
    /\ UNCHANGED <<clockVars, cfgVars, lastEntry, entered, wide, exitVars, bookVars>>

\* A dry run sends a message only.
TriggerReports(t) ==
    /\ Triggers(t) /\ dryRun
    /\ trig' = "notifying"
    /\ UNCHANGED callVars

TriggerEnters(t) ==
    /\ Triggers(t) /\ ~dryRun
    /\ trig' = "entering"
    /\ Enqueue(Call("trigger", "enter", t, Configured))
    /\ UNCHANGED trading

\* The wide scan, over what the poller has outside the watchlist.
TriggerScans ==
    /\ trig = "looking" /\ ~wide
    /\ wide' = TRUE /\ todo' \in SUBSET (Tickers \ Watchlist)
    /\ UNCHANGED <<clockVars, cfgVars, gateVars, trig, exitVars, callVars, bookVars>>

TriggerSleeps ==
    /\ trig = "looking" /\ wide
    /\ trig' = "asleep" /\ todo' = {}
    /\ UNCHANGED <<clockVars, cfgVars, gateVars, wide, exitVars, callVars, bookVars>>

\* The message is sent, or is not: errors are logged.
TriggerNotified ==
    /\ trig = "notifying"
    /\ trig' = "looking"
    /\ UNCHANGED <<clockVars, cfgVars, gateVars, todo, wide, exitVars, callVars, bookVars>>

-----------------------------------------------------------------------------
(* AutoExitService._loop. *)

ExitWakes ==
    /\ exit = "asleep"
    /\ exit' = "looking"
    /\ left' = {<<t, opened[t]>> : t \in {u \in Tickers : active[u] # NoExchange}}
    /\ UNCHANGED <<clockVars, cfgVars, gateVars, trigVars, judged, callVars, bookVars>>

\* _check_job: the gap of the hedge has converged or the hedge is old.  What it was
\* listed as is not looked at again before the service is called.
ExitChecks(j) ==
    /\ exit = "looking" /\ j \in left
    /\ left' = left \ {j} /\ judged' = j
    /\ \/ /\ Submits
          /\ exit' = "closing" /\ Enqueue(Call("exit", "close", j[1], NoExchange))
       \/ /\ exit' = "refreshing" /\ Enqueue(Call("exit", "refresh", j[1], NoExchange))
    /\ UNCHANGED <<clockVars, cfgVars, gateVars, trigVars, trading, bookVars>>

\* No price, or neither converged nor old.
ExitPasses(j) ==
    /\ exit = "looking" /\ j \in left
    /\ left' = left \ {j}
    /\ UNCHANGED <<clockVars, cfgVars, gateVars, trigVars, exit, judged, callVars, bookVars>>

ExitSleeps ==
    /\ exit = "looking" /\ left = {}
    /\ exit' = "asleep" /\ judged' = NoHedge
    /\ UNCHANGED <<clockVars, cfgVars, gateVars, trigVars, left, callVars, bookVars>>

ExitNotified ==
    /\ exit \in {"closed", "failed", "warning"}
    /\ exit' = "looking"
    /\ UNCHANGED <<clockVars, cfgVars, gateVars, trigVars, left, judged, callVars, bookVars>>

-----------------------------------------------------------------------------
(* HedgeTradeService, as far as its callers can tell. *)

First == Head(queue)
Release == queue' = Tail(queue) /\ trading' = FALSE

\* What the trigger makes of the answer.
TriggerReturns(t, answer) ==
    /\ trig' = "notifying"
    /\ IF answer = "ok" THEN RecordEntry(t) ELSE UNCHANGED gateVars

\* What the auto exit makes of it: the answer to a refresh never says "closed".
ExitReturns(op, answer) ==
    exit' = CASE op = "close" /\ answer = "ok"      -> "closed"
              [] op = "close" /\ answer = "raised"  -> "failed"
              [] op = "refresh" /\ answer = "ok"    -> "warning"
              [] OTHER                             -> "looking"

\* The first call is answered, and the one who called goes on at once.
Answer(answer) ==
    /\ Release
    /\ IF First.by = "trigger"
       THEN TriggerReturns(First.t, answer)
       ELSE UNCHANGED <<trig, gateVars>>
    /\ IF First.by = "exit" THEN ExitReturns(First.op, answer) ELSE UNCHANGED exit
    /\ UNCHANGED <<clockVars, cfgVars, todo, wide, left, judged>>

\* The checks of enter, close_job and refresh_latest_job under the lock.
Passes(c) ==
    IF c.op = "enter" THEN active[c.t] \in {NoExchange, c.e} ELSE active[c.t] # NoExchange

Begin ==
    /\ queue # <<>> /\ ~trading
    /\ Passes(First)
    /\ trading' = TRUE
    /\ UNCHANGED <<clockVars, cfgVars, gateVars, trigVars, exitVars, queue, bookVars>>

\* Refused, or an entry without a price.  A refresh that finds no hedge says ok.
Refuse ==
    /\ queue # <<>> /\ ~trading
    /\ Passes(First) => First.op = "enter"
    /\ Answer(IF First.op = "refresh" THEN "ok" ELSE "refused")
    /\ UNCHANGED bookVars

\* A new hedge, or more of the one there is.
EnterFilled ==
    /\ queue # <<>> /\ trading /\ First.op = "enter"
    /\ Answer("ok")
    /\ IF active[First.t] = NoExchange
       THEN /\ MapThenSumSet(LAMBDA t : opened[t], Tickers) < MaxOpened
            /\ Book!Open(First.t, First.e)
            /\ opened' = [opened EXCEPT ![First.t] = @ + 1]
       ELSE UNCHANGED bookVars

\* One side or none was filled; orders were sent all the same.
EnterFailed ==
    /\ queue # <<>> /\ trading /\ First.op = "enter"
    /\ Answer("refused")
    /\ UNCHANGED bookVars

\* Both sides are seen closed, by the call itself or by the operator before it.
ClosedSeen ==
    /\ queue # <<>> /\ trading /\ First.op \in {"close", "refresh"}
    /\ Answer("ok")
    /\ Book!Close(First.t)
    /\ UNCHANGED opened

StillOpen ==
    /\ queue # <<>> /\ trading /\ First.op \in {"close", "refresh"}
    /\ Answer("ok")
    /\ UNCHANGED bookVars

\* An exception leaves the service: each of its callers catches it.
CallRaises ==
    /\ queue # <<>> /\ trading
    /\ Answer("raised")
    /\ UNCHANGED bookVars

\* The process is restarted: all of this but the book was in its memory.
Restart ==
    /\ spent' = 0 /\ resetDay' = day
    /\ lastEntry' = [t \in Tickers |-> Never]
    /\ entered' = [d \in Days |-> 0]
    /\ trig' = "asleep" /\ todo' = {} /\ wide' = FALSE
    /\ exit' = "asleep" /\ left' = {} /\ judged' = NoHedge
    /\ queue' = <<>> /\ trading' = FALSE
    /\ allowed' \in BOOLEAN /\ dryRun' \in BOOLEAN
    /\ UNCHANGED <<clockVars, bookVars>>

-----------------------------------------------------------------------------
Service == Begin \/ Refuse \/ EnterFilled \/ EnterFailed \/ ClosedSeen \/ StillOpen \/ CallRaises

Trigger ==
    \/ TriggerScans \/ TriggerSleeps \/ TriggerNotified
    \/ \E t \in Tickers : TriggerReports(t) \/ TriggerEnters(t)

Exit ==
    \/ ExitSleeps \/ ExitNotified
    \/ \E t \in Tickers, n \in 1..MaxOpened : ExitChecks(<<t, n>>) \/ ExitPasses(<<t, n>>)

World == Tick \/ Midnight \/ Switch \/ Status \/ Restart \/ \E u \in Users : UserCalls(u)

Next == World \/ TriggerWakes \/ ExitWakes \/ Trigger \/ Exit \/ Service

Spec == Init /\ [][Next]_vars

\* The venues and the messenger answer, and the event loop runs who is ready.
Fairness == WF_vars(Trigger) /\ WF_vars(Exit) /\ WF_vars(Service)
FairSpec == Spec /\ Fairness

-----------------------------------------------------------------------------
(* Properties. *)

\* Type invariant: the loops are where a loop can be, the gate's figures are
\* figures, and a call is one that the loops or the API make.
TypeOK ==
    /\ now \in Nat /\ day \in Days
    /\ allowed \in BOOLEAN /\ dryRun \in BOOLEAN
    /\ spent \in Nat /\ resetDay \in Days
    /\ lastEntry \in [Tickers -> Int]
    /\ trig \in {"asleep", "looking", "entering", "notifying"}
    /\ todo \subseteq Tickers /\ wide \in BOOLEAN
    /\ exit \in {"asleep", "looking", "closing", "refreshing", "closed", "failed", "warning"}
    /\ left \subseteq Tickers \X Nat
    /\ judged \in (Tickers \X Nat) \cup {NoHedge}
    /\ queue \in Seq(Requests)
    /\ trading \in BOOLEAN
    /\ active \in [Tickers -> Exchanges \cup {NoExchange}]
    /\ opened \in [Tickers -> Nat]
    /\ entered \in [Days -> Nat]

\* What the trigger enters on one calendar day never comes to more than the cap,
\* wherever midnight falls between the check, the entry and its record.
CapHolds == \A d \in Days : entered[d] <= Cap

\* Between two entries of the trigger in one ticker the cooldown has passed, though
\* it is checked before the service is called and started when it has answered.
CooldownHolds ==
    [][entered'[day] > entered[day] => now - lastEntry[First.t] >= Cooldown]_vars

\* Both loops come round: whoever else calls the service, neither waits for its
\* lock for ever, and no answer leaves one behind.
LoopsTurn ==
    /\ (trig # "asleep") ~> (trig = "asleep")
    /\ (exit # "asleep") ~> (exit = "asleep")

-----------------------------------------------------------------------------
(* The inductive invariant. *)

\* The account in the gate is that of the day it was last reset on.
AccountInv ==
    /\ resetDay <= day
    /\ spent = entered[resetDay]
    /\ \A d \in Days : entered[d] <= Cap /\ (d > resetDay => entered[d] = 0)

\* The trigger has one call in the queue when it waits for an entry, and what it
\* checked before the call still holds.
EntryInv ==
    \A i \in DOMAIN queue : queue[i].by = "trigger" =>
        /\ trig = "entering" /\ queue[i].op = "enter"
        /\ \A k \in DOMAIN queue : queue[k].by = "trigger" => k = i
        /\ spent + Nominal <= Cap
        /\ now - lastEntry[queue[i].t] >= Cooldown

AutoInv == TypeOK /\ AccountInv /\ EntryInv

-----------------------------------------------------------------------------
(* Stated by the code and refuted by what it does. *)

\* "hedge open, close it by hand": the auto exit warns of a hedge that is open.
WarningIsTrue ==
    [][(exit # "warning" /\ exit' = "warning") => active'[judged[1]] # NoExchange]_vars

\* "auto-CLOSED": the auto exit announces the close of a hedge that is closed.
ClosedIsTrue ==
    [][(exit # "closed" /\ exit' = "closed") => active'[judged[1]] = NoExchange]_vars

\* "already has active hedge, skip": the trigger adds nothing to a hedge.
SkipsHedged ==
    [][(trading' /\ ~trading /\ First.by = "trigger") => active[First.t] = NoExchange]_vars

\* "daily cap": an entry that sent orders counts towards the cap.
OrdersAreCounted ==
    [][(trading /\ queue' = Tail(queue) /\ First.by = "trigger") => lastEntry'[First.t] = now]_vars

\* The auto exit closes the hedge that it judged.
ClosesTheJudged ==
    [][(trading' /\ ~trading /\ First.by = "exit" /\ First.op = "close")
           => opened[First.t] = judged[2]]_vars

=============================================================================
