------------------------------ MODULE HackHalt ------------------------------
(***************************************************************************)
(* HackHaltDetector: a loop per source of notices remembers what it has    *)
(* seen and makes a task of each notice that names a ticker; the task      *)
(* passes its gates and enters a hedge.  A loop aborts what it takes for   *)
(* shorts when their time is over.  Only the seen ids are on disk.         *)
(***************************************************************************)
EXTENDS HedgeOffice

CONSTANTS
    Sources,
    Notices,
    From,         \* From[n]: its source
    About,        \* About[n]: its ticker
    Kind,         \* Kind[n]: "hedge" (a halt, a hack), "short" (an exploit, maintenance), or
                  \* "none": no keyword or no ticker
    PerDay,       \* max_per_day
    Tears         \* may the disk be full, or the process die, while the file is written?

ASSUME HackAssumption ==
    /\ From \in [Notices -> Sources] /\ About \in [Notices -> Tickers]
    /\ Kind \in [Notices -> {"hedge", "short", "none"}]
    /\ PerDay \in Nat /\ Tears \in BOOLEAN

VARIABLES
    live,       \* the three locks of cfg
    confirm,    \* cfg.manual_confirm
    seen, disk, \* seen_ids, and what _load_seen would read
    telling,    \* telling[s]: the notice whose message s's loop awaits, as a set
    task,       \* task[n]: where _handle_event of n is
    hot,        \* the tickers in their cooldown
    inflight,   \* _inflight_tickers
    count, countDay,   \* daily_count, daily_reset_epoch
    held,       \* held[n]: the mode of n's entry in open_jobs, or "none"
    late,       \* the entries whose exit_max_hold_sec has passed
    sweep,      \* the entries that the exit loop has still to abort
    aborting,   \* aborting[c]: the entry whose close c awaits, as a set
    emitted,    \* history: emitted[n]: the tasks made for n
    torn,       \* history: the file was truncated
    hits        \* history: hits[t]: the hedges entered since t's cooldown ended

feedVars == <<seen, disk, telling, emitted, torn>>
gateVars == <<hot, inflight, count, countDay>>
hackVars == <<live, confirm, feedVars, task, gateVars, held, late, sweep, aborting, hits>>

Relevant == {n \in Notices : Kind[n] # "none"}
Aborters == {"loop", "user"}

Feed == INSTANCE ListingFeed WITH Listings <- Relevant, announced <- emitted

HackInit ==
    /\ live \in BOOLEAN /\ confirm \in BOOLEAN
    /\ seen = {} /\ disk = {} /\ torn = FALSE
    /\ telling = [s \in Sources |-> {}]
    /\ emitted = [n \in Relevant |-> 0]
    /\ task = [n \in Notices |-> "none"]
    /\ hot = {} /\ inflight = {} /\ count = 0 /\ countDay = 0
    /\ held = [n \in Notices |-> "none"] /\ late = {}
    /\ sweep = {} /\ aborting = [c \in Aborters |-> {}]
    /\ hits = [t \in Tickers |-> 0]

-----------------------------------------------------------------------------
(* The loops of the sources *)

\* A notice without a keyword or a ticker is only remembered.
Ignores(s, n) ==
    /\ telling[s] = {} /\ From[n] = s /\ n \notin seen \cup Relevant
    /\ seen' = seen \cup {n}
    /\ UNCHANGED <<officeVars, disk, telling, emitted, torn>>
    /\ UNCHANGED <<live, confirm, task, gateVars, held, late, sweep, aborting, hits>>

\* Mutant of Detects: the ids are not saved.
DetectsUnsaved(s, n) ==
    /\ telling[s] = {} /\ From[n] = s /\ n \in Relevant \ seen
    /\ seen' = seen \cup {n}
    /\ telling' = [telling EXCEPT ![s] = {n}]
    /\ UNCHANGED <<officeVars, disk, torn, emitted>>
    /\ UNCHANGED <<live, confirm, task, gateVars, held, late, sweep, aborting, hits>>

\* The others are remembered, recorded and saved with all that is seen, with no await between
\* (the lock of the records is never held across one); then _notify is awaited.
Detects(s, n) ==
    /\ telling[s] = {} /\ From[n] = s /\ n \in Relevant \ seen
    /\ seen' = seen \cup {n}
    /\ \/ disk' = seen' /\ UNCHANGED torn
       \/ Tears /\ disk' = {} /\ torn' = TRUE
    /\ telling' = [telling EXCEPT ![s] = {n}]
    /\ UNCHANGED <<officeVars, emitted>>
    /\ UNCHANGED <<live, confirm, task, gateVars, held, late, sweep, aborting, hits>>

\* Sent or not, _handle_event becomes a task of its own.
Emits(s) ==
    /\ telling[s] # {}
    /\ emitted' = [n \in Relevant |-> IF n \in telling[s] THEN emitted[n] + 1 ELSE emitted[n]]
    /\ task' = [n \in Notices |-> IF n \in telling[s] THEN "new" ELSE task[n]]
    /\ telling' = [telling EXCEPT ![s] = {}]
    /\ UNCHANGED <<officeVars, seen, disk, torn>>
    /\ UNCHANGED <<live, confirm, gateVars, held, late, sweep, aborting, hits>>

-----------------------------------------------------------------------------
(* _handle_event *)

Moves(n, at) == task' = [task EXCEPT ![n] = at]

RollHackDay == count' = (IF day > countDay THEN 0 ELSE count) /\ countDay' = day

\* Mutant of Passes: the ticker in flight is not looked for.
PassesTwice(n) ==
    /\ About[n] \notin hot
    /\ (IF day > countDay THEN 0 ELSE count) < PerDay

\* Gates 2, 3 and 4.
Passes(n) ==
    /\ About[n] \notin hot
    /\ (IF day > countDay THEN 0 ELSE count) < PerDay
    /\ About[n] \notin inflight

\* No perpetual, the kill switch or a gate: the notice is used up.
Skips(n) ==
    /\ task[n] = "new" /\ Moves(n, "over")
    /\ RollHackDay \/ UNCHANGED <<count, countDay>>
    /\ UNCHANGED <<officeVars, live, confirm, feedVars, hot, inflight, held, late, sweep>>
    /\ UNCHANGED <<aborting, hits>>

\* Gate 6 awaits a message between the gates and the mark in _inflight_tickers.
Consults(n) ==
    /\ task[n] = "new" /\ confirm /\ Passes(n)
    /\ Moves(n, "asks") /\ RollHackDay
    /\ UNCHANGED <<officeVars, live, confirm, feedVars, hot, inflight, held, late, sweep>>
    /\ UNCHANGED <<aborting, hits>>

\* _execute_hedge and _execute_short both await enter.
HackBegins(n) ==
    /\ task[n] = "new" /\ ~ confirm /\ live /\ Passes(n)
    /\ Moves(n, "enters") /\ RollHackDay
    /\ inflight' = inflight \cup {About[n]}
    /\ UNCHANGED <<officeVars, live, confirm, feedVars, hot, held, late, sweep, aborting, hits>>

\* _record_dry_run: cooldown and entry as if it had been done, but not the day's count.
HackDry(n) ==
    /\ \/ task[n] = "new" /\ ~ confirm /\ ~ live /\ Passes(n) /\ RollHackDay
       \/ task[n] = "asks" /\ UNCHANGED <<count, countDay>>
    /\ Moves(n, "tells")
    /\ inflight' = inflight \cup {About[n]}
    /\ hot' = hot \cup {About[n]}
    /\ held' = [held EXCEPT ![n] = "dry"]
    /\ UNCHANGED <<officeVars, live, confirm, feedVars, late, sweep, aborting, hits>>

\* enter has answered: count, cooldown and entry are written before the next await.
HackEnds(n) ==
    /\ task[n] = "enters" /\ Moves(n, "tells")
    /\ \/ /\ Entered(About[n], Another)
          /\ count' = count + 1
          /\ hot' = hot \cup {About[n]}
          /\ held' = [held EXCEPT ![n] = "live"]
          /\ hits' = [hits EXCEPT ![About[n]] = @ + 1]
       \/ UNCHANGED <<officeVars, count, hot, held, hits>>
    /\ UNCHANGED <<live, confirm, feedVars, inflight, countDay, late, sweep, aborting>>

\* The message is sent, or not: the ticker is in flight no more.
HackOver(n) ==
    /\ task[n] = "tells" /\ Moves(n, "over")
    /\ inflight' = inflight \ {About[n]}
    /\ UNCHANGED <<officeVars, live, confirm, feedVars, hot, count, countDay, held, late, sweep>>
    /\ UNCHANGED <<aborting, hits>>

\* per_ticker_cooldown_sec of t passes.
Cooled(t) ==
    /\ t \in hot /\ hot' = hot \ {t} /\ hits' = [hits EXCEPT ![t] = 0]
    /\ UNCHANGED <<officeVars, live, confirm, feedVars, task, inflight, count, countDay>>
    /\ UNCHANGED <<held, late, sweep, aborting>>

-----------------------------------------------------------------------------
(* abort and the exit loop *)

\* exit_max_hold_sec passes of n's entry, of which nobody but the exit loop asks.
Lates(n) ==
    /\ held[n] = "live" /\ Kind[n] = "short" /\ n \notin late /\ late' = late \cup {n}
    /\ UNCHANGED <<officeVars, live, confirm, feedVars, task, gateVars, held, sweep>>
    /\ UNCHANGED <<aborting, hits>>

\* _check_exits: the list of open_jobs, of which only what it takes for shorts is aborted.
Sweeps ==
    /\ sweep = {} /\ aborting["loop"] = {}
    /\ sweep' = {n \in late : held[n] = "live"}
    /\ UNCHANGED <<officeVars, live, confirm, feedVars, task, gateVars, held, late>>
    /\ UNCHANGED <<aborting, hits>>

\* abort looks the entry up again: a dry one goes at once, of a live one the close is awaited.
Aborts(c, n) ==
    /\ aborting[c] = {}
    /\ IF c = "loop" THEN n \in sweep /\ sweep' = sweep \ {n}
                     ELSE held[n] # "none" /\ UNCHANGED sweep
    /\ aborting' = [aborting EXCEPT ![c] = IF held[n] = "live" THEN {n} ELSE {}]
    /\ held' = [held EXCEPT ![n] = IF @ = "dry" THEN "none" ELSE @]
    /\ UNCHANGED <<officeVars, live, confirm, feedVars, task, gateVars, late, hits>>

\* A hedge is closed by close_job, and what is called a short by close_ff; the entry goes
\* when the answer is ok.
Aborted(c) ==
    /\ aborting' = [aborting EXCEPT ![c] = {}]
    /\ \E n \in aborting[c] :
          \/ /\ IF Kind[n] = "hedge" THEN ClosedSpot(About[n]) ELSE ClosedPair(About[n])
             /\ held' = [held EXCEPT ![n] = "none"]
          \/ UNCHANGED <<officeVars, held>>
    /\ UNCHANGED <<live, confirm, feedVars, task, gateVars, late, sweep, hits>>

-----------------------------------------------------------------------------
\* status, which rolls the count over.
HackStatus ==
    /\ RollHackDay
    /\ UNCHANGED <<officeVars, live, confirm, feedVars, task, hot, inflight, held, late, sweep>>
    /\ UNCHANGED <<aborting, hits>>

\* A new process reads the seen ids, and knows nothing else.
Reborn ==
    /\ live' \in BOOLEAN /\ confirm' \in BOOLEAN
    /\ seen' = disk /\ UNCHANGED <<disk, emitted, torn>>
    /\ telling' = [s \in Sources |-> {}]
    /\ task' = [n \in Notices |-> "none"]
    /\ hot' = {} /\ inflight' = {} /\ count' = 0 /\ countDay' = day
    /\ held' = [n \in Notices |-> "none"] /\ late' = {}
    /\ sweep' = {} /\ aborting' = [c \in Aborters |-> {}]
    /\ hits' = [t \in Tickers |-> 0]

HackNext ==
    \/ \E s \in Sources : Emits(s) \/ \E n \in Notices : Ignores(s, n) \/ Detects(s, n)
    \/ \E n \in Notices :
          \/ Skips(n) \/ Consults(n) \/ HackBegins(n) \/ HackDry(n) \/ HackEnds(n) \/ HackOver(n)
          \/ Lates(n) \/ \E c \in Aborters : Aborts(c, n)
    \/ \E t \in Tickers : Cooled(t)
    \/ Sweeps \/ HackStatus
    \/ \E c \in Aborters : Aborted(c)
    \/ (Midnight \/ \E t \in Tickers : OthersHedge(t) \/ OthersPair(t)) /\ UNCHANGED hackVars

-----------------------------------------------------------------------------
(* Properties *)

HackTypeOK ==
    /\ live \in BOOLEAN /\ confirm \in BOOLEAN /\ torn \in BOOLEAN
    /\ seen \subseteq Notices /\ disk \subseteq Notices
    /\ telling \in [Sources -> SUBSET Relevant]
    /\ task \in [Notices -> {"none", "new", "asks", "enters", "tells", "over"}]
    /\ hot \subseteq Tickers /\ inflight \subseteq Tickers
    /\ count \in Nat /\ countDay \in 0..day
    /\ held \in [Notices -> {"none", "dry", "live"}]
    /\ late \subseteq Notices /\ sweep \subseteq late
    /\ aborting \in [Aborters -> SUBSET Notices]
    /\ emitted \in [Relevant -> Nat] /\ hits \in [Tickers -> Nat]

\* A process enters a ticker once per cooldown, however many sources have news of it at
\* once: whatever awaits the hedge service is in flight.
HackedOnce == \A t \in Tickers : hits[t] <= 1

\* A notice becomes one task, whatever crashes and restarts, until the file of seen ids is
\* truncated: it is saved before the task is made.
NoticedOnce == Feed!Spec

(* Why they hold: the inductive invariant *)

Entering == {n \in Notices : task[n] \in {"enters", "tells"}}

\* Without the manual gate, the tasks that may enter or have just done so are of tickers in
\* flight, one of each, and those that have still to enter are of tickers not yet in their
\* cooldown.  With it there is none: a task that asks is recorded dry.
FlightInv ==
    /\ \A n \in Notices :
          /\ task[n] = "asks" => confirm
          /\ task[n] = "enters" => ~ confirm /\ About[n] \notin hot
    /\ ~ confirm => \A n \in Entering :
          /\ About[n] \in inflight
          /\ \A m \in Entering : About[m] = About[n] => m = n
    /\ \A t \in Tickers : hits[t] <= 1 /\ (hits[t] > 0 => t \in hot)

\* A loop awaits one message, of a notice of its own; until the file is truncated, what is
\* announced, or is about to be, has been seen and saved, and is not announced yet.
FeedInv ==
    /\ \A s \in Sources, n \in Notices : n \in telling[s] => From[n] = s /\ telling[s] = {n}
    /\ ~ torn => \A n \in Relevant :
          /\ emitted[n] > 0 => n \in seen \cap disk
          /\ \A s \in Sources : n \in telling[s] => n \in seen \cap disk /\ emitted[n] = 0

HackInv == HackTypeOK /\ FlightInv /\ FeedInv

\* What the exit loop takes for a short is closed when its time is over ("exploit 숏 자동 청산
\* 시한").
CutsEnd == \A n \in Notices : n \in late /\ held[n] = "live" ~> held[n] # "live"
=============================================================================
