-------------------------- MODULE BithumbFollower ---------------------------
(***************************************************************************)
(* BithumbFollowerService: watches a ticker from its first notice until    *)
(* Bithumb trades it below Upbit, buys it there once in the process's      *)
(* life, and a task of its own then sells it.  An operator may abort.      *)
(***************************************************************************)
EXTENDS ListingWorld

CONSTANT FollowCap   \* daily_cap_krw, in the units of Full; Full is notional_krw

ASSUME FollowerAssumption == FollowCap \in Nat

VARIABLES
    liveFollow,   \* enabled, live_confirm and not dry_run
    job,          \* job[t]: the state of t's job in _job_store, or "none"
    aborted,      \* the tickers whose job is aborted
    fired,        \* _fired_tickers
    slots,        \* the tickers in _watch_tasks
    watching,     \* watching[t]: where the task of _watch_ticker is
    selling,      \* selling[t]: where the task of _monitor_exit is
    held,         \* held[t]: what was bought on Bithumb and not sold
    followSpent, followDay

followVars == <<liveFollow, job, aborted, fired, slots, watching, selling, held,
                followSpent, followDay>>

FollowInit ==
    /\ liveFollow \in BOOLEAN
    /\ job = [t \in Tickers |-> "none"]
    /\ aborted = {} /\ fired = {} /\ slots = {}
    /\ watching = [t \in Tickers |-> "off"]
    /\ selling = [t \in Tickers |-> "off"]
    /\ held = [t \in Tickers |-> 0]
    /\ followSpent = 0 /\ followDay = 0

-----------------------------------------------------------------------------
\* _on_event: one step.  A ticker bought before, or watched, starts nothing.
Follows(n) ==
    LET t == About[n] IN
    /\ <<"follower", n>> \in inbox
    /\ inbox' = inbox \ {<<"follower", n>>}
    /\ IF t \in fired \cup slots
       THEN UNCHANGED <<job, aborted, slots, watching>>
       ELSE /\ job' = [job EXCEPT ![t] = "WATCHING"]
            /\ aborted' = aborted \ {t}
            /\ slots' = slots \cup {t}
            /\ watching' = [watching EXCEPT ![t] = "polling"]
    /\ UNCHANGED <<started, announced, day, upbit, sold, bought>>
    /\ UNCHANGED <<liveFollow, fired, selling, held, followSpent, followDay>>

\* The task of the watch ends with its job in state s, and its finally clause runs.
WatchEnds(t, s) ==
    /\ job' = [job EXCEPT ![t] = s]
    /\ watching' = [watching EXCEPT ![t] = "off"]
    /\ slots' = IF s \in {"GIVE_UP", "ABORTED"} THEN slots \ {t} ELSE slots

RollFollowDay(more) ==
    /\ followSpent' = (IF day > followDay THEN 0 ELSE followSpent) + more
    /\ followDay' = day

\* max_wait, the kill switch or an exception.
GivesUp(t) ==
    /\ watching[t] = "polling"
    /\ \E s \in {"GIVE_UP", "ABORTED"} : WatchEnds(t, s)
    /\ UNCHANGED worldVars
    /\ UNCHANGED <<liveFollow, aborted, fired, selling, held, followSpent, followDay>>

Fits == (IF day > followDay THEN 0 ELSE followSpent) + Full <= FollowCap

\* _try_enter refuses: the cap is reached, or the ticker was bought before.
Refuses(t) ==
    /\ watching[t] = "polling"
    /\ ~Fits \/ t \in fired
    /\ WatchEnds(t, "ABORTED")
    /\ RollFollowDay(0)
    /\ UNCHANGED worldVars
    /\ UNCHANGED <<liveFollow, aborted, fired, selling, held>>

\* Mutant of Buys: the ticker is noted when the order has been answered.
BuysUnmarked(t) ==
    /\ watching[t] = "polling"
    /\ Fits /\ t \notin fired
    /\ liveFollow
    /\ RollFollowDay(0)
    /\ watching' = [watching EXCEPT ![t] = "buying"]
    /\ UNCHANGED worldVars
    /\ UNCHANGED <<liveFollow, job, aborted, fired, slots, selling, held>>

\* The gap is there: the ticker is noted as fired with no await after the checks, then
\* the order is awaited.
Buys(t) ==
    /\ watching[t] = "polling"
    /\ Fits /\ t \notin fired
    /\ fired' = fired \cup {t}
    /\ liveFollow
    /\ RollFollowDay(0)
    /\ watching' = [watching EXCEPT ![t] = "buying"]
    /\ UNCHANGED worldVars
    /\ UNCHANGED <<liveFollow, job, aborted, slots, selling, held>>

\* A dry run is entered at once; the slot keeps the task that ends now.
BuysDry(t) ==
    /\ watching[t] = "polling"
    /\ Fits /\ t \notin fired
    /\ fired' = fired \cup {t}
    /\ ~liveFollow
    /\ RollFollowDay(Full)
    /\ WatchEnds(t, "ENTERED")
    /\ selling' = [selling EXCEPT ![t] = "polling"]
    /\ UNCHANGED worldVars
    /\ UNCHANGED <<liveFollow, aborted, held>>

\* The order is answered: the monitor's task is made.
Bought(t) ==
    /\ watching[t] = "buying"
    /\ held' = [held EXCEPT ![t] = @ + Full]
    /\ followSpent' = followSpent + Full
    /\ WatchEnds(t, "ENTERED")
    /\ selling' = [selling EXCEPT ![t] = "polling"]
    /\ UNCHANGED worldVars
    /\ UNCHANGED <<liveFollow, aborted, fired, followDay>>

\* It raises: rejected, or filled and the answer lost.
BuyRaises(t) ==
    /\ watching[t] = "buying"
    /\ \E q \in {0, Full} : held' = [held EXCEPT ![t] = @ + q]
    /\ WatchEnds(t, "ABORTED")
    /\ UNCHANGED worldVars
    /\ UNCHANGED <<liveFollow, aborted, fired, selling, followSpent, followDay>>

\* _monitor_exit decides to close: it was aborted, the gap has closed, a stop or a limit
\* of time; it reads the price.  _close_position passes over a job that is over.
Closes(t) ==
    /\ selling[t] = "polling"
    /\ IF job[t] \in {"EXITED", "ABORTED"}
       THEN selling' = [selling EXCEPT ![t] = "off"]
       ELSE selling' = [selling EXCEPT ![t] = "selling"]
    /\ UNCHANGED worldVars
    /\ UNCHANGED <<liveFollow, job, aborted, fired, slots, watching, held,
                   followSpent, followDay>>

\* Mutant of Sold: the monitor's job is left as it was.
SoldUnsaid(t) ==
    /\ selling[t] = "selling"
    /\ held' = [held EXCEPT ![t] = 0]
    /\ slots' = slots \ {t}
    /\ selling' = [selling EXCEPT ![t] = "off"]
    /\ UNCHANGED worldVars
    /\ UNCHANGED <<liveFollow, job, aborted, fired, watching, followSpent, followDay>>

\* The sale is answered, or simulated; or it raises, and the coins stay.
Sold(t) ==
    /\ selling[t] = "selling"
    /\ \/ job' = [job EXCEPT ![t] = "EXITED"] /\ held' = [held EXCEPT ![t] = 0]
       \/ liveFollow /\ job' = [job EXCEPT ![t] = "ABORTED"] /\ UNCHANGED held
    /\ slots' = slots \ {t}
    /\ selling' = [selling EXCEPT ![t] = "off"]
    /\ UNCHANGED worldVars
    /\ UNCHANGED <<liveFollow, aborted, fired, watching, followSpent, followDay>>

\* abort_ticker: an entered job is left to its monitor; before that the watch is
\* cancelled, an order it awaits may be filled all the same.
Aborts(t) ==
    /\ job[t] # "none"
    /\ aborted' = aborted \cup {t}
    /\ IF job[t] = "ENTERED" THEN UNCHANGED <<job, slots, watching, held>>
       ELSE /\ job' = [job EXCEPT ![t] = "ABORTED"]
            /\ watching' = [watching EXCEPT ![t] = "off"]
            /\ slots' = slots \ {t}
            /\ IF watching[t] = "buying"
               THEN \E q \in {0, Full} : held' = [held EXCEPT ![t] = @ + q]
               ELSE UNCHANGED held
    /\ UNCHANGED worldVars
    /\ UNCHANGED <<liveFollow, fired, selling, followSpent, followDay>>

FollowNext ==
    \/ \E n \in Notices : Follows(n)
    \/ \E t \in Tickers : \/ GivesUp(t) \/ Refuses(t) \/ Buys(t) \/ BuysDry(t)
                          \/ Bought(t) \/ BuyRaises(t) \/ Closes(t) \/ Sold(t) \/ Aborts(t)

\* A task that has been made runs on; the kill switch, the limit of time or the abort
\* closes in the end.
FollowFairness == \A t \in Tickers :
    WF_<<worldVars, followVars>>(Closes(t)) /\ WF_<<worldVars, followVars>>(Sold(t))

-----------------------------------------------------------------------------
(* Properties *)

FollowTypeOK ==
    /\ liveFollow \in BOOLEAN
    /\ job \in [Tickers -> {"none", "WATCHING", "ENTERED", "EXITED", "GIVE_UP", "ABORTED"}]
    /\ aborted \subseteq Tickers /\ fired \subseteq Tickers /\ slots \subseteq Tickers
    /\ watching \in [Tickers -> {"off", "polling", "buying"}]
    /\ selling \in [Tickers -> {"off", "polling", "selling"}]
    /\ held \in [Tickers -> Nat]
    /\ followSpent \in Nat /\ followDay \in 0..day

\* A ticker is bought once in the life of the process, whatever notices, aborts and new
\* watches: what is held never exceeds one order.
BoughtOnce == \A t \in Tickers : held[t] + (IF watching[t] = "buying" THEN Full ELSE 0) <= Full

\* An entered job has its monitor, and its slot in _watch_tasks until it is over.
EnteredIsMonitored == \A t \in Tickers :
    (job[t] = "ENTERED" <=> selling[t] # "off") /\ (job[t] = "ENTERED" => t \in slots)

\* The inductive invariant of both: what is bought or being bought was fired, and a watch
\* has its job and its slot.
FollowInv ==
    /\ BoughtOnce /\ EnteredIsMonitored
    /\ \A t \in Tickers : t \notin fired => held[t] = 0 /\ watching[t] # "buying"
    /\ \A t \in Tickers : watching[t] # "off" => job[t] = "WATCHING" /\ t \in slots

\* An entered job that is aborted is sold, or reported as not sold.
AbortSells == \A t \in Tickers :
    job[t] = "ENTERED" /\ t \in aborted ~> job[t] \in {"EXITED", "ABORTED"}
=============================================================================
