----------------------------- MODULE CrossLong ------------------------------
(***************************************************************************)
(* CrossListingLongService: buys the Binance perpetual of a ticker that    *)
(* Bithumb lists and Upbit does not yet, and sells when Upbit does.  A     *)
(* task per job scores, observes, enters and monitors; the handlers of     *)
(* events and the operator's calls run between its awaits.                 *)
(***************************************************************************)
EXTENDS ListingWorld

CONSTANTS
    JobIds,        \* bound: jobs, numbered, each with its task
    LongCap,       \* daily_cap_usd
    MaxOpen,       \* max_open
    ByHand,        \* the tickers operators enter by hand
    Callers,       \* bound: calls of enter_manual at once
    Overrides      \* the notional_usd an operator may ask for

ASSUME CrossAssumption ==
    /\ JobIds \subseteq Nat /\ IsFiniteSet(JobIds) /\ LongCap \in Nat /\ MaxOpen \in Nat \ {0}
    /\ ByHand \subseteq Tickers /\ Callers \in Nat
    /\ Overrides \subseteq Nat \ {0}

VARIABLES
    liveLong,      \* live_armed
    jobs,          \* jobs[i]: the job, and pc: where its task, or the handler before it, is
    closers,       \* closers[i]: who awaits the closing of i
    due,           \* the jobs an Upbit notice's handler has listed and still has to close
    inflight,      \* _inflight_tickers
    active,        \* active[t]: the job whose task is in _active_tasks, as a set
    warm,          \* the tickers in their cooldown: _fired_tickers_24h
    notional,      \* cfg.notional_usd
    saved,         \* saved[i]: prev_notional of the call that makes i
    longSpent, longDay

longVars == <<liveLong, jobs, closers, due, inflight, active, warm, notional, saved,
              longSpent, longDay>>

NoJob == [t |-> CHOOSE t \in Tickers : TRUE, pc |-> "free", status |-> "none",
          closed |-> FALSE, qty |-> 0]

LongInit ==
    /\ liveLong \in BOOLEAN
    /\ jobs = [i \in JobIds |-> NoJob]
    /\ closers = [i \in JobIds |-> {}] /\ due = {}
    /\ inflight = {} /\ active = [t \in Tickers |-> {}]
    /\ warm = {}
    /\ notional = Full /\ saved = [i \in JobIds |-> 0]
    /\ longSpent = 0 /\ longDay = 0

-----------------------------------------------------------------------------
Counted == {"CANDIDATE", "OBSERVING", "ENTERED"}
OpenJobs == {i \in JobIds : jobs[i].status \in Counted /\ ~jobs[i].closed}
Entered(i) == jobs[i].qty > 0
Free(i) == jobs[i].pc = "free" /\ \A k \in JobIds : k < i => jobs[k].pc # "free"
AtWork == {"scoring", "observing", "starting", "entering", "telling", "monitoring", "closing"}
Running(i) == jobs[i].pc \in AtWork

\* _can_enter, with so many open jobs; the kill switch may also say no.
CanEnter(usd, open) ==
    /\ (IF day > longDay THEN 0 ELSE longSpent) + usd <= LongCap
    /\ open < MaxOpen

RollLongDay(more) ==
    /\ longSpent' = (IF day > longDay THEN 0 ELSE longSpent) + more
    /\ longDay' = day

At(i, pc) == jobs' = [jobs EXCEPT ![i].pc = pc]

\* Mutant of TaskDone: a task that was skipped stays in flight.
TaskStuck(t) == active' = [active EXCEPT ![t] = {}] /\ UNCHANGED inflight

\* The done callback of a task on t: the ticker is freed, whichever task holds it.
TaskDone(t) ==
    /\ active' = [active EXCEPT ![t] = {}]
    /\ inflight' = inflight \ {t}

TaskMade(i, t) ==
    /\ active' = [active EXCEPT ![t] = {i}]
    /\ inflight' = inflight \cup {t}

-----------------------------------------------------------------------------
(* Events *)

\* _on_listing_event of a Bithumb notice: past the cooldown and the other jobs of the
\* ticker, it awaits Upbit's list of markets.
LongChecks(n, i) ==
    LET t == About[n] IN
    /\ <<"long", n>> \in inbox /\ Source[n] = "bithumb"
    /\ inbox' = inbox \ {<<"long", n>>}
    /\ RollLongDay(0)
    /\ IF t \in warm \cup inflight \/ active[t] # {} THEN UNCHANGED jobs
       ELSE /\ Free(i)
            /\ jobs' = [jobs EXCEPT ![i].t = t, ![i].pc = "checking"]
    /\ UNCHANGED <<started, announced, day, upbit, sold, bought>>
    /\ UNCHANGED <<liveLong, closers, due, inflight, active, warm, notional, saved>>

\* Not on Upbit: the task is made; the checks before the await are not made again.
LongAccepts(i) ==
    LET t == jobs[i].t IN
    /\ jobs[i].pc = "checking"
    /\ IF t \in upbit THEN jobs' = [jobs EXCEPT ![i] = NoJob] /\ UNCHANGED <<active, inflight>>
                      ELSE At(i, "scoring") /\ TaskMade(i, t)
    /\ UNCHANGED worldVars
    /\ UNCHANGED <<liveLong, closers, due, warm, notional, saved, longSpent, longDay>>

\* An Upbit notice: the handler lists the open jobs of the ticker, to close one by one.
LongWins(n) ==
    /\ <<"long", n>> \in inbox /\ Source[n] = "upbit"
    /\ inbox' = inbox \ {<<"long", n>>}
    /\ RollLongDay(0)
    /\ due' = due \cup {i \in JobIds : jobs[i].t = About[n] /\ Entered(i) /\ ~jobs[i].closed}
    /\ UNCHANGED <<started, announced, day, upbit, sold, bought>>
    /\ UNCHANGED <<liveLong, jobs, closers, inflight, active, warm, notional, saved>>

-----------------------------------------------------------------------------
(* The task of a job *)

\* The job ends without a position.
Skip(i, status) ==
    /\ jobs' = [jobs EXCEPT ![i].status = status, ![i].closed = TRUE, ![i].pc = "done"]
    /\ TaskDone(jobs[i].t)

\* The score is there: the job is stored as a candidate, and counts among those it is
\* gated by.  A low score ends it.
Scored(i) ==
    /\ jobs[i].pc = "scoring"
    /\ \/ /\ CanEnter(notional, Cardinality(OpenJobs) + 1)
          /\ jobs' = [jobs EXCEPT ![i].status = "OBSERVING", ![i].pc = "observing"]
          /\ UNCHANGED <<active, inflight>>
       \/ Skip(i, "SKIPPED")
    /\ RollLongDay(0)
    /\ UNCHANGED worldVars
    /\ UNCHANGED <<liveLong, closers, due, warm, notional, saved>>

\* Bithumb has pumped while it was observed.
Pumped(i) ==
    /\ jobs[i].pc = "observing"
    /\ Skip(i, "SKIPPED")
    /\ warm' = warm \cup {jobs[i].t}
    /\ UNCHANGED worldVars
    /\ UNCHANGED <<liveLong, closers, due, notional, saved, longSpent, longDay>>

\* Mutant of Enters: the open jobs are not counted again.
EntersUncounted(i) ==
    /\ jobs[i].pc \in {"observing", "starting"}
    /\ \/ /\ CanEnter(notional, 0)
          /\ At(i, "entering") /\ UNCHANGED <<active, inflight>>
       \/ Skip(i, "SKIPPED")
    /\ RollLongDay(0)
    /\ UNCHANGED worldVars
    /\ UNCHANGED <<liveLong, closers, due, warm, notional, saved>>

\* _enter_and_monitor: the gate once more, the job among those counted unless it was
\* closed meanwhile; then the orders, or the price of a dry run, are awaited.
Enters(i) ==
    /\ jobs[i].pc \in {"observing", "starting"}
    /\ \/ /\ CanEnter(notional, Cardinality(OpenJobs))
          /\ At(i, "entering") /\ UNCHANGED <<active, inflight>>
       \/ Skip(i, "SKIPPED")
    /\ RollLongDay(0)
    /\ UNCHANGED worldVars
    /\ UNCHANGED <<liveLong, closers, due, warm, notional, saved>>

\* The order is filled, or the entry simulated; the message of a live one is awaited
\* before it is counted.
LongOpens(i) ==
    /\ jobs[i].pc = "entering"
    /\ IF liveLong
       THEN /\ \E q \in Fills(notional) \ {0} :
                 /\ jobs' = [jobs EXCEPT ![i].status = "ENTERED", ![i].qty = q, ![i].pc = "telling"]
                 /\ bought' = [bought EXCEPT ![jobs[i].t] = @ + q]
            /\ UNCHANGED <<warm, longSpent>>
       ELSE /\ jobs' = [jobs EXCEPT ![i].status = "ENTERED", ![i].qty = notional,
                                    ![i].pc = "monitoring"]
            /\ warm' = warm \cup {jobs[i].t} /\ longSpent' = longSpent + notional
            /\ UNCHANGED bought
    /\ UNCHANGED <<started, announced, inbox, day, upbit, sold>>
    /\ UNCHANGED <<liveLong, closers, due, inflight, active, notional, saved, longDay>>

LongTold(i) ==
    /\ jobs[i].pc = "telling"
    /\ At(i, "monitoring")
    /\ warm' = warm \cup {jobs[i].t} /\ longSpent' = longSpent + notional
    /\ UNCHANGED worldVars
    /\ UNCHANGED <<liveLong, closers, due, inflight, active, notional, saved, longDay>>

\* _close_job_err: not filled, or filled and not reported so.
LongFails(i) ==
    /\ jobs[i].pc = "entering" /\ liveLong
    /\ \E q \in Fills(notional) : bought' = [bought EXCEPT ![jobs[i].t] = @ + q]
    /\ Skip(i, "CLOSED")
    /\ warm' = warm \cup {jobs[i].t}
    /\ UNCHANGED <<started, announced, inbox, day, upbit, sold>>
    /\ UNCHANGED <<liveLong, closers, due, notional, saved, longSpent, longDay>>

\* _monitor_loop finds the job closed by another.
LongLeaves(i) ==
    /\ jobs[i].pc = "monitoring" /\ jobs[i].closed
    /\ At(i, "done") /\ TaskDone(jobs[i].t)
    /\ UNCHANGED worldVars
    /\ UNCHANGED <<liveLong, closers, due, warm, notional, saved, longSpent, longDay>>

-----------------------------------------------------------------------------
(* Closing: the monitor, the handler of an Upbit notice, the operator *)

\* _close_job_and_exit, up to the order.
Sells(i, who) == closers' = [closers EXCEPT ![i] = @ \cup {who}]

\* Upbit trades it, a stop loss or the time.
MonitorSells(i) ==
    /\ jobs[i].pc = "monitoring" /\ ~jobs[i].closed
    /\ At(i, "closing") /\ Sells(i, "monitor")
    /\ UNCHANGED worldVars
    /\ UNCHANGED <<liveLong, due, inflight, active, warm, notional, saved, longSpent, longDay>>

NoticeSells(i) ==
    /\ i \in due
    /\ \A k \in due : jobs[k].t = jobs[i].t => "notice" \notin closers[k]
    /\ IF jobs[i].closed THEN due' = due \ {i} /\ UNCHANGED closers
                         ELSE Sells(i, "notice") /\ UNCHANGED due
    /\ UNCHANGED worldVars
    /\ UNCHANGED <<liveLong, jobs, inflight, active, warm, notional, saved, longSpent, longDay>>

\* exit_manual of an entered job.
UserSells(i) ==
    /\ Entered(i) /\ ~jobs[i].closed /\ "user" \notin closers[i]
    /\ Sells(i, "user")
    /\ UNCHANGED worldVars
    /\ UNCHANGED <<liveLong, jobs, due, inflight, active, warm, notional, saved,
                   longSpent, longDay>>

\* Mutant of LongSold: the job is closed only if something was sold.
LongSoldIf(i, who) ==
    /\ who \in closers[i]
    /\ closers' = [closers EXCEPT ![i] = @ \ {who}]
    /\ \E q \in (IF liveLong THEN Fills(Min({jobs[i].qty, ToSell(jobs[i].t)})) ELSE {0}) :
          /\ bought' = [bought EXCEPT ![jobs[i].t] = @ - q]
          /\ jobs' = [jobs EXCEPT ![i].status = IF q > 0 THEN "CLOSED" ELSE @,
                          ![i].closed = @ \/ q > 0,
                          ![i].pc = IF who = "monitor" THEN "done" ELSE @]
    /\ warm' = warm \cup {jobs[i].t}
    /\ due' = IF who = "notice" THEN due \ {i} ELSE due
    /\ IF who = "monitor" THEN TaskDone(jobs[i].t) ELSE UNCHANGED <<active, inflight>>
    /\ UNCHANGED <<started, announced, inbox, day, upbit, sold>>
    /\ UNCHANGED <<liveLong, notional, saved, longSpent, longDay>>

\* The reduce-only order has sold what it could, or raised: the job is closed anyway.
LongSold(i, who) ==
    /\ who \in closers[i]
    /\ closers' = [closers EXCEPT ![i] = @ \ {who}]
    /\ \E q \in (IF liveLong THEN Fills(Min({jobs[i].qty, ToSell(jobs[i].t)})) ELSE {0}) :
          bought' = [bought EXCEPT ![jobs[i].t] = @ - q]
    /\ jobs' = [jobs EXCEPT ![i].status = "CLOSED", ![i].closed = TRUE,
                            ![i].pc = IF who = "monitor" THEN "done" ELSE @]
    /\ warm' = warm \cup {jobs[i].t}
    /\ due' = IF who = "notice" THEN due \ {i} ELSE due
    /\ IF who = "monitor" THEN TaskDone(jobs[i].t) ELSE UNCHANGED <<active, inflight>>
    /\ UNCHANGED <<started, announced, inbox, day, upbit, sold>>
    /\ UNCHANGED <<liveLong, notional, saved, longSpent, longDay>>

-----------------------------------------------------------------------------
(* The operator *)

\* enter_manual: past its checks it awaits the score, cfg.notional_usd swapped.
EnterManual(i, t) ==
    /\ t \in ByHand /\ Cardinality({k \in JobIds : jobs[k].pc = "asking"}) < Callers
    /\ Free(i) /\ t \notin warm \cup inflight
    /\ \E usd \in Overrides \cup {notional} :
          /\ CanEnter(usd, Cardinality(OpenJobs))
          /\ notional' = usd
    /\ saved' = [saved EXCEPT ![i] = notional]
    /\ jobs' = [jobs EXCEPT ![i].t = t, ![i].pc = "asking"]
    /\ RollLongDay(0)
    /\ UNCHANGED worldVars
    /\ UNCHANGED <<liveLong, closers, due, inflight, active, warm>>

\* The job is stored and its task made; the notional is put back before the task runs.
ManualStarts(i) ==
    /\ jobs[i].pc = "asking"
    /\ jobs' = [jobs EXCEPT ![i].pc = "starting", ![i].status = "CANDIDATE"]
    /\ TaskMade(i, jobs[i].t)
    /\ notional' = saved[i] /\ saved' = [saved EXCEPT ![i] = 0]
    /\ UNCHANGED worldVars
    /\ UNCHANGED <<liveLong, closers, due, warm, longSpent, longDay>>

\* What may have been bought when the task of k is cancelled at what it awaits.
CutFills(k) ==
    IF ~liveLong THEN {0}
    ELSE IF jobs[k].pc = "entering" THEN Fills(notional)
    ELSE IF jobs[k].pc = "closing"
         THEN {0 - q : q \in Fills(Min({jobs[k].qty, ToSell(jobs[k].t)}))}
    ELSE {0}

\* exit_manual of a job not yet entered: the task in _active_tasks, be it another job's,
\* is cancelled, and the job is closed.
ExitManual(i) ==
    /\ jobs[i].status \in {"CANDIDATE", "OBSERVING"} /\ ~jobs[i].closed
    /\ LET cut == active[jobs[i].t]
           at(k) == IF k \in cut THEN "done" ELSE jobs[k].pc
       IN  /\ jobs' = [k \in JobIds |->
                 IF k = i THEN [jobs[k] EXCEPT !.closed = TRUE, !.status = "CLOSED", !.pc = at(k)]
                          ELSE [jobs[k] EXCEPT !.pc = at(k)]]
           /\ closers' = [k \in JobIds |-> IF k \in cut THEN closers[k] \ {"monitor"}
                                                      ELSE closers[k]]
           /\ IF cut # {} THEN TaskDone(jobs[i].t) ELSE UNCHANGED <<active, inflight>>
           /\ \E q \in (IF cut = {} THEN {0} ELSE UNION {CutFills(k) : k \in cut}) :
                 bought' = [bought EXCEPT ![jobs[i].t] = @ + q]
    /\ warm' = warm \cup {jobs[i].t}
    /\ UNCHANGED <<started, announced, inbox, day, upbit, sold>>
    /\ UNCHANGED <<liveLong, due, notional, saved, longSpent, longDay>>

\* The cooldown of t is over.
WarmEnds(t) ==
    /\ t \in warm /\ warm' = warm \ {t}
    /\ UNCHANGED worldVars
    /\ UNCHANGED <<liveLong, jobs, closers, due, inflight, active, notional, saved,
                   longSpent, longDay>>

LongNext ==
    \/ \E n \in Notices : LongWins(n) \/ \E i \in JobIds : LongChecks(n, i)
    \/ \E i \in JobIds :
          \/ LongAccepts(i) \/ Scored(i) \/ Pumped(i) \/ Enters(i)
          \/ LongOpens(i) \/ LongTold(i) \/ LongFails(i) \/ LongLeaves(i)
          \/ MonitorSells(i) \/ NoticeSells(i) \/ UserSells(i)
          \/ \E who \in {"monitor", "notice", "user"} : LongSold(i, who)
          \/ ManualStarts(i) \/ ExitManual(i)
          \/ \E t \in Tickers : EnterManual(i, t)
    \/ \E t \in Tickers : WarmEnds(t)

\* The tasks and the handlers run on; the venue answers.
LongFairness == \A i \in JobIds :
    /\ WF_<<worldVars, longVars>>(LongTold(i))
    /\ WF_<<worldVars, longVars>>(MonitorSells(i) \/ LongLeaves(i))
    /\ \A who \in {"monitor", "notice", "user"} : WF_<<worldVars, longVars>>(LongSold(i, who))

-----------------------------------------------------------------------------
(* Properties *)

Pcs == {"free", "checking", "asking", "scoring", "observing", "starting", "entering",
        "telling", "monitoring", "closing", "done"}
Statuses == {"none", "CANDIDATE", "OBSERVING", "ENTERED", "CLOSED", "SKIPPED"}
Job == [t: Tickers, closed: BOOLEAN, qty: Nat, pc: Pcs, status: Statuses]

LongTypeOK ==
    /\ liveLong \in BOOLEAN
    /\ jobs \in [JobIds -> Job]
    /\ closers \in [JobIds -> SUBSET {"monitor", "notice", "user"}]
    /\ due \subseteq JobIds
    /\ inflight \subseteq Tickers /\ active \in [Tickers -> SUBSET JobIds]
    /\ warm \subseteq Tickers
    /\ notional \in Overrides \cup {Full}
    /\ saved \in [JobIds -> Overrides \cup {0, Full}]
    /\ longSpent \in Nat /\ longDay \in 0..day

\* A job counts itself among the open ones when it asks whether it may enter: fewer than
\* max_open are ever entered at once.
EnteredBounded == Cardinality({i \in JobIds : Entered(i) /\ ~jobs[i].closed}) < MaxOpen

\* A ticker in flight has a task that will free it, and an entered job one that will
\* close it: none is blocked for good or left open.
JobsHaveTasks ==
    /\ \A t \in inflight : \E i \in JobIds : Running(i) /\ jobs[i].t = t
    /\ \A i \in JobIds : Entered(i) /\ ~jobs[i].closed => Running(i)

\* What EnteredBounded needs: who awaits its entry counts already, and an open job that is
\* entered, or may enter, is counted by the others.
EntryShape(j) ==
    /\ j.pc \in {"free", "checking", "asking", "scoring"} => j.status = "none" /\ ~j.closed /\ j.qty = 0
    /\ j.pc \in {"observing", "starting", "entering"} /\ ~j.closed => j.status \in {"CANDIDATE", "OBSERVING"}
    /\ j.qty > 0 /\ ~j.closed => j.status = "ENTERED"
    /\ j.pc \in {"telling", "monitoring", "closing"} => j.qty > 0

InMarket(j) == (j.pc = "entering" \/ j.qty > 0) /\ ~j.closed

EntryInv ==
    /\ \A i \in JobIds : EntryShape(jobs[i])
    /\ Cardinality({i \in JobIds : InMarket(jobs[i])}) < MaxOpen

\* Whose task is in _active_tasks runs, and a ticker in flight has one that does.
TaskInv ==
    /\ \A t \in Tickers : \A k \in active[t] : jobs[k].t = t /\ Running(k)
    /\ \A t \in inflight : \E i \in JobIds : Running(i) /\ jobs[i].t = t
    /\ \A i \in JobIds : "monitor" \in closers[i] => jobs[i].pc = "closing"

\* A call of enter_manual puts back a size that an order can have.
SavedInv == \A i \in JobIds : jobs[i].pc = "asking" => saved[i] \in Overrides \cup {Full}

\* Only what was bought is being sold, or to be sold.
SoldInv == \A i \in JobIds : closers[i] # {} \/ i \in due => Entered(i)

\* No two jobs of a ticker can be made at once: each ticker has one notice of Bithumb's at
\* most, or else is entered by hand, one call at a time.
OneDoor ==
    /\ Callers <= 1
    /\ \A n \in Notices : Source[n] = "bithumb" => About[n] \notin ByHand
    /\ \A m, n \in Notices : Source[m] = "bithumb" /\ Source[n] = "bithumb" /\ About[m] = About[n] => m = n

Busy(i) == jobs[i].pc \notin {"free", "done"}

\* The event that a job of t came from has been taken.
Noticed(t) == \E n \in Notices :
    Source[n] = "bithumb" /\ About[n] = t /\ announced[n] = 1 /\ <<"long", n>> \notin inbox

\* Then a ticker has one job that is busy, and a job that runs has its ticker in flight.
DoorInv ==
    /\ \A i, j \in JobIds : i # j /\ Busy(i) /\ Busy(j) => jobs[i].t # jobs[j].t
    /\ \A i \in JobIds : jobs[i].pc = "checking" => Noticed(jobs[i].t)
    /\ \A i \in JobIds : jobs[i].pc = "asking" => jobs[i].t \in ByHand
    /\ \A i, j \in JobIds : jobs[i].pc = "asking" /\ jobs[j].pc = "asking" => i = j
    /\ \A i \in JobIds : Running(i) => jobs[i].t \in inflight
    /\ \A i \in JobIds : jobs[i].pc = "done" => jobs[i].closed

\* What Upbit comes to trade is closed by the monitor, whatever else closes it.
ListedCloses == \A i \in JobIds :
    Entered(i) /\ jobs[i].t \in upbit ~> jobs[i].closed

(* What the code does not keep *)

\* enter_manual puts cfg.notional_usd back ("원복 보장"): it does, each call what it found,
\* in whatever order they end.
NotionalRestored == (\A i \in JobIds : jobs[i].pc # "asking") => notional = Full

\* The day's entries stay within the cap.
LongCapHolds == longSpent <= LongCap

\* A job that is closed has sold what it bought.
ClosedIsSold == (\A i \in JobIds : ~Running(i) /\ closers[i] = {}) =>
    \A t \in Tickers : bought[t] = 0 \/ \E i \in JobIds : jobs[i].t = t /\ ~jobs[i].closed
=============================================================================
