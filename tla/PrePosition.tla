---------------------------- MODULE PrePosition -----------------------------
(***************************************************************************)
(* PrePositionHedge: hedges entered before a gap opens, each with a job    *)
(* that a loop closes on a target, a stop or its time.  Entries, exits and *)
(* the loop share one asyncio.Lock, held over the hedge service's answer   *)
(* and the operator's message.  The jobs are in a log that only grows.     *)
(***************************************************************************)
EXTENDS HedgeOffice

CONSTANTS
    Jobs,         \* bound: the jobs a log comes to
    Users,        \* calls of the API, and tasks made for listing events
    MaxOpen,      \* max_open
    DayCap        \* daily_cap_usd, in entries

ASSUME PreAssumption == MaxOpen \in Nat /\ DayCap \in Nat /\ "loop" \notin Users

VARIABLES
    armed,      \* cfg.live_armed
    line,       \* _lock: the callers that have it, or wait for it, in their order
    call,       \* call[c]: what c asks, about what, and where it is
    left,       \* the jobs of its list that the loop has still to check
    job,        \* job[i]: an entry of _jobs
    log,        \* log[i]: the status of the last record of i in the file
    due,        \* the jobs whose max_hold_ts has passed
    spent, spentDay,   \* _daily_spent_usd, _daily_reset_epoch
    spentToday, \* history: the entries of this process on this day
    sent        \* history: sent[i]: the closes of i that this process has asked for

preVars == <<armed, line, call, left, job, log, due, spent, spentDay, spentToday, sent>>

Callers == Users \cup {"loop"}
NoCall == [op |-> "none", about |-> 0, at |-> "idle"]
NoJob == [ticker |-> 0, hedged |-> FALSE, status |-> "none"]

\* What a close makes of the job's status: "closed" stands for closed_win and its like, and
\* exit_preposition asks for "closing".
Final == [exit |-> "closing", timeout |-> "closed", gap |-> "closed"]

PreInit ==
    /\ armed \in BOOLEAN
    /\ line = <<>> /\ left = {} /\ due = {}
    /\ call = [c \in Callers |-> NoCall]
    /\ job = [i \in Jobs |-> NoJob]
    /\ log = [i \in Jobs |-> "none"]
    /\ sent = [i \in Jobs |-> 0]
    /\ spent = 0 /\ spentDay = 0 /\ spentToday = 0

-----------------------------------------------------------------------------
OpenJobs == {i \in Jobs : job[i].status = "open"}

\* async with self._lock: c goes to the end of the line, and has the lock at its head.
Asks(c, op, about) ==
    /\ call' = [call EXCEPT ![c] = [op |-> op, about |-> about, at |-> "waits"]]
    /\ line' = Append(line, c)

Has(c) == line # <<>> /\ Head(line) = c
At(c, ops, at) == Has(c) /\ call[c].op \in ops /\ call[c].at = at

Goes(c, at) == call' = [call EXCEPT ![c].at = at] /\ UNCHANGED <<line, left>>

\* The lock is released; the loop passes to the next job of its list.
Leaves(c) ==
    /\ line' = Tail(line)
    /\ call' = [call EXCEPT ![c] = NoCall]
    /\ left' = IF c = "loop" THEN left \ {call[c].about} ELSE left

\* A new job has an id of its own.
Fresh == CHOOSE i \in Jobs : log[i] = "none"

RollPreDay ==
    /\ spent' = IF day > spentDay THEN 0 ELSE spent
    /\ spentDay' = day

-----------------------------------------------------------------------------
(* enter_preposition *)

UserEnters(c, t) ==
    /\ call[c] = NoCall
    /\ Asks(c, "enter", t)
    /\ UNCHANGED officeVars
    /\ UNCHANGED <<armed, left, job, log, due, spent, spentDay, spentToday, sent>>

\* _can_enter: no job of the ticker, no hedge of it in the service, and room for both limits.
Admitted(t) ==
    /\ Cardinality(OpenJobs) < MaxOpen
    /\ \A i \in OpenJobs : job[i].ticker # t
    /\ spot[t] = Nothing
    /\ (IF day > spentDay THEN 0 ELSE spent) < DayCap

\* The kill switch, the gap, or a gate: no entry.
EnterRefused(c) ==
    /\ At(c, {"enter"}, "waits")
    /\ Leaves(c)
    /\ RollPreDay \/ UNCHANGED <<spent, spentDay>>
    /\ UNCHANGED officeVars
    /\ UNCHANGED <<armed, job, log, due, spentToday, sent>>

\* Mutant of Records: the account is not rolled over after the await.
RecordsLate(t, i, live) ==
    /\ job' = [job EXCEPT ![i] = [ticker |-> t, hedged |-> live, status |-> "open"]]
    /\ log' = [log EXCEPT ![i] = "open"]
    /\ spent' = spent + 1 /\ spentDay' = spentDay
    /\ spentToday' = spentToday + 1
    /\ UNCHANGED <<armed, due, sent>>

\* The job i, its record and its money, with no await between.
Records(t, i, live) ==
    /\ job' = [job EXCEPT ![i] = [ticker |-> t, hedged |-> live, status |-> "open"]]
    /\ log' = [log EXCEPT ![i] = "open"]
    /\ spent' = (IF day > spentDay THEN 0 ELSE spent) + 1
    /\ spentDay' = day
    /\ spentToday' = spentToday + 1
    /\ UNCHANGED <<armed, due, sent>>

\* Through the gates: a dry run is recorded at once, a live one when enter has answered.
EnterBegins(c) ==
    /\ At(c, {"enter"}, "waits")
    /\ Admitted(call[c].about)
    /\ \E i \in Jobs : log[i] = "none"
    /\ IF armed
       THEN /\ Goes(c, "office") /\ RollPreDay
            /\ UNCHANGED <<armed, job, log, due, spentToday, sent>>
       ELSE Goes(c, "tells") /\ Records(call[c].about, Fresh, FALSE)
    /\ UNCHANGED officeVars

EnterEnds(c) ==
    /\ At(c, {"enter"}, "office")
    /\ \/ /\ Entered(call[c].about, Fresh)
          /\ Records(call[c].about, Fresh, TRUE)
          /\ Goes(c, "tells")
       \/ /\ Leaves(c)
          /\ UNCHANGED officeVars
          /\ UNCHANGED <<armed, job, log, due, spent, spentDay, spentToday, sent>>

-----------------------------------------------------------------------------
(* exit_preposition, the loop and _close_locked *)

\* An exit; one of a job that is not open now only has to be refused.
UserExits(c, i) ==
    /\ call[c] = NoCall /\ job[i].status = "open"
    /\ Asks(c, "exit", i)
    /\ UNCHANGED officeVars
    /\ UNCHANGED <<armed, left, job, log, due, spent, spentDay, spentToday, sent>>

LoopWakes ==
    /\ call["loop"] = NoCall /\ left = {}
    /\ Asks("loop", "list", 0)
    /\ UNCHANGED officeVars
    /\ UNCHANGED <<armed, left, job, log, due, spent, spentDay, spentToday, sent>>

LoopLists ==
    /\ At("loop", {"list"}, "waits")
    /\ line' = Tail(line)
    /\ call' = [call EXCEPT !["loop"] = NoCall]
    /\ left' = OpenJobs
    /\ UNCHANGED officeVars
    /\ UNCHANGED <<armed, job, log, due, spent, spentDay, spentToday, sent>>

\* Mutant of LoopChecks: the gap is read before the time, and without one there is no check.
LoopChecksGapFirst(i) ==
    /\ call["loop"] = NoCall /\ i \in left
    /\ \/ i \in due /\ Asks("loop", "timeout", i) /\ UNCHANGED left
       \/ Asks("loop", "gap", i) /\ UNCHANGED left
       \/ left' = left \ {i} /\ UNCHANGED <<call, line>>
    /\ UNCHANGED officeVars
    /\ UNCHANGED <<armed, job, log, due, spent, spentDay, spentToday, sent>>

\* _check_job: its time first; then the gap, if there is one, against target and stop.
LoopChecks(i) ==
    /\ call["loop"] = NoCall /\ i \in left
    /\ \/ i \in due /\ Asks("loop", "timeout", i) /\ UNCHANGED left
       \/ i \notin due /\ Asks("loop", "gap", i) /\ UNCHANGED left
       \/ i \notin due /\ left' = left \ {i} /\ UNCHANGED <<call, line>>
    /\ UNCHANGED officeVars
    /\ UNCHANGED <<armed, job, log, due, spent, spentDay, spentToday, sent>>

\* The job is no longer open when the lock is had.
CloseMissed(c) ==
    /\ At(c, DOMAIN Final, "waits")
    /\ job[call[c].about].status # "open"
    /\ Leaves(c)
    /\ UNCHANGED officeVars
    /\ UNCHANGED <<armed, job, log, due, spent, spentDay, spentToday, sent>>

Ends(i, status) ==
    /\ job' = [job EXCEPT ![i].status = status]
    /\ log' = [log EXCEPT ![i] = status]

\* Mutant of CloseBegins: the status is not read again under the lock.
CloseBeginsAnyway(c) ==
    LET i == call[c].about IN
    /\ At(c, DOMAIN Final, "waits")
    /\ IF armed /\ job[i].hedged
       THEN /\ job' = [job EXCEPT ![i].status = "closing"] /\ log' = log
            /\ sent' = [sent EXCEPT ![i] = @ + 1]
            /\ Goes(c, "office")
       ELSE Ends(i, Final[call[c].op]) /\ Goes(c, "tells") /\ UNCHANGED sent
    /\ UNCHANGED officeVars
    /\ UNCHANGED <<armed, due, spent, spentDay, spentToday>>

\* A dry job, or any while the service is not armed, ends at once; of the others the
\* hedge service is asked to close the ticker, and only then is anything recorded.
CloseBegins(c) ==
    LET i == call[c].about IN
    /\ At(c, DOMAIN Final, "waits")
    /\ job[i].status = "open"
    /\ IF armed /\ job[i].hedged
       THEN /\ job' = [job EXCEPT ![i].status = "closing"] /\ log' = log
            /\ sent' = [sent EXCEPT ![i] = @ + 1]
            /\ Goes(c, "office")
       ELSE Ends(i, Final[call[c].op]) /\ Goes(c, "tells") /\ UNCHANGED sent
    /\ UNCHANGED officeVars
    /\ UNCHANGED <<armed, due, spent, spentDay, spentToday>>

\* An answer that is not ok, or an exception, ends the job as well.
CloseEnds(c) ==
    LET i == call[c].about IN
    /\ At(c, DOMAIN Final, "office")
    /\ \/ ClosedSpot(job[i].ticker) /\ Ends(i, Final[call[c].op])
       \/ Ends(i, "closed") /\ UNCHANGED officeVars
    /\ Goes(c, "tells")
    /\ UNCHANGED <<armed, due, spent, spentDay, spentToday, sent>>

\* _notify is awaited with the lock.
Told(c) ==
    /\ Has(c) /\ call[c].at = "tells"
    /\ Leaves(c)
    /\ UNCHANGED officeVars
    /\ UNCHANGED <<armed, job, log, due, spent, spentDay, spentToday, sent>>

-----------------------------------------------------------------------------
\* max_hold_ts of i passes.
Overdue(i) ==
    /\ job[i].status = "open" /\ i \notin due
    /\ due' = due \cup {i}
    /\ UNCHANGED officeVars
    /\ UNCHANGED <<armed, line, call, left, job, log, spent, spentDay, spentToday, sent>>

\* status, which rolls the account over.
PreStatus ==
    /\ RollPreDay
    /\ UNCHANGED officeVars
    /\ UNCHANGED <<armed, line, call, left, job, log, due, spentToday, sent>>

\* What a new process has: the jobs whose last record is "open", and an empty account.
Reloaded ==
    /\ armed' \in BOOLEAN
    /\ line' = <<>> /\ left' = {}
    /\ call' = [c \in Callers |-> NoCall]
    /\ job' = [i \in Jobs |-> IF log[i] = "open" THEN [job[i] EXCEPT !.status = "open"] ELSE NoJob]
    /\ sent' = [i \in Jobs |-> 0]
    /\ spent' = 0 /\ spentDay' = day /\ spentToday' = 0
    /\ UNCHANGED <<log, due>>

PreMidnight == Midnight /\ spentToday' = 0
               /\ UNCHANGED <<armed, line, call, left, job, log, due, spent, spentDay, sent>>

Serves(c) ==
    \/ EnterRefused(c) \/ EnterBegins(c) \/ EnterEnds(c)
    \/ CloseMissed(c) \/ CloseBegins(c) \/ CloseEnds(c) \/ Told(c)

PreLoop == LoopWakes \/ LoopLists \/ \E i \in Jobs : LoopChecks(i)

PreNext ==
    \/ PreLoop \/ PreStatus \/ PreMidnight
    \/ \E c \in Callers : Serves(c)
    \/ \E c \in Users : (\E t \in Tickers : UserEnters(c, t)) \/ (\E i \in Jobs : UserExits(c, i))
    \/ \E i \in Jobs : Overdue(i)
    \/ (\E t \in Tickers : OthersHedge(t)) /\ UNCHANGED preVars

-----------------------------------------------------------------------------
(* Properties *)

Statuses == {"none", "open", "closing", "closed"}
Calls == [op : {"none", "enter", "list"} \cup DOMAIN Final, about : Tickers \cup Jobs \cup {0},
          at : {"idle", "waits", "office", "tells"}]

PreTypeOK ==
    /\ spot \in [Tickers -> Jobs \cup {Nothing, Another}]
    /\ pair \in [Tickers -> BOOLEAN] /\ day \in 0..MaxDay
    /\ armed \in BOOLEAN
    /\ line \in Seq(Callers) /\ left \subseteq Jobs /\ due \subseteq Jobs
    /\ call \in [Callers -> Calls]
    /\ job \in [Jobs -> [ticker : Tickers \cup {0}, hedged : BOOLEAN, status : Statuses]]
    /\ log \in [Jobs -> Statuses]
    /\ sent \in [Jobs -> Nat]
    /\ spent \in Nat /\ spentDay \in 0..day /\ spentToday \in Nat

\* At no time are there more open jobs than max_open, or two of a ticker, nor does a day's
\* entries of one process pass the daily cap, whatever waits for the lock, for the hedge
\* service or for midnight.
PreWithin ==
    /\ Cardinality(OpenJobs) <= MaxOpen
    /\ \A i, j \in OpenJobs : job[i].ticker = job[j].ticker => i = j
    /\ spentToday <= DayCap

\* A process asks for the close of a job once: the loop and the users who exit it meet at
\* the lock, and the second finds it closed (the check of status is repeated there).
ClosedOnce == \A i \in Jobs : sent[i] <= 1

(* Why they hold: the inductive invariant *)

\* A caller is in the line once, if it asks for the lock at all, and only the first of the
\* line is past the wait.
LineInv ==
    /\ \A k, l \in 1..Len(line) : line[k] = line[l] => k = l
    /\ \A k \in 1..Len(line) : call[line[k]].at # "idle"
    /\ \A c \in Callers :
          /\ call[c].at \in {"office", "tells"} => Has(c)
          /\ call[c].at = "office" => call[c].op \in {"enter"} \cup DOMAIN Final
          /\ call[c].op = "enter" => call[c].about \in Tickers
          /\ call[c].op \in DOMAIN Final => call[c].about \in Jobs

LogOpen == {i \in Jobs : log[i] = "open"}

\* The jobs that a new process would open are the open ones and the one that its closer,
\* who has the lock, still awaits.
LogInv ==
    /\ \A i \in OpenJobs : log[i] = "open"
    /\ \A i \in LogOpen \ OpenJobs : \E c \in Callers :
          /\ call[c].at = "office" /\ call[c].op \in DOMAIN Final /\ call[c].about = i
    /\ \A c \in Callers : call[c].at = "office" /\ call[c].op \in DOMAIN Final =>
          call[c].about \in LogOpen \ OpenJobs
    /\ \A i \in Jobs : sent[i] > 0 => job[i].status # "open" /\ log[i] # "none"

\* What the account comes to when it is next rolled over.
Account == IF day > spentDay THEN 0 ELSE spent

\* The limits hold of the log and the account, with room left while an entry is in progress.
RoomInv ==
    /\ IsFiniteSet(LogOpen) /\ Cardinality(LogOpen) <= MaxOpen
    /\ \A i, j \in LogOpen : job[i].ticker = job[j].ticker => i = j
    /\ spentToday <= Account /\ Account <= DayCap
    /\ \A c \in Callers : call[c].at = "office" /\ call[c].op = "enter" =>
          /\ Cardinality(LogOpen) < MaxOpen
          /\ \A i \in LogOpen : job[i].ticker # call[c].about
          /\ Account < DayCap
          /\ \E i \in Jobs : log[i] = "none"

PreInv == PreTypeOK /\ LineInv /\ LogInv /\ RoomInv /\ ClosedOnce

\* A job whose time is over is closed in the end, whatever users, hedges and restarts do.
HoldsEnd == \A i \in Jobs : i \in due /\ job[i].status = "open" ~> job[i].status # "open"

\* The hedge a job closes is the one that was entered for it ("1:1 연결").
ClosesItsOwn ==
    \A c \in Callers : call[c].at = "office" /\ call[c].op \in DOMAIN Final =>
        spot[job[call[c].about].ticker] \in {Nothing, call[c].about}
=============================================================================
