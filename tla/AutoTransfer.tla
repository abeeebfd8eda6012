---------------------------- MODULE AutoTransfer ----------------------------
(***************************************************************************)
(* AutoTransferService: buys on Bithumb what is cheaper there and has      *)
(* WithdrawService send it to the target exchange.  Its loop starts jobs   *)
(* and watches them; trigger_manual starts one as well, with a dry_run of  *)
(* its own; the operator aborts, enables, and sets dry_run.                *)
(***************************************************************************)
EXTENDS Withdraw, FiniteSets

CONSTANTS
    Loop,                  \* the task of _loop
    Users,                 \* callers of trigger_manual
    Clerks,                \* callers of /api/withdraw
    Casts,                 \* bound: who takes part together
    Tickers,
    Cap,                   \* daily_cap_usd, in jobs
    MaxJobs, MaxCrashes    \* bounds

Drivers == {Loop} \cup Users

ASSUME TransferAssumption ==
    /\ Loop \notin Users /\ Callers = Drivers \cup Clerks /\ Drivers \cap Clerks = {}
    /\ Casts \subseteq SUBSET Callers
    /\ {Cap, MaxJobs, MaxCrashes} \subseteq Nat

VARIABLES
    jobs,       \* TransferJobStore: ticker, state, whether it is live, its token, who started it
    dry,        \* cfg.dry_run
    wanted,     \* history: the dry_run last set by the operator
    enabled,    \* cfg.enabled
    spent,      \* daily_spent_usd, as its readers find it after _rollover
    hot,        \* the tickers in their cooldown
    drive,      \* drive[p]: where p is with which job, and the dry_run it puts back
    sweep,      \* the jobs _monitor_active_jobs has still to look at
    crashes,
    cast        \* who takes part in this behaviour

ownVars == <<jobs, dry, wanted, enabled, spent, hot, drive, sweep, crashes, cast>>
vars == <<withdrawVars, ownVars>>

Resting == [at |-> "rest", job |-> 0, before |-> TRUE]
Done == {"COMPLETE", "FAILED", "STUCK", "ABORTED"}
JobState(j, state) == [jobs EXCEPT ![j].state = state]
Drives(p, at) == drive' = [drive EXCEPT ![p].at = at]

Init ==
    /\ WithdrawInit
    /\ jobs = <<>> /\ dry = TRUE /\ wanted = TRUE /\ enabled = TRUE
    /\ spent = 0 /\ hot = {}
    /\ drive = [p \in Drivers |-> Resting]
    /\ sweep = {} /\ crashes = 0
    /\ cast \in Casts

-----------------------------------------------------------------------------
(* _tick, trigger_manual and _start_job *)

Active(t) == \E j \in DOMAIN jobs : jobs[j].ticker = t /\ jobs[j].state \notin Done

\* Mutant of Admits: the ticker's own jobs are not looked for.
AdmitsCooled(t) == enabled /\ spent < Cap /\ t \notin hot

\* can_enter: the kill switch and the opportunity may stop it anyway.
Admits(t) == enabled /\ spent < Cap /\ ~Active(t) /\ t \notin hot

\* A job of p for ticker t, under the dry_run of this moment; a dry one is complete at once.
Starts(p, t, dryNow) ==
    /\ drive[p].at = "rest" /\ Len(jobs) < MaxJobs /\ Admits(t)
    /\ jobs' = Append(jobs, [ticker |-> t, live |-> ~dryNow, by |-> p, token |-> 0,
                             state |-> IF dryNow THEN "COMPLETE" ELSE "PENDING"])
    /\ spent' = spent + 1 /\ hot' = hot \cup {t}
    /\ drive' = [drive EXCEPT ![p] = [at |-> IF dryNow THEN "tell" ELSE "buy",
                                      job |-> Len(jobs'), before |-> (p = Loop) \/ dry]]
    /\ UNCHANGED <<withdrawVars, wanted, enabled, sweep, crashes, cast>>

\* The loop starts the best candidate that passes.
Ticks == sweep = {} /\ (\E t \in Tickers : Starts(Loop, t, dry)) /\ UNCHANGED dry

\* trigger_manual: dry_run is the caller's for as long as the job is driven.
Triggers(u) ==
    \E t \in Tickers, d \in BOOLEAN : Starts(u, t, d) /\ dry' = d

-----------------------------------------------------------------------------
(* _drive_live_job: each step writes its state over whatever is there *)

\* The market order on Bithumb: filled, or not, or something raises.
Buys(p) ==
    /\ drive[p].at = "buy"
    /\ \/ jobs' = JobState(drive[p].job, "BITHUMB_BOUGHT") /\ Drives(p, "preview")
       \/ jobs' = JobState(drive[p].job, "FAILED") /\ Drives(p, "tell")
    /\ UNCHANGED <<withdrawVars, dry, wanted, enabled, spent, hot, sweep, crashes, cast>>

\* The preview, and the call of execute with its token; or it is refused, or raises.
Withdraws(p) ==
    /\ drive[p].at = "preview"
    /\ \/ /\ Previews /\ exec' = [exec EXCEPT ![p] = [at |-> "queue", token |-> tokens']]
          /\ jobs' = [jobs EXCEPT ![drive[p].job].token = tokens']
          /\ Drives(p, "execute")
       \/ /\ \E s \in {"STUCK", "FAILED"} : jobs' = JobState(drive[p].job, s)
          /\ Drives(p, "tell") /\ UNCHANGED withdrawVars
    /\ UNCHANGED <<dry, wanted, enabled, spent, hot, sweep, crashes, cast>>

\* Mutant of Withdrawn: the answer is not looked at.
WithdrawnAnyway(p) ==
    /\ drive[p].at = "execute" /\ Leaves(p)
    /\ jobs' = JobState(drive[p].job, "WITHDRAWING")
    /\ Drives(p, "tell")
    /\ UNCHANGED <<dry, wanted, enabled, spent, hot, sweep, crashes, cast>>

\* execute has answered.
Withdrawn(p) ==
    /\ drive[p].at = "execute" /\ Leaves(p)
    /\ jobs' = JobState(drive[p].job, IF exec[p].at = "ok" THEN "WITHDRAWING" ELSE "STUCK")
    /\ Drives(p, "tell")
    /\ UNCHANGED <<dry, wanted, enabled, spent, hot, sweep, crashes, cast>>

\* The operator's message is sent; a trigger puts back the dry_run it found.
Tells(p) ==
    /\ drive[p].at = "tell"
    /\ drive' = [drive EXCEPT ![p] = Resting]
    /\ dry' = IF p = Loop THEN dry ELSE drive[p].before
    /\ UNCHANGED <<withdrawVars, jobs, wanted, enabled, spent, hot, sweep, crashes, cast>>

-----------------------------------------------------------------------------
(* _monitor_active_jobs *)

\* The jobs are copied, and looked at one by one with a message awaited between.
Sweeps ==
    /\ enabled /\ drive[Loop].at = "rest" /\ sweep = {}
    /\ sweep' = {j \in DOMAIN jobs : jobs[j].state = "WITHDRAWING"} /\ sweep' # {}
    /\ UNCHANGED <<withdrawVars, jobs, dry, wanted, enabled, spent, hot, drive, crashes, cast>>

\* Mutant of Judges: a job waits on however long it has.
JudgesNever(j) ==
    /\ j \in sweep /\ sweep' = sweep \ {j}
    /\ UNCHANGED <<withdrawVars, jobs, dry, wanted, enabled, spent, hot, drive, crashes, cast>>

\* A job that was WITHDRAWING when they were copied: it waits on, or withdraw_timeout_min
\* has passed, and it is stuck.
Judges(j) ==
    /\ j \in sweep /\ sweep' = sweep \ {j}
    /\ jobs' \in {jobs, JobState(j, "STUCK")}
    /\ UNCHANGED <<withdrawVars, dry, wanted, enabled, spent, hot, drive, crashes, cast>>

-----------------------------------------------------------------------------
(* The operator, time, and the process *)

\* abort_job: any job that is not over, one that is being driven as well.
Aborts(j) ==
    /\ jobs[j].state \notin {"COMPLETE", "FAILED", "ABORTED"}
    /\ jobs' = JobState(j, "ABORTED")
    /\ UNCHANGED <<withdrawVars, dry, wanted, enabled, spent, hot, drive, sweep, crashes, cast>>

SetsDry ==
    /\ wanted' \in BOOLEAN /\ dry' = wanted'
    /\ UNCHANGED <<withdrawVars, jobs, enabled, spent, hot, drive, sweep, crashes, cast>>

SetsEnabled ==
    /\ enabled' = ~enabled
    /\ UNCHANGED <<withdrawVars, jobs, dry, wanted, spent, hot, drive, sweep, crashes, cast>>

\* _rollover.
Midnight ==
    /\ spent > 0 /\ spent' = 0
    /\ UNCHANGED <<withdrawVars, jobs, dry, wanted, enabled, hot, drive, sweep, crashes, cast>>

\* Mutant of Cools: a cooldown is shorter than a drive.
CoolsEarly ==
    /\ \E t \in hot : hot' = hot \ {t}
    /\ UNCHANGED <<withdrawVars, jobs, dry, wanted, enabled, spent, drive, sweep, crashes, cast>>

\* A cooldown is over: half an hour, longer than a job is driven.
Cools ==
    /\ \E t \in hot :
          /\ \A p \in Drivers : drive[p].at # "rest" => jobs[drive[p].job].ticker # t
          /\ hot' = hot \ {t}
    /\ UNCHANGED <<withdrawVars, jobs, dry, wanted, enabled, spent, drive, sweep, crashes, cast>>

\* A clerk previews, executes any token, and is answered.
Clerical(c) ==
    /\ \/ Previews /\ UNCHANGED exec
       \/ \E k \in 1..tokens : Executes(c, k)
       \/ Leaves(c)
    /\ UNCHANGED ownVars

Serves(p) == (Enters(p) \/ Accepted(p) \/ Concludes(p)) /\ UNCHANGED ownVars

\* The process ends and is started again: both files are as they were, all else is lost.
Crash ==
    /\ crashes < MaxCrashes /\ crashes' = crashes + 1
    /\ WithdrawLost
    /\ dry' = TRUE /\ wanted' = TRUE /\ enabled' = TRUE
    /\ spent' = 0 /\ hot' = {} /\ sweep' = {}
    /\ drive' = [p \in Drivers |-> Resting]
    /\ UNCHANGED <<jobs, cast>>

Drive(p) == Buys(p) \/ Withdraws(p) \/ Withdrawn(p) \/ Tells(p)

Next ==
    \/ Loop \in cast /\ (Ticks \/ Sweeps)
    \/ cast \cap Drivers # {} /\ (SetsDry \/ SetsEnabled)
    \/ Midnight \/ Cools \/ Crash
    \/ \E u \in Users \cap cast : Triggers(u)
    \/ \E p \in Drivers \cap cast : Drive(p)
    \/ \E p \in cast : Serves(p)
    \/ \E c \in Clerks \cap cast : Clerical(c)
    \/ \E j \in DOMAIN jobs : Judges(j) \/ Aborts(j)
    \/ Expires /\ UNCHANGED ownVars

Spec == Init /\ [][Next]_vars

\* Calls are answered or time out, the loop comes round, and time passes.
Fairness ==
    /\ \A p \in Drivers : WF_vars(Drive(p))
    /\ \A p \in Callers : WF_vars(Serves(p))
    /\ WF_vars(Sweeps)
    /\ \A j \in 1..MaxJobs : /\ WF_vars(j \in DOMAIN jobs /\ Judges(j))
                             /\ SF_vars(j \in DOMAIN jobs /\ Judges(j) /\ jobs' # jobs)

FairSpec == Spec /\ Fairness

-----------------------------------------------------------------------------
(* Properties *)

Jobs == [ticker : Tickers, live : BOOLEAN, by : Drivers, token : Nat,
         state : Done \cup {"PENDING", "BITHUMB_BOUGHT", "WITHDRAWING"}]

\* Every variable of the two services has its type.
TypeOK ==
    /\ WithdrawTypeOK
    /\ jobs \in Seq(Jobs) /\ \A j \in DOMAIN jobs : jobs[j].token <= tokens
    /\ dry \in BOOLEAN /\ wanted \in BOOLEAN /\ enabled \in BOOLEAN
    /\ spent \in 0..Cap /\ hot \subseteq Tickers
    /\ drive \in [Drivers -> [at : {"rest", "buy", "preview", "execute", "tell"}, job : Nat, before : BOOLEAN]]
    /\ \A p \in Drivers : drive[p].job <= Len(jobs)
    /\ sweep \subseteq DOMAIN jobs

\* A driver executes when its job is at that step only; with it SentOnce is inductive.
TransferInv ==
    /\ WithdrawInv
    /\ jobs \in Seq(Jobs) /\ dry \in BOOLEAN /\ cast \in Casts
    /\ drive \in [Drivers -> [at : {"rest", "buy", "preview", "execute", "tell"}, job : Nat, before : BOOLEAN]]
    /\ \A p \in Drivers : exec[p].at # "away" => drive[p].at = "execute"

\* A ticker has one job at most that is not over, though the drive of an aborted job
\* brings it back to life (the jobs can_enter looks at, and the cooldown).
OneTransfer ==
    \A i, j \in DOMAIN jobs :
        i # j /\ jobs[i].ticker = jobs[j].ticker =>
            jobs[i].state \in Done \/ jobs[j].state \in Done

\* A job waits for the deposit of a withdrawal that the exchange has accepted, and no two
\* jobs of the same one.
WithdrawingWasSent ==
    \A j \in DOMAIN jobs : jobs[j].state = "WITHDRAWING" =>
        /\ jobs[j].live /\ jobs[j].token > 0 /\ sent[jobs[j].token] > 0
        /\ \A i \in DOMAIN jobs : i # j => jobs[i].token # jobs[j].token

\* Whose job is still to be written to by its drive.
Driven(p) == drive[p].at \in {"buy", "preview", "execute"}

\* What OneTransfer needs: a ticker that is driven is in its cooldown, and has no other
\* drive and no other job that is not over.
DriveInv ==
    /\ \A p \in Drivers : drive[p].at # "rest" =>
          drive[p].job \in DOMAIN jobs /\ jobs[drive[p].job].ticker \in hot
    /\ \A p, q \in Drivers : p # q /\ drive[p].at # "rest" /\ drive[q].at # "rest" =>
          jobs[drive[p].job].ticker # jobs[drive[q].job].ticker
    /\ \A p \in Drivers : Driven(p) =>
          \A i \in DOMAIN jobs : i # drive[p].job /\ jobs[i].ticker = jobs[drive[p].job].ticker =>
              jobs[i].state \in Done
    /\ OneTransfer

\* What the withdrawal service owes WithdrawingWasSent: what is submitted was sent; a
\* driver's token has no request but the lock holder's, the last, that is not concluded;
\* and a driver is told ok of what was sent.
AnswerInv ==
    /\ \A i \in DOMAIN requests : requests[i].status = "submitted" => sent[requests[i].token] > 0
    /\ \A p \in Callers : exec[p].at = "sent" => sent[exec[p].token] > 0
    /\ \A p \in Drivers : exec[p].at = "ok" => sent[exec[p].token] > 0
    /\ \A p \in Drivers : exec[p].at # "away" => exec[p].token > 0
    /\ \A p \in Drivers : exec[p].at = "queue" =>
          \A i \in Of(exec[p].token) : requests[i].status = "requested" =>
              holder # NoOne /\ i = Len(requests)

\* And the transfers: tokens are of one job each, a driven job is live, does not wait yet,
\* and is executed by its own token.
TokenInv ==
    /\ AnswerInv
    /\ \A j \in DOMAIN jobs : jobs[j].token \in 0..tokens
    /\ \A i, j \in DOMAIN jobs : i # j /\ jobs[i].token = jobs[j].token => jobs[i].token = 0
    /\ \A p \in Drivers : Driven(p) =>
          jobs[drive[p].job].live /\ jobs[drive[p].job].state # "WITHDRAWING"
    /\ \A p \in Drivers : drive[p].at = "execute" =>
          exec[p].at # "away" /\ exec[p].token = jobs[drive[p].job].token
    /\ WithdrawingWasSent

Waits(j) == j \in DOMAIN jobs /\ jobs[j].state = "WITHDRAWING"

\* No job waits for a deposit for ever: it is stuck after its timeout, or aborted, as
\* long as the loop runs and the service stays enabled (_monitor_active_jobs, and a
\* restart that finds the jobs in their file).
WaitsEnd ==
    (Loop \in cast /\ <>[]enabled) => \A j \in 1..MaxJobs : Waits(j) ~> ~Waits(j)

\* The loop never buys while the operator wants dry runs ("dry_run=True ...: no real
\* order, no real withdrawal, ever").
DryMeansDry ==
    [][\A j \in DOMAIN jobs' \ DOMAIN jobs :
          jobs'[j].by = Loop /\ jobs'[j].live => ~wanted]_vars
=============================================================================
