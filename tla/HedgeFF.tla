------------------------------ MODULE HedgeFF ------------------------------
(***************************************************************************)
(* Hedges of two futures (enter_ff, close_ff, _refresh_ff_job_locked):     *)
(* long where it is cheap, short where it is dear, both legs sent at once, *)
(* what filled too much undone with reduce-only orders, every call under   *)
(* the service's one lock.  The callers are the API, the executor of       *)
(* FuturesFuturesScanner and the strategies.  The hedges of spot and       *)
(* futures are taken at what HedgeBook promises: they open and close       *)
(* between the calls.  Quantities are small integers, precise to a venue's *)
(* lot; prices are left out.                                               *)
(***************************************************************************)
EXTENDS Integers, Sequences, SequencesExt, FiniteSetsExt

CONSTANTS
    Callers,              \* the coroutines that call the service
    Tickers, Venues,      \* tickers; futures exchanges
    Lot,                  \* Lot[v]: the step of v's amounts
    Size,                 \* what the notional buys
    Quiet,                \* the orders whose reply may tell less than was done
    None,
    MaxJobs, MaxCrashes   \* bounds: jobs, crashes

Legs == {"long", "short"}
Other(leg) == IF leg = "long" THEN "short" ELSE "long"
Pairs == {on \in [Legs -> Venues] : on.long # on.short}

ASSUME FFAssumption ==
    /\ None \notin Venues \cup Pairs
    /\ Lot \in [Venues -> Nat \ {0}] /\ Quiet \subseteq {"market", "reduce"}
    /\ {Size, MaxJobs, MaxCrashes} \subseteq Nat

VARIABLES
    jobs,      \* the store's 'ff_arb' jobs, in the order they were made
    line,      \* _lock: its holder, then those who wait
    call,      \* call[c]: where the call of c is
    pos,       \* pos[t][v]: the account's futures position
    own,       \* own[i]: what of it job i's orders have opened and not closed
    hedge,     \* hedge[t]: the venue of the open hedge of spot and futures
    crashes

vars == <<jobs, line, call, pos, own, hedge, crashes>>

Zero == [leg \in Legs |-> 0]
Idle == [at |-> "idle", op |-> "enter", ticker |-> None, on |-> [leg \in Legs |-> None],
         job |-> 0, due |-> Zero, got |-> Zero, back |-> Zero]

Init ==
    /\ jobs = <<>> /\ line = <<>> /\ call = [c \in Callers |-> Idle]
    /\ pos = [t \in Tickers |-> [v \in Venues |-> 0]] /\ own = <<>>
    /\ hedge = [t \in Tickers |-> None]
    /\ crashes = 0

-----------------------------------------------------------------------------
(* The store and the amounts.                                              *)

\* _latest_open_ff_job
IsOpen(j) == j.status \in {"ff_open", "ff_partial"} /\ \A leg \in Legs : j.qty[leg] > 0
OpenJobs(t) == {i \in DOMAIN jobs : jobs[i].ticker = t /\ IsOpen(jobs[i])}

Above(x) == Max({x, 0})
Norm(v, q) == q - (q % Lot[v])
Less(a, b) == [leg \in Legs |-> Above(a[leg] - b[leg])]

\* What one leg filled beyond the other, as an order on its own venue.
Undo(on, got) == [leg \in Legs |-> Norm(on[leg], Above(got[leg] - got[Other(leg)]))]

\* How an entry ends, from what its orders said (cases 1 to 4).
\* Mutant of Verdict: a rollback that filled at all is taken for whole.
VerdictAnyBack(got, back) ==
    LET net == Less(got, back) IN
    IF got = Zero THEN "failed"
    ELSE IF \E leg \in Legs : got[leg] = 0
         THEN IF back = Zero THEN "rollback_failed" ELSE "rolled_back"
    ELSE IF \E leg \in Legs : net[leg] = 0 THEN "failed"
    ELSE IF net.long = net.short THEN "ff_open" ELSE "ff_partial"

Verdict(got, back) ==
    LET net == Less(got, back) IN
    IF got = Zero THEN "failed"
    ELSE IF \E leg \in Legs : got[leg] = 0
         THEN IF net = Zero THEN "rolled_back" ELSE "rollback_failed"
    ELSE IF \E leg \in Legs : net[leg] = 0 THEN "failed"
    ELSE IF net.long = net.short THEN "ff_open" ELSE "ff_partial"

\* _refresh_ff_job_locked: a job is closed when the last close left neither leg.
Refreshed(j, closed) ==
    [j EXCEPT !.closed = closed,
              !.status = IF Less(j.qty, closed) = Zero THEN "closed" ELSE @]

-----------------------------------------------------------------------------
(* The lock.  A caller is let in when it is first in line.                 *)

Inside(c, at) == line # <<>> /\ Head(line) = c /\ call[c].at = at
Goes(c, at) == call' = [call EXCEPT ![c].at = at]

Asks(c, op, t, on) ==
    /\ call[c].at = "idle"
    /\ line' = Append(line, c)
    /\ call' = [call EXCEPT ![c] = [Idle EXCEPT !.at = "lock", !.op = op, !.ticker = t, !.on = on]]

\* The call returns and the lock is released.
Leaves(c) ==
    /\ line' = Tail(line)
    /\ call' = [call EXCEPT ![c] = Idle]

-----------------------------------------------------------------------------
(* enter_ff *)

Calls(c, t) ==
    /\ \/ \E on \in Pairs : Asks(c, "enter", t, on)
       \/ Asks(c, "close", t, Idle.on)
    /\ UNCHANGED <<jobs, pos, own, hedge, crashes>>

\* Mutants of MayEnter: one of the two is not looked for.
MayEnterTwice(t) == hedge[t] = None
MayEnterOver(t) == OpenJobs(t) = {}

\* No open job and no open hedge of the ticker.
MayEnter(t) == OpenJobs(t) = {} /\ hedge[t] = None

EnterBegins(c) ==
    /\ Inside(c, "lock") /\ call[c].op = "enter"
    /\ IF MayEnter(call[c].ticker) THEN Goes(c, "prices") /\ UNCHANGED line ELSE Leaves(c)
    /\ UNCHANGED <<jobs, pos, own, hedge, crashes>>

\* No instance, no market, no price, or an amount below a venue's least.
Unpriced(c) ==
    /\ Inside(c, "prices") /\ Leaves(c)
    /\ UNCHANGED <<jobs, pos, own, hedge, crashes>>

\* The job is written before its orders, which are sent together.
Sends(c) ==
    LET on == call[c].on
        target == Min({Norm(on[leg], Size) : leg \in Legs})
        due == [leg \in Legs |-> Norm(on[leg], target)]
    IN /\ Inside(c, "prices") /\ Len(jobs) < MaxJobs
       /\ \A leg \in Legs : due[leg] > 0
       /\ jobs' = Append(jobs, [ticker |-> call[c].ticker, on |-> on, status |-> "requested",
                                qty |-> Zero, closed |-> Zero])
       /\ own' = Append(own, Zero)
       /\ call' = [call EXCEPT ![c] = [@ EXCEPT !.at = "orders", !.job = Len(jobs) + 1, !.due = due]]
       /\ UNCHANGED <<line, pos, hedge, crashes>>

\* The venue executes an order, or not, or a part; a reduce-only order only
\* what the position leaves.  The reply tells what was done, or less.
Room(t, v, leg) == Above(IF leg = "long" THEN pos[t][v] ELSE 0 - pos[t][v])

Fills(c, leg) ==
    LET e == call[c]
        market == e.at = "orders"
        v == e.on[leg]
        most == IF market THEN e.due[leg] ELSE Min({e.due[leg], Room(e.ticker, v, leg)})
        up == market = (leg = "long")
    IN /\ e.due[leg] > 0
       /\ \E did \in 0..most :
            /\ pos' = [pos EXCEPT ![e.ticker][v] = IF up THEN @ + did ELSE @ - did]
            /\ own' = [own EXCEPT ![e.job][leg] = IF market THEN @ + did ELSE Above(@ - did)]
            /\ \E said \in 0..did :
                 /\ said = did \/ (IF market THEN "market" ELSE "reduce") \in Quiet
                 /\ call' = [call EXCEPT ![c] = IF market
                        THEN [@ EXCEPT !.due[leg] = 0, !.got[leg] = said]
                        ELSE [@ EXCEPT !.due[leg] = 0, !.back[leg] = said]]
       /\ UNCHANGED <<jobs, line, hedge, crashes>>

\* What filled on one leg only, or more than the other, is undone.
Undoes(c) ==
    LET u == Undo(call[c].on, call[c].got) IN
    /\ Inside(c, "orders") /\ call[c].due = Zero /\ u # Zero
    /\ call' = [call EXCEPT ![c] = [@ EXCEPT !.at = "undo", !.due = u]]
    /\ UNCHANGED <<jobs, line, pos, own, hedge, crashes>>

EntryEnds(c) ==
    LET e == call[c]
        verdict == Verdict(e.got, e.back)
        ok == verdict \in {"ff_open", "ff_partial"}
    IN /\ e.due = Zero
       /\ \/ Inside(c, "undo")
          \/ Inside(c, "orders") /\ Undo(e.on, e.got) = Zero
       /\ jobs' = [jobs EXCEPT ![e.job] = [@ EXCEPT !.status = verdict,
                        !.qty = IF ok THEN Less(e.got, e.back) ELSE Zero]]
       /\ Leaves(c)
       /\ UNCHANGED <<pos, own, hedge, crashes>>

-----------------------------------------------------------------------------
(* close_ff: each leg's whole entry quantity, reduce-only.                 *)

CloseBegins(c) ==
    LET e == call[c]
        i == Max(OpenJobs(e.ticker))
        due == [leg \in Legs |-> Norm(jobs[i].on[leg], jobs[i].qty[leg])]
    IN /\ Inside(c, "lock") /\ e.op = "close"
       /\ IF OpenJobs(e.ticker) = {} \/ due = Zero THEN Leaves(c)
          ELSE /\ call' = [call EXCEPT ![c] = [@ EXCEPT !.at = "close", !.job = i,
                                                 !.on = jobs[i].on, !.due = due]]
               /\ UNCHANGED line
       /\ UNCHANGED <<jobs, pos, own, hedge, crashes>>

CloseEnds(c) ==
    LET e == call[c] IN
    /\ Inside(c, "close") /\ e.due = Zero
    /\ jobs' = [jobs EXCEPT ![e.job] = Refreshed(@, e.back)]
    /\ Leaves(c)
    /\ UNCHANGED <<pos, own, hedge, crashes>>

-----------------------------------------------------------------------------
(* The hedges of spot and futures, and the process.                        *)

\* enter, which looks for a hedge of its own kind only.
HedgeOpens(t, v) ==
    /\ line = <<>> /\ hedge[t] = None
    /\ hedge' = [hedge EXCEPT ![t] = v]
    /\ pos' = [pos EXCEPT ![t][v] = @ - Size]
    /\ UNCHANGED <<jobs, line, call, own, crashes>>

\* close_job, when the account still has the short it is to buy back.
HedgeCloses(t) ==
    /\ line = <<>> /\ hedge[t] # None /\ Size <= 0 - pos[t][hedge[t]]
    /\ hedge' = [hedge EXCEPT ![t] = None]
    /\ pos' = [pos EXCEPT ![t][hedge[t]] = @ + Size]
    /\ UNCHANGED <<jobs, line, call, own, crashes>>

\* The process dies and starts again: the jobs are in their file.
Crash ==
    /\ crashes < MaxCrashes
    /\ line' = <<>> /\ call' = [c \in Callers |-> Idle]
    /\ crashes' = crashes + 1
    /\ UNCHANGED <<jobs, pos, own, hedge>>

-----------------------------------------------------------------------------
Serves(c) ==
    \/ EnterBegins(c) \/ Unpriced(c) \/ Sends(c) \/ Undoes(c) \/ EntryEnds(c)
    \/ CloseBegins(c) \/ CloseEnds(c) \/ \E leg \in Legs : Fills(c, leg)

Next ==
    \/ \E c \in Callers : Serves(c) \/ \E t \in Tickers : Calls(c, t)
    \/ \E t \in Tickers : HedgeCloses(t) \/ \E v \in Venues : HedgeOpens(t, v)
    \/ Crash

Spec == Init /\ [][Next]_vars

-----------------------------------------------------------------------------
(* What holds.                                                             *)

\* A job that failed, was rolled back or was closed has nothing left at its
\* venues, and one that is open not more than its record says: whatever a
\* reply of a reduce-only order keeps back, and however often it is closed.
RecordCovers ==
    \A i \in DOMAIN jobs :
        /\ jobs[i].status \in {"failed", "rolled_back", "closed"} => own[i] = Zero
        /\ IsOpen(jobs[i]) => \A leg \in Legs : own[i][leg] <= Less(jobs[i].qty, jobs[i].closed)[leg]

\* Two legs are opened only for a ticker without a hedge of either kind.
OpensApart ==
    [][\A i \in DOMAIN jobs :
        IsOpen(jobs'[i]) /\ ~IsOpen(jobs[i]) =>
            OpenJobs(jobs[i].ticker) = {} /\ hedge[jobs[i].ticker] = None]_vars

\* The book of these hedges: a ticker is on one pair of venues, and on
\* another only once it is closed.
Active == [t \in Tickers |-> IF OpenJobs(t) = {} THEN None ELSE jobs[Max(OpenJobs(t))].on]

Book == INSTANCE HedgeBook WITH
    Exchanges <- Pairs, NoExchange <- None, MayForget <- FALSE, active <- Active

BookSpec == Book!Spec

-----------------------------------------------------------------------------
(* Why it holds: the inductive invariants.                                 *)

Amounts == [Legs -> Nat]
Records == [ticker : Tickers, on : Pairs, qty : Amounts, closed : Amounts,
            status : {"requested", "ff_open", "ff_partial", "failed", "rolled_back",
                      "rollback_failed", "closed"}]

\* Every variable has its type.
TypeOK ==
    /\ jobs \in Seq(Records) /\ own \in Seq(Amounts) /\ Len(own) = Len(jobs)
    /\ line \in Seq(Callers)
    /\ call \in [Callers -> [at : {"idle", "lock", "prices", "orders", "undo", "close"},
                            op : {"enter", "close"}, ticker : Tickers \cup {None},
                            on : [Legs -> Venues \cup {None}], job : Nat,
                            due : Amounts, got : Amounts, back : Amounts]]
    /\ pos \in [Tickers -> [Venues -> Int]] /\ hedge \in [Tickers -> Venues \cup {None}]
    /\ crashes \in 0..MaxCrashes

\* A caller is in the line once, if it calls at all, and only the first is past the lock.
LineInv ==
    /\ \A k, l \in 1..Len(line) : line[k] = line[l] => k = l
    /\ \A k \in 1..Len(line) : call[line[k]].at # "idle"
    /\ \A c \in Callers :
          call[c].at \in {"prices", "orders", "undo", "close"} => line # <<>> /\ Head(line) = c

\* Nothing is due, or was told, before the orders.
Waiting(e) ==
    /\ e.at # "idle" => e.ticker \in Tickers
    /\ e.at = "lock" /\ e.op = "enter" => e.on \in Pairs
    /\ e.at \in {"idle", "lock", "prices"} => e.due = Zero /\ e.got = Zero
    /\ e.at \in {"idle", "lock", "prices", "orders"} => e.back = Zero

\* An entry past its check finds the ticker free to its end; its orders are of a job that
\* was never open, a close's of the one that is.
Working(c) ==
    LET e == call[c] IN
    /\ e.at \in {"prices", "orders", "undo"} => e.on \in Pairs /\ MayEnter(e.ticker)
    /\ e.at \in {"orders", "undo", "close"} =>
          /\ e.job \in DOMAIN jobs
          /\ jobs[e.job].ticker = e.ticker /\ jobs[e.job].on = e.on
    /\ e.at \in {"orders", "undo"} => jobs[e.job].status = "requested"
    /\ e.at = "close" => IsOpen(jobs[e.job])

CallInv == \A c \in Callers : Waiting(call[c]) /\ Working(c)

OneOpen ==
    \A i, k \in DOMAIN jobs :
        IsOpen(jobs[i]) /\ IsOpen(jobs[k]) /\ jobs[i].ticker = jobs[k].ticker => i = k

FFInv == TypeOK /\ LineInv /\ CallInv /\ OneOpen

\* What a call has been told leaves at least what its orders have left at the venues, when
\* an entry's own orders are told in full.
Told(c) ==
    LET e == call[c] IN
    /\ e.at \in {"orders", "undo"} => jobs[e.job].closed = Zero
    /\ e.at = "orders" =>
          own[e.job] = e.got /\ \A leg \in Legs : e.due[leg] > 0 => e.got[leg] = 0
    /\ e.at = "undo" => \A leg \in Legs :
          /\ e.due[leg] <= Undo(e.on, e.got)[leg] /\ e.back[leg] <= Undo(e.on, e.got)[leg]
          /\ own[e.job][leg] <= Less(e.got, e.back)[leg]
    /\ e.at = "close" =>
          \A leg \in Legs : own[e.job][leg] <= Less(jobs[e.job].qty, e.back)[leg]

ToldInv == \A c \in Callers : Told(c)

CoverInv == ToldInv /\ RecordCovers

-----------------------------------------------------------------------------
(* What does not hold.                                                     *)

\* Between the calls, what the record says is left of an open job is left of
\* it at its venues: the fills of one close are forgotten by the next, and a
\* pair that is flat is open for ever.
ResidualIsOpen ==
    line = <<>> => \A i \in DOMAIN jobs :
        IsOpen(jobs[i]) => own[i] = Less(jobs[i].qty, jobs[i].closed)

\* No ticker has hedges of both kinds open: enter does not look for two legs of futures.
KindsApart == \A t \in Tickers : OpenJobs(t) = {} \/ hedge[t] = None
=============================================================================
