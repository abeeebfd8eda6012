----------------------------- MODULE HedgeTrade -----------------------------
(***************************************************************************)
(* HedgeTradeService with the HedgeJobStore behind it                      *)
(* (40-realtime-infra/spot-spot-arb/backend/services).  A hedge of a       *)
(* ticker is a spot position bought on Bithumb and a short of the same     *)
(* size on one futures exchange.  Every entry point of the service (enter, *)
(* close_job, refresh_latest_job) runs under one asyncio.Lock of its       *)
(* process and awaits the venues while it holds it; each stretch of code   *)
(* between two awaits is one action here.  Quantities are counted in lots: *)
(* one lot is the least amount outside the residual tolerances, so the     *)
(* tolerances are equality of lots.                                        *)
(***************************************************************************)
EXTENDS Integers, Sequences, FiniteSetsExt

CONSTANTS
    Workers,      \* server processes: each has a lock and a store of its own
    Callers,      \* coroutines that call the service
    Home,         \* Home[h]: the process the coroutine h runs in
    Asks,         \* Asks[h]: the calls the coroutine h makes
    Tickers,
    Exchanges,    \* the venues of ALL_EXCHANGES that also trade futures
    NoExchange, NoCaller,
    OperatorAt,   \* bound: the exchanges where the operator trades by hand
    MaxLot,       \* bound: the largest order of an entry, in lots
    MaxVolume,    \* bound: the lots entries may buy, and sell, per ticker
    MaxJobs,      \* bound: the jobs of a store
    Slip,         \* lots a Bithumb buy by amount of KRW may fill above its size
    MinFutures,   \* a smaller futures order normalises to zero
    LateFills,    \* may a fill escape the order's reply and its polls?
    CrashesOn,    \* may a process die and be restarted?
    TornSaves     \* may a save leave a truncated file behind?

ASSUME ModelAssumption ==
    /\ Home \in [Callers -> Workers]
    /\ NoExchange \notin Exchanges
    /\ NoCaller \notin Callers
    /\ OperatorAt \subseteq Exchanges
    /\ {MaxLot, MaxVolume, MaxJobs, Slip, MinFutures} \subseteq Nat
    /\ {LateFills, CrashesOn, TornSaves} \subseteq BOOLEAN

VARIABLES
    up,       \* up[w]: the process runs
    lock,     \* lock[w]: the caller inside "async with self._lock", or NoCaller
    waiters,  \* waiters[w]: the callers that await the lock, in order
    jobs,     \* jobs[w]: HedgeJobStore._items, oldest first
    file,     \* what hedge_jobs.json loads as: a truncated one as no job
    pc,       \* pc[h]: where the coroutine h is
    req,      \* req[h]: the call h makes
    att,      \* att[h]: the locals of the entry attempt or the close of h
    res,      \* res[h]: what the call returned
    mkt       \* mkt[t]: what the venues hold and remember of ticker t

storeVars == <<jobs, file>>
lockVars == <<lock, waiters>>
vars == <<up, lock, waiters, jobs, file, pc, req, att, res, mkt>>

-----------------------------------------------------------------------------
(* Data. *)

OpenStatus == {"hedged", "partial_hedged"}
DeadStatus == {"failed", "rolled_back", "rollback_failed", "closed"}
Status == OpenStatus \cup DeadStatus \cup {"requested"}

\* A job: what it was entered with (qtyS, qtyF), the net of the entry legs
\* recorded in it (legS, legF), where its spot is to be sold (exit), and what
\* the trade and withdrawal histories held when it was created (since): the
\* queries by created_at see what came later.
Job == [ticker: Tickers, ex: Exchanges, status: Status,
        qtyS: Nat, qtyF: Nat, legS: Nat, legF: Nat, exit: Exchanges,
        since: [sold: [Exchanges -> Nat], buys: [Exchanges -> Nat],
                moved: [Exchanges -> Nat]]]

\* ex: where to short (enter), where the spot is sold (refresh, optional).
Request == [op: {"enter", "close", "refresh"}, t: Tickers,
            ex: Exchanges \cup {NoExchange}]
NoRequest == [op |-> "none"]

ASSUME AsksAssumption ==
    /\ Asks \in [Callers -> SUBSET Request]
    /\ \A h \in Callers : \A r \in Asks[h] : r.op = "enter" => r.ex # NoExchange

Order == [leg: {"spot", "futures"}, side: {"buy", "sell"}, qty: Nat]

Attempt == [job: Nat,               \* the job's place in the store; 0: none yet
            fresh: BOOLEAN,         \* the attempt created the job
            flight: SUBSET Order,   \* orders sent and not answered yet
            spot: Nat, fut: Nat,    \* what the two entry orders report
            undone: Nat,            \* what the rollback order reports
            netS: Nat, netF: Nat]   \* net of the attempt's legs

NoAttempt == [job |-> 0, fresh |-> FALSE, flight |-> {}, spot |-> 0, fut |-> 0,
              undone |-> 0, netS |-> 0, netF |-> 0]

Codes == {"NONE", "OK", "UNAVAILABLE", "ACTIVE_HEDGE_EXISTS", "NO_OPEN_JOB",
          "ENTRY_FAILED", "ONE_SIDED_FILL"}
Messages == {"none", "scaled in", "hedge unchanged"}
Result == [ok: BOOLEAN, code: Codes, message: Messages, status: Status \cup {"none"}]

NoResult == [ok |-> FALSE, code |-> "NONE", message |-> "none", status |-> "none"]
Answer(ok, code, status) == [NoResult EXCEPT !.ok = ok, !.code = code, !.status = status]

\* coin: on Bithumb; coinClosed: sold there by close_job; moved: withdrawn to an
\* exchange; sold: spot sales in an exchange's history; short: the futures
\* position; buys: futures BUY fills in the history; closed: those of them
\* that were meant to close the hedge.
Market == [coin: Int, coinClosed: Nat, moved: [Exchanges -> Nat], sold: [Exchanges -> Nat],
           short: [Exchanges -> Int], buys: [Exchanges -> Nat], closed: [Exchanges -> Nat]]

Zero == [e \in Exchanges |-> 0]
Least(a, b) == IF a <= b THEN a ELSE b
AtLeast0(a) == IF a >= 0 THEN a ELSE 0

Locked == {"pricing", "entering", "undoing", "adjusting", "closing", "refreshing"}
PCs == {"idle", "waiting", "done"} \cup Locked

Init ==
    /\ up = [w \in Workers |-> TRUE]
    /\ lock = [w \in Workers |-> NoCaller]
    /\ waiters = [w \in Workers |-> <<>>]
    /\ jobs = [w \in Workers |-> <<>>]
    /\ file = <<>>
    /\ pc = [h \in Callers |-> "idle"]
    /\ req = [h \in Callers |-> NoRequest]
    /\ att = [h \in Callers |-> NoAttempt]
    /\ res = [h \in Callers |-> NoResult]
    /\ mkt = [t \in Tickers |-> [coin |-> 0, coinClosed |-> 0, moved |-> Zero, sold |-> Zero,
                                 short |-> Zero, buys |-> Zero, closed |-> Zero]]

\* The sum of the values of f.
Total(f) == MapThenSumSet(LAMBDA x : f[x], DOMAIN f)

\* The spot the entries bought, wherever it is now.
SpotAtVenues(t) == mkt[t].coin + mkt[t].coinClosed + Total(mkt[t].moved)

-----------------------------------------------------------------------------
(* The job store. *)

Classify(s, f) == IF s = f THEN "hedged" ELSE "partial_hedged"

\* _normalize_hedge_entry_status: every write reclassifies a live hedge.
Normalize(j) ==
    IF j.status \in OpenStatus /\ j.qtyS > 0 /\ j.qtyF > 0
    THEN [j EXCEPT !.status = Classify(j.qtyS, j.qtyF)]
    ELSE j

\* Mutants of IsOpen: whatever the status; hedges of equal legs only.
IsOpenAnyStatus(j) == j.qtyS > 0 /\ j.qtyF > 0
IsOpenHedgedOnly(j) == j.status = "hedged" /\ j.qtyS > 0 /\ j.qtyF > 0

IsOpen(j) == j.status \in OpenStatus /\ j.qtyS > 0 /\ j.qtyF > 0

OpenJobs(w, t) == {i \in DOMAIN jobs[w] : jobs[w][i].ticker = t /\ IsOpen(jobs[w][i])}

\* latest_open_job: the newest of the open jobs, 0 when there is none.
LatestOpen(w, t) ==
    IF OpenJobs(w, t) = {} THEN 0
    ELSE CHOOSE i \in OpenJobs(w, t) : \A k \in OpenJobs(w, t) : k <= i

\* _save rewrites the whole file in place; its errors are only logged.
Save(items) ==
    file' \in {items} \cup (IF TornSaves THEN {<<>>} ELSE {})

\* create_job and update_job: change the list in memory, then save it.
CreateJob(w, j) ==
    /\ jobs' = [jobs EXCEPT ![w] = Append(@, Normalize(j))]
    /\ Save(jobs'[w])

\* Mutant of UpdateJob: the file is left as it was.
UpdateJobUnsaved(w, i, j) ==
    /\ jobs' = [jobs EXCEPT ![w][i] = Normalize(j)]
    /\ UNCHANGED file

UpdateJob(w, i, j) ==
    /\ jobs' = [jobs EXCEPT ![w][i] = Normalize(j)]
    /\ Save(jobs'[w])

-----------------------------------------------------------------------------
(* Calls and the lock. *)

\* A coroutine calls the service: it queues for the lock.
Call(h, r) ==
    /\ up[Home[h]]
    /\ pc[h] = "idle"
    /\ pc' = [pc EXCEPT ![h] = "waiting"]
    /\ req' = [req EXCEPT ![h] = r]
    /\ waiters' = [waiters EXCEPT ![Home[h]] = Append(@, h)]
    /\ UNCHANGED <<up, lock, storeVars, att, res, mkt>>

\* Mutant of MayLock: no lock.
MayLockHeld(h) ==
    pc[h] = "waiting" /\ waiters[Home[h]] # <<>> /\ Head(waiters[Home[h]]) = h

\* The lock is free and h is the first of those that await it.
MayLock(h) ==
    /\ pc[h] = "waiting"
    /\ lock[Home[h]] = NoCaller
    /\ waiters[Home[h]] # <<>>
    /\ Head(waiters[Home[h]]) = h

\* Mutant of Lock: the lock is not kept over the awaits.
LockBriefly(h, label, a) ==
    /\ MayLock(h)
    /\ waiters' = [waiters EXCEPT ![Home[h]] = Tail(@)]
    /\ pc' = [pc EXCEPT ![h] = label]
    /\ att' = [att EXCEPT ![h] = a]
    /\ UNCHANGED <<up, lock, req, res>>

\* h takes the lock and goes on to the first await of its handler.
Lock(h, label, a) ==
    /\ MayLock(h)
    /\ lock' = [lock EXCEPT ![Home[h]] = h]
    /\ waiters' = [waiters EXCEPT ![Home[h]] = Tail(@)]
    /\ pc' = [pc EXCEPT ![h] = label]
    /\ att' = [att EXCEPT ![h] = a]
    /\ UNCHANGED <<up, req, res>>

\* h finds nothing to do: it takes and leaves the lock without an await.
Refuse(h, answer) ==
    /\ MayLock(h)
    /\ waiters' = [waiters EXCEPT ![Home[h]] = Tail(@)]
    /\ pc' = [pc EXCEPT ![h] = "done"]
    /\ res' = [res EXCEPT ![h] = answer]
    /\ UNCHANGED <<up, lock, storeVars, req, att, mkt>>

\* Mutant of Return: a return that leaves the lock taken.
ReturnLocked(h, answer) ==
    /\ pc' = [pc EXCEPT ![h] = "done"]
    /\ res' = [res EXCEPT ![h] = answer]
    /\ att' = [att EXCEPT ![h] = NoAttempt]
    /\ UNCHANGED <<up, lock, waiters, req>>

\* The handler returns: the lock is released.
Return(h, answer) ==
    /\ lock' = [lock EXCEPT ![Home[h]] = NoCaller]
    /\ pc' = [pc EXCEPT ![h] = "done"]
    /\ res' = [res EXCEPT ![h] = answer]
    /\ att' = [att EXCEPT ![h] = NoAttempt]
    /\ UNCHANGED <<up, waiters, req>>

\* The caller reads what the call returned.
Take(h) ==
    /\ pc[h] = "done"
    /\ pc' = [pc EXCEPT ![h] = "idle"]
    /\ req' = [req EXCEPT ![h] = NoRequest]
    /\ res' = [res EXCEPT ![h] = NoResult]
    /\ UNCHANGED <<up, lockVars, storeVars, att, mkt>>

-----------------------------------------------------------------------------
(* Orders.  The venue fills an order by some amount; the service believes   *)
(* what the reply and the polls report of it, which is less when the call   *)
(* raises or the fill is later than the last poll.                          *)

Reported(filled) == IF LateFills THEN 0..filled ELSE {filled}

SpotOrder(side, qty) == [leg |-> "spot", side |-> side, qty |-> qty]
FuturesOrder(side, qty) == [leg |-> "futures", side |-> side, qty |-> qty]

\* _normalize_amount of a futures order; a Bithumb amount is kept as it is.
NormalizeFutures(qty) == IF qty < MinFutures THEN 0 ELSE qty
Orders(o) == IF o.qty > 0 THEN {o} ELSE {}

\* Mutant of NetAfter: rollbacks are not taken from the net.
NetIgnoring(net, opposite) == net

\* _compute_net_spot, _compute_net_futures_short: an opposite leg takes from the
\* net what there is to take.
NetAfter(net, opposite) == net - Least(net, opposite)

\* The fill of the order o of h is answered.
Answered(h, o, a) ==
    /\ o \in att[h].flight
    /\ att' = [att EXCEPT ![h] = [a EXCEPT !.flight = @ \ {o}]]
    /\ UNCHANGED <<up, lockVars, storeVars, pc, req, res>>

\* The Bithumb order of an entry: a buy by amount of KRW.
FillSpotBuy(h) ==
    \E o \in att[h].flight :
        /\ o.leg = "spot" /\ o.side = "buy"
        /\ \E filled \in 0..(o.qty + Slip) : \E seen \in Reported(filled) :
            /\ mkt' = [mkt EXCEPT ![req[h].t].coin = @ + filled]
            /\ Answered(h, o, [att[h] EXCEPT !.spot = seen, !.netS = seen])

\* A sell on Bithumb, never of more than the account holds: the rollback of an
\* entry, or the spot leg of close_job.
FillSpotSell(h) ==
    \E o \in att[h].flight :
        /\ o.leg = "spot" /\ o.side = "sell"
        /\ \E filled \in 0..Least(o.qty, AtLeast0(mkt[req[h].t].coin)) : \E seen \in Reported(filled) :
            /\ mkt' = [mkt EXCEPT ![req[h].t].coin = @ - filled,
                                  ![req[h].t].coinClosed = IF pc[h] = "closing" THEN @ + filled ELSE @]
            /\ Answered(h, o, IF pc[h] = "closing" THEN att[h]
                              ELSE [att[h] EXCEPT !.undone = seen, !.netS = NetAfter(@, seen)])

\* A futures sell: the entry's short, or the adjustment that enlarges it.
FillFuturesSell(h) ==
    \E o \in att[h].flight :
        /\ o.leg = "futures" /\ o.side = "sell"
        /\ \E filled \in 0..o.qty : \E seen \in Reported(filled) :
            /\ mkt' = [mkt EXCEPT ![req[h].t].short[req[h].ex] = @ + filled]
            /\ Answered(h, o, IF pc[h] = "entering"
                              THEN [att[h] EXCEPT !.fut = seen, !.netF = seen]
                              ELSE [att[h] EXCEPT !.netF = @ + seen])

\* A futures buy: the rollback or the adjustment that reduces the short.
FillFuturesBuy(h) ==
    /\ pc[h] # "closing"
    /\ \E o \in att[h].flight :
        /\ o.leg = "futures" /\ o.side = "buy"
        /\ \E filled \in 0..o.qty : \E seen \in Reported(filled) :
            /\ mkt' = [mkt EXCEPT ![req[h].t].short[req[h].ex] = @ - filled,
                                  ![req[h].t].buys[req[h].ex] = @ + filled]
            /\ Answered(h, o, [att[h] EXCEPT !.undone = seen, !.netF = NetAfter(@, seen)])

\* The futures leg of close_job: a reduce-only buy.
FillFuturesClose(h) ==
    /\ pc[h] = "closing"
    /\ \E o \in att[h].flight :
        LET ex == jobs[Home[h]][att[h].job].ex IN
        /\ o.leg = "futures" /\ o.side = "buy"
        /\ \E filled \in 0..Least(o.qty, AtLeast0(mkt[req[h].t].short[ex])) :
            mkt' = [mkt EXCEPT ![req[h].t].short[ex] = @ - filled,
                               ![req[h].t].buys[ex] = @ + filled,
                               ![req[h].t].closed[ex] = @ + filled]
        /\ Answered(h, o, att[h])

-----------------------------------------------------------------------------
(* enter. *)

\* An open hedge of the ticker on another exchange refuses the call.
EnterRefused(h) ==
    LET i == LatestOpen(Home[h], req[h].t) IN
    /\ MayLock(h) /\ req[h].op = "enter"
    /\ i # 0 /\ jobs[Home[h]][i].ex # req[h].ex
    /\ Refuse(h, Answer(FALSE, "ACTIVE_HEDGE_EXISTS", jobs[Home[h]][i].status))

\* Mutant of EnterStart: a hedge on another exchange does not refuse the call.
EnterStartAnywhere(h) ==
    /\ MayLock(h) /\ req[h].op = "enter"
    /\ Lock(h, "pricing", [NoAttempt EXCEPT !.job = LatestOpen(Home[h], req[h].t)])
    /\ UNCHANGED <<storeVars, mkt>>

\* Otherwise the handler remembers the open job and awaits prices.
EnterStart(h) ==
    LET i == LatestOpen(Home[h], req[h].t) IN
    /\ MayLock(h) /\ req[h].op = "enter"
    /\ i # 0 => jobs[Home[h]][i].ex = req[h].ex
    /\ Lock(h, "pricing", [NoAttempt EXCEPT !.job = i])
    /\ UNCHANGED <<storeVars, mkt>>

\* No instance, no price, or an amount that normalises to nothing.
EnterUnavailable(h) ==
    /\ pc[h] = "pricing"
    /\ Return(h, Answer(FALSE, "UNAVAILABLE", "none"))
    /\ UNCHANGED <<storeVars, mkt>>

NewJob(t, ex) ==
    [ticker |-> t, ex |-> ex, status |-> "requested", qtyS |-> 0, qtyF |-> 0,
     legS |-> 0, legF |-> 0, exit |-> ex,
     since |-> [sold |-> mkt[t].sold, buys |-> mkt[t].buys, moved |-> mkt[t].moved]]

\* The prices are known: the job is created unless there is one to scale in,
\* and both legs are sent at once.
EnterSubmit(h) ==
    LET w == Home[h]
        t == req[h].t
        sent(q) == {SpotOrder("buy", q), FuturesOrder("sell", q)}
    IN
    /\ pc[h] = "pricing"
    /\ \E q \in 1..MaxLot :
        /\ NormalizeFutures(q) > 0
        /\ SpotAtVenues(t) + q <= MaxVolume
        /\ mkt[t].short[req[h].ex] + mkt[t].buys[req[h].ex] + q <= MaxVolume
        /\ IF att[h].job # 0
           THEN /\ att' = [att EXCEPT ![h].flight = sent(q)]
                /\ UNCHANGED storeVars
           ELSE /\ Len(jobs[w]) < MaxJobs
                /\ CreateJob(w, NewJob(t, req[h].ex))
                /\ att' = [att EXCEPT ![h].flight = sent(q), ![h].fresh = TRUE,
                                      ![h].job = Len(jobs[w]) + 1]
    /\ pc' = [pc EXCEPT ![h] = "entering"]
    /\ UNCHANGED <<up, lockVars, req, res, mkt>>

\* What the gathered legs call for: undo a one-sided fill, or bring the short
\* to the size of the spot.
FollowUp(a) ==
    CASE a.spot > 0 /\ a.fut = 0 -> Orders(SpotOrder("sell", a.spot))
      [] a.fut > 0 /\ a.spot = 0 -> Orders(FuturesOrder("buy", NormalizeFutures(a.fut)))
      [] a.spot > a.fut /\ a.fut > 0 -> Orders(FuturesOrder("sell", NormalizeFutures(a.spot - a.fut)))
      [] a.fut > a.spot /\ a.spot > 0 -> Orders(FuturesOrder("buy", NormalizeFutures(a.fut - a.spot)))
      [] OTHER -> {}

EnterFollowUp(h) ==
    /\ pc[h] = "entering" /\ att[h].flight = {}
    /\ FollowUp(att[h]) # {}
    /\ att' = [att EXCEPT ![h].flight = FollowUp(att[h])]
    /\ pc' = [pc EXCEPT ![h] = IF att[h].spot > 0 /\ att[h].fut > 0 THEN "adjusting" ELSE "undoing"]
    /\ UNCHANGED <<up, lockVars, storeVars, req, res, mkt>>

\* The attempt is over: nothing in flight and nothing left to send.
AttemptOver(h) ==
    /\ att[h].flight = {}
    /\ \/ pc[h] \in {"undoing", "adjusting"}
       \/ pc[h] = "entering" /\ FollowUp(att[h]) = {}

BothFilled(a) == a.spot > 0 /\ a.fut > 0

\* Mutant of AttemptStatus: a partial rollback counts as one.
AttemptStatusAnyUndone(a) ==
    CASE a.spot = 0 /\ a.fut = 0 -> "failed"
      [] BothFilled(a) -> Classify(a.netS, a.netF)
      [] OTHER -> IF a.undone > 0 THEN "rolled_back" ELSE "rollback_failed"

AttemptStatus(a) ==
    CASE a.spot = 0 /\ a.fut = 0 -> "failed"
      [] BothFilled(a) -> Classify(a.netS, a.netF)
      [] OTHER -> IF a.undone >= a.spot + a.fut THEN "rolled_back" ELSE "rollback_failed"

AttemptCode(a) ==
    CASE a.spot = 0 /\ a.fut = 0 -> "ENTRY_FAILED"
      [] BothFilled(a) -> "OK"
      [] OTHER -> "ONE_SIDED_FILL"

\* _finalize_new_entry_job: the legs are recorded in any case, the quantities
\* only of an attempt that filled on both sides.
FinalizeNew(h) ==
    LET w == Home[h]
        a == att[h]
        ok == BothFilled(a)
        final == [jobs[w][a.job] EXCEPT
                     !.status = AttemptStatus(a),
                     !.qtyS = IF ok THEN a.netS ELSE 0,
                     !.qtyF = IF ok THEN a.netF ELSE 0,
                     !.legS = a.netS, !.legF = a.netF,
                     !.exit = req[h].ex]
    IN
    /\ AttemptOver(h) /\ a.fresh
    /\ UpdateJob(w, a.job, final)
    /\ Return(h, Answer(ok, AttemptCode(a), jobs'[w][a.job].status))
    /\ UNCHANGED mkt

\* _finalize_scale_in_job: the attempt's legs join those of the hedge, whose
\* quantities become the net of all of them.
FinalizeScaleIn(h) ==
    LET w == Home[h]
        a == att[h]
        old == jobs[w][a.job]
        applied == a.netS > 0 /\ a.netF > 0
        final == [old EXCEPT !.ex = req[h].ex,
                             !.status = Classify(old.legS + a.netS, old.legF + a.netF),
                             !.qtyS = old.legS + a.netS, !.qtyF = old.legF + a.netF,
                             !.legS = old.legS + a.netS, !.legF = old.legF + a.netF]
    IN
    /\ AttemptOver(h) /\ ~a.fresh
    /\ UpdateJob(w, a.job, final)
    /\ Return(h, [ok |-> BothFilled(a) /\ applied, code |-> AttemptCode(a),
                  message |-> IF applied THEN "scaled in"
                              ELSE IF AttemptStatus(a) = "failed" THEN "none"
                              ELSE "hedge unchanged",
                  status |-> jobs'[w][a.job].status])
    /\ UNCHANGED mkt

-----------------------------------------------------------------------------
(* refresh_latest_job and close_job. *)

NothingOpen(h) == LatestOpen(Home[h], req[h].t) = 0

\* No open job: a refresh answers with no job, a close refuses.
NoOpenJob(h) ==
    /\ MayLock(h) /\ req[h].op \in {"refresh", "close"} /\ NothingOpen(h)
    /\ Refuse(h, IF req[h].op = "refresh" THEN Answer(TRUE, "OK", "none")
                 ELSE Answer(FALSE, "NO_OPEN_JOB", "none"))

RefreshStart(h) ==
    /\ MayLock(h) /\ req[h].op = "refresh" /\ ~NothingOpen(h)
    /\ Lock(h, "refreshing", [NoAttempt EXCEPT !.job = LatestOpen(Home[h], req[h].t)])
    /\ UNCHANGED <<storeVars, mkt>>

\* close_job sells the spot quantity on Bithumb and buys the short back.
CloseStart(h) ==
    LET i == LatestOpen(Home[h], req[h].t)
        j == jobs[Home[h]][i]
    IN
    /\ MayLock(h) /\ req[h].op = "close" /\ ~NothingOpen(h)
    /\ Lock(h, "closing", [NoAttempt EXCEPT !.job = i,
            !.flight = {SpotOrder("sell", j.qtyS), FuturesOrder("buy", j.qtyF)}])
    /\ UNCHANGED <<storeVars, mkt>>

\* Both legs answered: they are noted in the job (no field the service reads
\* again), which is then refreshed.
CloseNoted(h) ==
    LET w == Home[h] IN
    /\ pc[h] = "closing" /\ att[h].flight = {}
    /\ UpdateJob(w, att[h].job, jobs[w][att[h].job])
    /\ pc' = [pc EXCEPT ![h] = "refreshing"]
    /\ UNCHANGED <<up, lockVars, req, att, res, mkt>>

\* _resolve_exit_spot_exchange: the one asked for, else the job's.
ExitSpot(h, j) ==
    IF req[h].op = "refresh" /\ req[h].ex # NoExchange THEN req[h].ex ELSE j.exit

\* _resolve_expected_exit_spot_qty: withdrawals to the exit exchange since the
\* job was created say how much spot can be sold there.
ExpectedExit(j, e) ==
    LET moved == mkt[j.ticker].moved[e] - j.since.moved[e] IN
    IF moved > 0 THEN Least(moved, j.qtyS) ELSE j.qtyS

\* _fetch_close_trade_summary: spot sells on the exit exchange and futures buys
\* on the job's since it was created, up to the quantity looked for.
CloseQtySpot(j, e) == Least(mkt[j.ticker].sold[e] - j.since.sold[e], ExpectedExit(j, e))
CloseQtyFutures(j) == Least(mkt[j.ticker].buys[j.ex] - j.since.buys[j.ex], j.qtyF)

\* _refresh_job_locked on the histories as they are read.
Refreshed(j, e) ==
    [j EXCEPT !.exit = e,
              !.status = IF /\ CloseQtySpot(j, e) = ExpectedExit(j, e)
                            /\ CloseQtyFutures(j) = j.qtyF
                         THEN "closed" ELSE Classify(j.qtyS, j.qtyF)]

\* A history or a price that cannot be read counts as nothing closed.
Unread(j, e) == [j EXCEPT !.exit = e, !.status = Classify(j.qtyS, j.qtyF)]

\* refresh_latest_job hides a job it has just closed; close_job returns the job
\* as it was when it took the lock.
RefreshDone(h) ==
    LET w == Home[h]
        i == att[h].job
        j == jobs[w][i]
        e == ExitSpot(h, j)
    IN
    /\ pc[h] = "refreshing"
    /\ \E new \in {Refreshed(j, e), Unread(j, e)} :
        /\ UpdateJob(w, i, new)
        /\ Return(h, Answer(TRUE, "OK", IF req[h].op = "close" THEN j.status
                                       ELSE IF new.status = "closed" THEN "none"
                                       ELSE new.status))
    /\ UNCHANGED mkt

-----------------------------------------------------------------------------
(* The operator and the failures. *)

\* The operator withdraws coins to an exchange (WithdrawService notes the job).
Withdraw(t, e) ==
    /\ mkt[t].coin > 0
    /\ \E n \in 1..mkt[t].coin :
         mkt' = [mkt EXCEPT ![t].coin = @ - n, ![t].moved[e] = @ + n]
    /\ UNCHANGED <<up, lockVars, storeVars, pc, req, att, res>>

\* The operator sells withdrawn coins on the exchange.
SellSpot(t, e) ==
    /\ \E n \in 1..(mkt[t].moved[e] - mkt[t].sold[e]) :
         mkt' = [mkt EXCEPT ![t].sold[e] = @ + n]
    /\ UNCHANGED <<up, lockVars, storeVars, pc, req, att, res>>

\* The operator buys back some of the short.
BuyBack(t, e) ==
    /\ \E n \in 1..mkt[t].short[e] :
         mkt' = [mkt EXCEPT ![t].short[e] = @ - n, ![t].buys[e] = @ + n, ![t].closed[e] = @ + n]
    /\ UNCHANGED <<up, lockVars, storeVars, pc, req, att, res>>

\* The process dies: its coroutines, lock and memory are gone.  An order in
\* flight has been filled or will never be.
Lost(w) == {h \in Callers : Home[h] = w}

Crash(w) ==
    /\ CrashesOn /\ up[w]
    /\ up' = [up EXCEPT ![w] = FALSE]
    /\ lock' = [lock EXCEPT ![w] = NoCaller]
    /\ waiters' = [waiters EXCEPT ![w] = <<>>]
    /\ jobs' = [jobs EXCEPT ![w] = <<>>]
    /\ pc' = [h \in Callers |-> IF h \in Lost(w) THEN "idle" ELSE pc[h]]
    /\ req' = [h \in Callers |-> IF h \in Lost(w) THEN NoRequest ELSE req[h]]
    /\ att' = [h \in Callers |-> IF h \in Lost(w) THEN NoAttempt ELSE att[h]]
    /\ res' = [h \in Callers |-> IF h \in Lost(w) THEN NoResult ELSE res[h]]
    /\ UNCHANGED <<file, mkt>>

\* HedgeJobStore._load: what does not parse is an empty store.
Load(items) == [i \in DOMAIN items |-> Normalize(items[i])]

Restart(w) ==
    /\ ~up[w]
    /\ up' = [up EXCEPT ![w] = TRUE]
    /\ jobs' = [jobs EXCEPT ![w] = Load(file)]
    /\ UNCHANGED <<lockVars, file, pc, req, att, res, mkt>>

-----------------------------------------------------------------------------
Ask(h) == \E r \in Asks[h] : Call(h, r)

EnterStep(h) ==
    \/ EnterRefused(h) \/ EnterStart(h) \/ EnterUnavailable(h) \/ EnterSubmit(h)
    \/ FillSpotBuy(h) \/ FillFuturesSell(h) \/ FillFuturesBuy(h)
    \/ EnterFollowUp(h) \/ FinalizeNew(h) \/ FinalizeScaleIn(h)

CloseStep(h) ==
    \/ NoOpenJob(h) \/ RefreshStart(h) \/ CloseStart(h) \/ FillFuturesClose(h)
    \/ CloseNoted(h) \/ RefreshDone(h)

Step(h) == EnterStep(h) \/ CloseStep(h) \/ FillSpotSell(h)

Operator(t, e) == Withdraw(t, e) \/ SellSpot(t, e) \/ BuyBack(t, e)

Next ==
    \/ \E h \in Callers : Ask(h) \/ Step(h) \/ Take(h)
    \/ \E t \in Tickers, e \in OperatorAt : Operator(t, e)
    \/ \E w \in Workers : Crash(w) \/ Restart(w)

Spec == Init /\ [][Next]_vars

\* The event loop runs every coroutine that can go on, and the venues answer.
Fairness == \A h \in Callers : WF_vars(Step(h)) /\ WF_vars(Take(h))
FairSpec == Spec /\ Fairness

-----------------------------------------------------------------------------
(* Properties. *)

\* Type invariant: the store, the coroutines and the venues hold values of their
\* kinds (HedgeTradeService and HedgeJobStore state).
TypeOK ==
    /\ up \in [Workers -> BOOLEAN]
    /\ lock \in [Workers -> Callers \cup {NoCaller}]
    /\ waiters \in [Workers -> Seq(Callers)]
    /\ jobs \in [Workers -> Seq(Job)]
    /\ file \in Seq(Job)
    /\ pc \in [Callers -> PCs]
    /\ req \in [Callers -> Request \cup {NoRequest}]
    /\ att \in [Callers -> Attempt]
    /\ res \in [Callers -> Result]
    /\ mkt \in [Tickers -> Market]

OneOpenIn(items) ==
    \A i, k \in DOMAIN items :
        IsOpen(items[i]) /\ IsOpen(items[k]) /\ items[i].ticker = items[k].ticker => i = k

\* A store never holds two open hedges of one ticker, whatever calls overlap:
\* latest_open_job picks one, the other would be neither scaled nor closed.
OneOpenJob == \A w \in Workers : OneOpenIn(jobs[w])

\* The call h makes is one for ticker t of process w.
Mine(h, w, t) == Home[h] = w /\ req[h] # NoRequest /\ req[h].t = t
Counted(test, n) == IF test THEN n ELSE 0

SpotInBooks(w, t) ==
    Total([i \in DOMAIN jobs[w] |-> Counted(jobs[w][i].ticker = t, jobs[w][i].legS)])
    + Total([h \in Callers |-> Counted(Mine(h, w, t), att[h].netS)])
ShortInBooks(w, t, e) ==
    Total([i \in DOMAIN jobs[w] |->
              Counted(jobs[w][i].ticker = t /\ jobs[w][i].ex = e, jobs[w][i].legF)])
    + Total([h \in Callers |-> Counted(Mine(h, w, t) /\ req[h].ex = e, att[h].netF)])
ShortAtVenue(t, e) == mkt[t].short[e] + mkt[t].closed[e]

\* Every fill of an entry, its rollback or its adjustment is in the legs of some
\* job, through scale-ins, failures and closes: what the venues hold is what
\* the recorded legs add up to, less what was sold or bought back to close.
LegsMatchVenues ==
    \A w \in Workers, t \in Tickers :
        /\ SpotInBooks(w, t) = SpotAtVenues(t)
        /\ \A e \in Exchanges : ShortInBooks(w, t, e) = ShortAtVenue(t, e)

\* While a ticker is hedged on one exchange the service never shorts it on
\* another (ACTIVE_HEDGE_EXISTS in enter), however calls wait for the lock.
HedgeStaysPut ==
    [][\A w \in Workers, t \in Tickers : \A e \in Exchanges :
          (LatestOpen(w, t) # 0 /\ jobs[w][LatestOpen(w, t)].ex # e)
              => mkt'[t].short[e] <= mkt[t].short[e]]_vars

\* A job that failed, was rolled back or closed is never written again, so a
\* late refresh or scale-in does not revive it.
DeadJobsStay ==
    [][\A w \in Workers : up[w] /\ up'[w] =>
          \A i \in DOMAIN jobs[w] :
              jobs[w][i].status \in DeadStatus => jobs'[w][i] = jobs[w][i]]_vars

\* A job recorded as rolled back left no leg on either side
\* (_execute_entry_attempt compares the rollback's fill with the leg's).
RolledBackIsFlat ==
    \A w \in Workers : \A i \in DOMAIN jobs[w] :
        jobs[w][i].status = "rolled_back" => jobs[w][i].legS = 0 /\ jobs[w][i].legF = 0

Returns(h) == pc[h] \in Locked /\ pc'[h] = "done"

\* An enter that answers ok leaves an open hedge of the ticker on the exchange it
\* asked for, with both legs: the next refresh or close finds it.
OkMeansTracked ==
    [][\A h \in Callers :
          (Returns(h) /\ req[h].op = "enter" /\ res'[h].ok) =>
              \E i \in DOMAIN jobs'[Home[h]] :
                  LET j == jobs'[Home[h]][i] IN
                  IsOpen(j) /\ j.ticker = req[h].t /\ j.ex = req[h].ex]_vars

\* What a restart will load is what the process knows: no hedge is lost by a
\* crash between two writes (HedgeJobStore saves on every change).
StoreOnDisk == \A w \in Workers : up[w] => file = jobs[w]

\* The exchange each ticker is hedged on, as the process knows it or as it would
\* know it after a restart.
Store(w) == IF up[w] THEN jobs[w] ELSE Load(file)
HedgedOn(w) ==
    [t \in Tickers |->
        LET open == {i \in DOMAIN Store(w) : Store(w)[i].ticker = t /\ IsOpen(Store(w)[i])}
        IN  IF open = {} THEN NoExchange
            ELSE Store(w)[CHOOSE i \in open : \A k \in open : k <= i].ex]

Process == CHOOSE w \in Workers : TRUE
Book == INSTANCE HedgeBook WITH active <- HedgedOn(Process), MayForget <- TornSaves

\* The book of a process that has the file to itself opens and closes one hedge
\* at a time and never switches exchange; it is lost, as a whole, only when a
\* save can be cut short.
BookSpec == Book!Spec

\* Every call is answered: the lock is passed on along every return path of
\* enter, close_job and refresh_latest_job.
CallsReturn == \A h \in Callers : (pc[h] = "waiting") ~> (pc[h] = "done")

-----------------------------------------------------------------------------
(* Stated by the code and refuted by what it does. *)

\* "both orders were not filled": an attempt that says so left nothing at the
\* venues that the books do not know (_submit_market_order gives up polling).
FailedMeansUnfilled ==
    \A h \in Callers : res[h].code = "ENTRY_FAILED" =>
        LET w == Home[h] t == req[h].t IN
        /\ SpotInBooks(w, t) = SpotAtVenues(t)
        /\ \A e \in Exchanges : ShortInBooks(w, t, e) = ShortAtVenue(t, e)

\* "scale-in rolled back; existing hedge unchanged": the quantities of the hedge
\* are those it had before the attempt (_finalize_scale_in_job).
UnchangedMeansUnchanged ==
    [][\A h \in Callers :
          (Returns(h) /\ res'[h].message = "hedge unchanged") =>
              LET i == att[h].job IN
              /\ jobs'[Home[h]][i].qtyS = jobs[Home[h]][i].qtyS
              /\ jobs'[Home[h]][i].qtyF = jobs[Home[h]][i].qtyF]_vars

\* "the refresh confirms the fills": when close_job has sold all the spot and
\* bought back all the short, the refresh it ends with finds the hedge closed.
CloseIsSeen ==
    \A h \in Callers :
        (pc[h] = "refreshing" /\ req[h].op = "close") =>
            LET j == jobs[Home[h]][att[h].job] m == mkt[req[h].t] IN
            (m.coinClosed >= j.qtyS /\ m.closed[j.ex] >= j.qtyF /\ m.short[j.ex] = 0)
                => Refreshed(j, ExitSpot(h, j)).status = "closed"

\* "refreshes the state and returns it": the status close_job answers with is the
\* one the store holds when it returns.
CloseReturnsState ==
    [][\A h \in Callers :
          (Returns(h) /\ req[h].op = "close") =>
              res'[h].status = jobs'[Home[h]][att[h].job].status]_vars

\* "closed": when a refresh records the only hedge a ticker ever had as closed,
\* none of its short is left (futures buys of the entry count as closing buys).
ClosedMeansFlat ==
    [][\A w \in Workers : \A i \in DOMAIN jobs[w] :
          (i \in DOMAIN jobs'[w] /\ jobs[w][i].status # "closed" /\ jobs'[w][i].status = "closed")
              => mkt[jobs[w][i].ticker].short[jobs[w][i].ex] = 0]_vars

-----------------------------------------------------------------------------
(* The inductive invariant.  What enter read of the store before its awaits  *)
(* still holds when it writes after them, because it holds the lock: that is *)
(* Work, and OneOpenJob follows from it.                                     *)

Attempting == {"entering", "undoing", "adjusting"}

\* A call is made to a process that runs, and only the lock's holder is between
\* two awaits of a handler.
Holds(h) ==
    /\ pc[h] # "idle" => up[Home[h]]
    /\ pc[h] \in Locked => lock[Home[h]] = h

\* What a coroutine asked for, while it waits or works, and when it has orders
\* in flight.
Asked(h) ==
    /\ pc[h] \in {"waiting"} \cup Locked =>
          req[h] \in Request /\ (req[h].op = "enter" => req[h].ex \in Exchanges)
    /\ pc[h] \in {"pricing"} \cup Attempting => req[h].op = "enter"
    /\ pc[h] \in {"closing", "refreshing"} => req[h].op # "enter"
    /\ att[h].flight # {} => pc[h] \in Attempting \cup {"closing"}
    /\ pc[h] = "closing" =>
          \A o \in att[h].flight : o.leg = "futures" => o.side = "buy"

\* What the handler remembers of the store is what the store holds.
Work(h) ==
    LET w == Home[h]
        t == req[h].t
        i == att[h].job
    IN
    /\ pc[h] = "pricing" =>
          IF i = 0 THEN OpenJobs(w, t) = {}
          ELSE i \in OpenJobs(w, t) /\ jobs[w][i].ex = req[h].ex
    /\ pc[h] = "pricing" => ~att[h].fresh
    /\ pc[h] \in Attempting =>
          /\ i \in DOMAIN jobs[w] /\ jobs[w][i].ticker = t /\ jobs[w][i].ex = req[h].ex
          /\ IF att[h].fresh THEN OpenJobs(w, t) = {} ELSE i \in OpenJobs(w, t)
    /\ pc[h] \in {"closing", "refreshing"} => i \in OpenJobs(w, t)

\* Between its awaits a handler of the service works on a store that no other
\* handler of its process changes; so no ticker gets a second open hedge, and
\* none is loaded from the file.
Inv == /\ TypeOK
       /\ \A h \in Callers : Holds(h) /\ Asked(h) /\ Work(h)
       /\ OneOpenJob
       /\ OneOpenIn(file)

\* What the handler believes of its orders: the net of its legs is what the orders
\* report, less what the one rollback or adjustment reports to have undone.
Figures(h) ==
    LET a == att[h] IN
    /\ pc[h] = "pricing" => a.spot = 0 /\ a.fut = 0 /\ a.undone = 0 /\ a.netS = 0 /\ a.netF = 0
    /\ pc[h] = "entering" =>
          /\ a.netS = a.spot /\ a.netF = a.fut /\ a.undone = 0
          /\ \A o \in a.flight : (o.leg = "spot" /\ o.side = "buy") \/ (o.leg = "futures" /\ o.side = "sell")
    /\ pc[h] = "undoing" =>
          /\ a.spot + a.fut > 0 /\ ~BothFilled(a)
          /\ a.undone >= a.spot + a.fut => a.netS = 0 /\ a.netF = 0
          /\ a.flight = {} \/ /\ \E o \in a.flight : a.flight = {o} /\
                                    IF a.spot > 0 THEN o.leg = "spot" /\ o.side = "sell"
                                    ELSE o.leg = "futures" /\ o.side = "buy"
                              /\ a.netS = a.spot /\ a.netF = a.fut /\ a.undone = 0
    /\ pc[h] = "adjusting" =>
          /\ BothFilled(a) /\ a.netS = a.spot /\ a.netF > 0
          /\ a.flight = {} \/ \E o \in a.flight :
                a.flight = {o} /\ o.leg = "futures" /\ (o.side = "buy" => a.netF > o.qty)

\* The job an attempt created waits for its result.
Requested(h) ==
    pc[h] \in Attempting /\ att[h].fresh => jobs[Home[h]][att[h].job].status = "requested"

RolledFlat(items) ==
    \A i \in DOMAIN items : items[i].status = "rolled_back" => items[i].legS = 0 /\ items[i].legF = 0

\* What an attempt records is what its orders report, so that its status says what
\* is left of it.
FillInv == /\ \A h \in Callers : Figures(h) /\ Requested(h)
           /\ \A w \in Workers : RolledFlat(jobs[w])
           /\ RolledFlat(file)

\* With one process the file holds the store, every job as the next load would
\* classify it, or nothing after a save that was cut short.
Normal(items) == \A i \in DOMAIN items : Normalize(items[i]) = items[i]
DiskInv == /\ \A w \in Workers : up[w] => file = jobs[w] \/ (TornSaves /\ file = <<>>)
           /\ \A w \in Workers : Normal(jobs[w])
           /\ Normal(file)

\* What a coroutine has in its books beside the jobs: only the legs of an attempt that is
\* not over; the job it created has none yet.  An order in flight is the one of its leg,
\* and a rollback is of no more than the leg has.
LegsOf(h) ==
    LET a == att[h] IN
    /\ pc[h] \notin Attempting => a.netS = 0 /\ a.netF = 0
    /\ pc[h] \in Attempting /\ a.fresh =>
          jobs[Home[h]][a.job].legS = 0 /\ jobs[Home[h]][a.job].legF = 0
    /\ pc[h] = "entering" =>
          /\ \A o \in a.flight : IF o.leg = "spot" THEN a.netS = 0 ELSE a.netF = 0
          /\ \A o, p \in a.flight : o.leg = p.leg => o = p
    /\ pc[h] = "undoing" => \A o \in a.flight : o.qty <= IF o.leg = "spot" THEN a.netS ELSE a.netF
    /\ pc[h] = "closing" => \A o \in a.flight : o.leg = "spot" => o.side = "sell"

\* While processes live and fills are reported, nothing the venues hold is missing in
\* the books, in whatever step of a call.
LegsInv == /\ LegsMatchVenues
           /\ \A h \in Callers : LegsOf(h)
           /\ \A w \in Workers : up[w]

=============================================================================
