-------------------------- MODULE HedgeTrade_proofs --------------------------
(***************************************************************************)
(* Proofs about HedgeTrade, for any processes, coroutines, tickers,        *)
(* exchanges and bounds.                                                   *)
(***************************************************************************)
EXTENDS HedgeTrade, FiniteSetTheorems, WellFoundedInduction, TLAPS

-----------------------------------------------------------------------------
(* The store. *)

\* What _save leaves on disk is a list of jobs.
LEMMA SaveLemma ==
    ASSUME NEW items \in Seq(Job), Save(items)
    PROVE  file' \in Seq(Job)
<1>1. <<>> \in Seq(Job)
  OBVIOUS
<1>2. file' = items \/ file' = <<>>
  BY DEF Save
<1> QED
  BY <1>1, <1>2

\* Reclassifying a job keeps it a job, of the same ticker and exchange, and as
\* open as it was (_normalize_hedge_entry_status only moves between hedged and
\* partial_hedged).
LEMMA NormalizeLemma ==
    ASSUME NEW j \in Job
    PROVE  /\ Normalize(j) \in Job
           /\ Normalize(j).ticker = j.ticker /\ Normalize(j).ex = j.ex
           /\ IsOpen(Normalize(j)) <=> IsOpen(j)
           /\ Normalize(j).status \in OpenStatus <=> j.status \in OpenStatus
BY DEF Normalize, IsOpen, Job, Classify, Status, OpenStatus, DeadStatus

\* update_job writes one job of one process's list.
LEMMA UpdateLemma ==
    ASSUME jobs \in [Workers -> Seq(Job)], NEW w \in Workers, NEW i \in DOMAIN jobs[w],
           NEW j \in Job, file \in Seq(Job), UpdateJob(w, i, j)
    PROVE  /\ jobs' \in [Workers -> Seq(Job)] /\ file' \in Seq(Job)
           /\ \A v \in Workers : DOMAIN jobs'[v] = DOMAIN jobs[v]
           /\ \A v \in Workers \ {w} : jobs'[v] = jobs[v]
           /\ \A k \in DOMAIN jobs[w] \ {i} : jobs'[w][k] = jobs[w][k]
           /\ jobs'[w][i] = Normalize(j)
<1>1. Normalize(j) \in Job
  BY NormalizeLemma
<1>2. /\ jobs' = [jobs EXCEPT ![w] = [jobs[w] EXCEPT ![i] = Normalize(j)]]
      /\ [jobs[w] EXCEPT ![i] = Normalize(j)] \in Seq(Job)
  BY <1>1 DEF UpdateJob
<1>3. jobs'[w] \in Seq(Job)
  BY <1>2
<1>4. file' \in Seq(Job)
  BY <1>3, SaveLemma DEF UpdateJob
<1> QED
  BY <1>2, <1>4

\* create_job adds a job at the end of one process's list.
LEMMA CreateLemma ==
    ASSUME jobs \in [Workers -> Seq(Job)], NEW w \in Workers, NEW j \in Job,
           file \in Seq(Job), CreateJob(w, j)
    PROVE  /\ jobs' \in [Workers -> Seq(Job)] /\ file' \in Seq(Job)
           /\ \A v \in Workers \ {w} : jobs'[v] = jobs[v]
           /\ DOMAIN jobs'[w] = DOMAIN jobs[w] \cup {Len(jobs[w]) + 1}
           /\ \A k \in DOMAIN jobs[w] : jobs'[w][k] = jobs[w][k]
           /\ jobs'[w][Len(jobs[w]) + 1] = Normalize(j)
<1>1. Normalize(j) \in Job
  BY NormalizeLemma
<1>2. /\ jobs' = [jobs EXCEPT ![w] = Append(jobs[w], Normalize(j))]
      /\ Append(jobs[w], Normalize(j)) \in Seq(Job)
  BY <1>1 DEF CreateJob
<1>3. jobs'[w] \in Seq(Job)
  BY <1>2
<1>4. file' \in Seq(Job)
  BY <1>3, SaveLemma DEF CreateJob
<1> QED
  BY <1>2, <1>4

\* latest_open_job answers with an open job of the ticker when there is one.
LEMMA LatestOpenLemma ==
    ASSUME jobs \in [Workers -> Seq(Job)], OneOpenJob,
           NEW w \in Workers, NEW t \in Tickers
    PROVE  /\ LatestOpen(w, t) = 0 <=> OpenJobs(w, t) = {}
           /\ LatestOpen(w, t) # 0 => LatestOpen(w, t) \in OpenJobs(w, t)
           /\ LatestOpen(w, t) \in Nat
           /\ \A i \in OpenJobs(w, t) : i = LatestOpen(w, t)
<1>1. OpenJobs(w, t) \subseteq Nat \ {0}
  BY DEF OpenJobs
<1>2. CASE OpenJobs(w, t) = {}
  BY <1>2 DEF LatestOpen
<1>3. CASE OpenJobs(w, t) # {}
  <2>1. PICK i \in OpenJobs(w, t) : TRUE
    BY <1>3
  <2>2. \A k \in OpenJobs(w, t) : k <= i
    BY <1>1, <2>1 DEF OneOpenJob, OneOpenIn, OpenJobs
  <2>3. LatestOpen(w, t) \in OpenJobs(w, t)
    BY <1>3, <2>2 DEF LatestOpen
  <2> QED
    BY <1>1, <1>3, <2>3 DEF OneOpenJob, OneOpenIn, OpenJobs
<1> QED
  BY <1>2, <1>3

-----------------------------------------------------------------------------
(* The inductive invariant, and the steps that keep it.                      *)

LEMMA InitInv == Init => Inv
<1> SUFFICES ASSUME Init PROVE Inv
  OBVIOUS
<1> USE ModelAssumption DEF Init
<1>1. TypeOK
  <2>1. <<>> \in Seq(Callers) /\ <<>> \in Seq(Job)
    OBVIOUS
  <2>2. NoAttempt \in Attempt /\ NoResult \in Result
    BY DEF NoAttempt, Attempt, NoResult, Result, Codes, Messages, Order
  <2>3. mkt \in [Tickers -> Market]
    BY DEF Market, Zero
  <2> QED
    BY <2>1, <2>2, <2>3 DEF TypeOK, PCs
<1>2. \A h \in Callers : Holds(h) /\ Asked(h) /\ Work(h)
  BY DEF Holds, Asked, Work, Locked, Attempting, NoAttempt
<1>3. OneOpenJob /\ OneOpenIn(file)
  BY DEF OneOpenJob, OneOpenIn
<1> QED
  BY <1>1, <1>2, <1>3 DEF Inv

\* Two coroutines inside the lock are in two processes.
LEMMA Exclusion ==
    ASSUME Inv, NEW h \in Callers, NEW g \in Callers, g # h,
           pc[h] \in Locked, pc[g] \in Locked
    PROVE  Home[g] # Home[h]
BY DEF Inv, Holds

\* A step that leaves a coroutine and its process's store alone keeps what the
\* coroutine remembers true.
LEMMA WorkFrame ==
    ASSUME NEW g \in Callers, Work(g), Asked(g),
           pc'[g] = pc[g], att'[g] = att[g], req'[g] = req[g],
           pc[g] \in Locked => jobs'[Home[g]] = jobs[Home[g]]
    PROVE  Work(g)' /\ Asked(g)'
BY DEF Work, Asked, OpenJobs, Locked, Attempting

\* What is left to show of a step of one coroutine.
LEMMA StepFrame ==
    ASSUME Inv, NEW h \in Callers, up' = up, TypeOK', OneOpenJob', OneOpenIn(file)', 
           Holds(h)', Asked(h)', Work(h)',
           \A g \in Callers \ {h} :
               /\ pc'[g] = pc[g] /\ att'[g] = att[g] /\ req'[g] = req[g]
               /\ pc[g] \in Locked =>
                     lock'[Home[g]] = lock[Home[g]] /\ jobs'[Home[g]] = jobs[Home[g]]
    PROVE  Inv'
<1> SUFFICES ASSUME NEW g \in Callers \ {h} PROVE Holds(g)' /\ Asked(g)' /\ Work(g)'
  BY DEF Inv
<1>1. Holds(g)'
  BY DEF Inv, Holds
<1>2. Asked(g)' /\ Work(g)'
  BY WorkFrame DEF Inv
<1> QED
  BY <1>1, <1>2

\* A store that is not written has no more open hedges than before.
LEMMA OneOpenFrame ==
    ASSUME OneOpenJob, OneOpenIn(file), jobs' = jobs, file' = file
    PROVE  OneOpenJob' /\ OneOpenIn(file)'
BY DEF OneOpenJob, OneOpenIn, IsOpen

LEMMA CallInv ==
    ASSUME Inv, NEW h \in Callers, NEW r \in Asks[h], Call(h, r)
    PROVE  Inv'
<1> USE ModelAssumption, AsksAssumption
<1>1. r \in Request /\ (r.op = "enter" => r.ex \in Exchanges)
  BY DEF Request
<1>2. TypeOK'
  <2>1. Home[h] \in Workers /\ Append(waiters[Home[h]], h) \in Seq(Callers)
    BY DEF Inv, TypeOK
  <2> QED
    BY <1>1, <2>1 DEF Inv, TypeOK, Call, PCs, storeVars
<1>3. OneOpenJob' /\ OneOpenIn(file)'
  BY OneOpenFrame DEF Inv, Call, storeVars
<1>4. /\ pc[h] = "idle" /\ pc'[h] = "waiting" /\ req'[h] = r
      /\ att'[h] = att[h] /\ up' = up /\ up[Home[h]]
  BY DEF Call, Inv, TypeOK
<1>5. Holds(h)' /\ Asked(h)' /\ Work(h)'
  BY <1>1, <1>4 DEF Inv, Holds, Asked, Work, Locked, Attempting
<1>6. \A g \in Callers \ {h} :
         /\ pc'[g] = pc[g] /\ att'[g] = att[g] /\ req'[g] = req[g]
         /\ lock'[Home[g]] = lock[Home[g]] /\ jobs'[Home[g]] = jobs[Home[g]]
  BY DEF Inv, TypeOK, Call, storeVars
<1> QED
  BY <1>2, <1>3, <1>4, <1>5, <1>6, StepFrame

\* Refusing a call, in enter, close_job or refresh_latest_job.
LEMMA RefuseInv ==
    ASSUME Inv, NEW h \in Callers, NEW answer \in Result, Refuse(h, answer)
    PROVE  Inv'
<1> USE ModelAssumption
<1>1. Home[h] \in Workers /\ waiters[Home[h]] \in Seq(Callers) /\ waiters[Home[h]] # <<>>
  BY DEF Inv, TypeOK, Refuse, MayLock
<1>2. Tail(waiters[Home[h]]) \in Seq(Callers)
  BY <1>1
<1>3. TypeOK'
  BY <1>1, <1>2 DEF Inv, TypeOK, Refuse, PCs, storeVars
<1>4. OneOpenJob' /\ OneOpenIn(file)'
  BY OneOpenFrame DEF Inv, Refuse, storeVars
<1>5. pc[h] = "waiting" /\ pc'[h] = "done" /\ att'[h] = att[h] /\ up' = up
  BY DEF Refuse, MayLock, Inv, TypeOK
<1>6. Holds(h)' /\ Asked(h)' /\ Work(h)'
  BY <1>5 DEF Inv, Holds, Asked, Work, Locked, Attempting
<1>7. \A g \in Callers \ {h} :
         /\ pc'[g] = pc[g] /\ att'[g] = att[g] /\ req'[g] = req[g]
         /\ lock'[Home[g]] = lock[Home[g]] /\ jobs'[Home[g]] = jobs[Home[g]]
  BY DEF Inv, TypeOK, Refuse, storeVars
<1> QED
  BY <1>3, <1>4, <1>5, <1>6, <1>7, StepFrame

\* Taking the lock: nobody of the process was inside it.
LEMMA LockInv ==
    ASSUME Inv, NEW h \in Callers, NEW label \in {"pricing", "closing", "refreshing"},
           NEW a \in Attempt, Lock(h, label, a), jobs' = jobs, file' = file, mkt' = mkt,
           label = "pricing" => /\ req[h].op = "enter" /\ ~a.fresh
                                /\ IF a.job = 0 THEN OpenJobs(Home[h], req[h].t) = {}
                                   ELSE /\ a.job \in OpenJobs(Home[h], req[h].t)
                                        /\ jobs[Home[h]][a.job].ex = req[h].ex,
           label # "pricing" => a.job \in OpenJobs(Home[h], req[h].t) /\ req[h].op # "enter",
           IF label # "closing" THEN a.flight = {}
           ELSE \A o \in a.flight : o.leg = "futures" => o.side = "buy"
    PROVE  Inv'
<1> USE ModelAssumption
<1>1. /\ Home[h] \in Workers /\ waiters[Home[h]] \in Seq(Callers)
      /\ waiters[Home[h]] # <<>> /\ pc[h] = "waiting" /\ lock[Home[h]] = NoCaller
  BY DEF Inv, TypeOK, Lock, MayLock
<1>2. Tail(waiters[Home[h]]) \in Seq(Callers)
  BY <1>1
<1>3. TypeOK'
  BY <1>1, <1>2 DEF Inv, TypeOK, Lock, PCs, Locked
<1>4. OneOpenJob' /\ OneOpenIn(file)'
  BY OneOpenFrame DEF Inv
<1>5. /\ pc'[h] = label /\ att'[h] = a /\ req'[h] = req[h] /\ lock'[Home[h]] = h
      /\ up' = up
  BY <1>1 DEF Lock, Inv, TypeOK
<1>6. Asked(h) /\ Holds(h)
  BY DEF Inv
<1>7. Holds(h)' /\ Asked(h)'
  BY <1>1, <1>5, <1>6 DEF Holds, Asked, Locked, Attempting
<1>8. Work(h)'
  BY <1>5 DEF Work, OpenJobs, Attempting
<1>9. \A g \in Callers \ {h} :
         /\ pc'[g] = pc[g] /\ att'[g] = att[g] /\ req'[g] = req[g]
         /\ jobs'[Home[g]] = jobs[Home[g]]
         /\ pc[g] \in Locked => lock'[Home[g]] = lock[Home[g]]
  <2> SUFFICES ASSUME NEW g \in Callers \ {h}, pc[g] \in Locked
               PROVE  lock'[Home[g]] = lock[Home[g]]
    BY DEF Inv, TypeOK, Lock
  <2>1. lock[Home[g]] = g
    BY DEF Inv, Holds
  <2>2. Home[g] # Home[h]
    BY <1>1, <2>1
  <2> QED
    BY <2>2 DEF Lock, Inv, TypeOK
<1> QED
  BY <1>3, <1>4, <1>5, <1>7, <1>8, <1>9, StepFrame

\* Returning to the caller after the store was written: the lock is passed on.
LEMMA ReturnInv ==
    ASSUME Inv, NEW h \in Callers, NEW answer \in Result, pc[h] \in Locked, Return(h, answer),
           jobs' \in [Workers -> Seq(Job)], file' \in Seq(Job), mkt' = mkt,
           \A v \in Workers \ {Home[h]} : jobs'[v] = jobs[v],
           OneOpenJob', OneOpenIn(file)'
    PROVE  Inv'
<1> USE ModelAssumption
<1>1. NoAttempt \in Attempt
  BY DEF NoAttempt, Attempt, Order
<1>2. TypeOK'
  BY <1>1 DEF Inv, TypeOK, Return, PCs
<1>3. pc'[h] = "done" /\ att'[h].flight = {} /\ up' = up
  BY DEF Return, Inv, TypeOK, NoAttempt
<1>4. Holds(h)' /\ Asked(h)' /\ Work(h)'
  BY <1>3 DEF Inv, Holds, Asked, Work, Locked, Attempting
<1>5. \A g \in Callers \ {h} :
         /\ pc'[g] = pc[g] /\ att'[g] = att[g] /\ req'[g] = req[g]
         /\ pc[g] \in Locked =>
               lock'[Home[g]] = lock[Home[g]] /\ jobs'[Home[g]] = jobs[Home[g]]
  <2> SUFFICES ASSUME NEW g \in Callers \ {h}, pc[g] \in Locked
               PROVE  lock'[Home[g]] = lock[Home[g]] /\ jobs'[Home[g]] = jobs[Home[g]]
    BY DEF Inv, TypeOK, Return
  <2>1. Home[g] # Home[h]
    BY Exclusion
  <2> QED
    BY <2>1 DEF Return, Inv, TypeOK
<1> QED
  BY <1>2, <1>3, <1>4, <1>5, StepFrame

LEMMA TakeInv ==
    ASSUME Inv, NEW h \in Callers, Take(h)
    PROVE  Inv'
<1>1. NoResult \in Result
  BY DEF NoResult, Result, Codes, Messages
<1>2. TypeOK'
  BY <1>1 DEF Inv, TypeOK, Take, PCs, storeVars, lockVars
<1>3. OneOpenJob' /\ OneOpenIn(file)'
  BY OneOpenFrame DEF Inv, Take, storeVars
<1>4. pc[h] = "done" /\ pc'[h] = "idle" /\ att'[h] = att[h] /\ up' = up
  BY DEF Take, Inv, TypeOK
<1>5. Holds(h)' /\ Asked(h)' /\ Work(h)'
  BY <1>4 DEF Inv, Holds, Asked, Work, Locked, Attempting
<1>6. \A g \in Callers \ {h} :
         /\ pc'[g] = pc[g] /\ att'[g] = att[g] /\ req'[g] = req[g]
         /\ lock'[Home[g]] = lock[Home[g]] /\ jobs'[Home[g]] = jobs[Home[g]]
  BY DEF Inv, TypeOK, Take, storeVars, lockVars
<1> QED
  BY <1>2, <1>3, <1>4, <1>5, <1>6, StepFrame

-----------------------------------------------------------------------------
(* Orders. *)

\* An order answered: the attempt's locals change, and the venue.
LEMMA AnsweredInv ==
    ASSUME Inv, NEW h \in Callers, NEW o \in att[h].flight, NEW a \in Attempt,
           a.job = att[h].job, a.fresh = att[h].fresh, a.flight = att[h].flight,
           Answered(h, o, a), mkt' \in [Tickers -> Market]
    PROVE  Inv'
<1>1. [a EXCEPT !.flight = a.flight \ {o}] \in Attempt
  BY DEF Attempt
<1>2. TypeOK'
  BY <1>1 DEF Inv, TypeOK, Answered, storeVars, lockVars
<1>3. OneOpenJob' /\ OneOpenIn(file)'
  BY OneOpenFrame DEF Inv, Answered, storeVars
<1>4. /\ pc' = pc /\ req' = req /\ lock' = lock /\ jobs' = jobs /\ up' = up
      /\ att'[h].job = att[h].job /\ att'[h].fresh = att[h].fresh
      /\ att'[h].flight = att[h].flight \ {o}
  BY DEF Answered, Inv, TypeOK, Attempt, storeVars, lockVars
<1>5. Holds(h)' /\ Asked(h)'
  BY <1>4 DEF Inv, Holds, Asked
<1>6. Work(h)'
  BY <1>4 DEF Inv, Work, OpenJobs
<1>7. \A g \in Callers \ {h} : att'[g] = att[g]
  BY DEF Answered, Inv, TypeOK
<1> QED
  BY <1>2, <1>3, <1>4, <1>5, <1>6, <1>7, StepFrame

\* What an order reports of a fill is an amount.
LEMMA ReportedNat ==
    ASSUME NEW n \in Nat, NEW seen \in Reported(n)
    PROVE  seen \in Nat
BY DEF Reported

\* The locals an answered order changes stay amounts.
LEMMA AttemptFields ==
    ASSUME NEW a \in Attempt, NEW n \in Nat
    PROVE  /\ [a EXCEPT !.spot = n, !.netS = n] \in Attempt
           /\ [a EXCEPT !.fut = n, !.netF = n] \in Attempt
           /\ [a EXCEPT !.netF = @ + n] \in Attempt
           /\ [a EXCEPT !.undone = n, !.netS = NetAfter(@, n)] \in Attempt
           /\ [a EXCEPT !.undone = n, !.netF = NetAfter(@, n)] \in Attempt
<1>1. a.netS \in Nat /\ a.netF \in Nat
  BY DEF Attempt
<1>2. NetAfter(a.netS, n) \in Nat /\ NetAfter(a.netF, n) \in Nat
  BY <1>1 DEF NetAfter, Least
<1>3. [a EXCEPT !.spot = n, !.netS = n] \in Attempt
  BY DEF Attempt
<1>4. [a EXCEPT !.fut = n, !.netF = n] \in Attempt
  BY DEF Attempt
<1>5. [a EXCEPT !.netF = @ + n] \in Attempt
  BY <1>1 DEF Attempt
<1>6. [a EXCEPT !.undone = n, !.netS = NetAfter(@, n)] \in Attempt
  BY <1>2 DEF Attempt
<1>7. [a EXCEPT !.undone = n, !.netF = NetAfter(@, n)] \in Attempt
  BY <1>2 DEF Attempt
<1> QED
  BY <1>3, <1>4, <1>5, <1>6, <1>7

\* A coroutine with an order in flight asked for a ticker, on an exchange when
\* it enters.
LEMMA InFlight ==
    ASSUME Inv, NEW h \in Callers, NEW o \in att[h].flight
    PROVE  /\ att[h] \in Attempt /\ o \in Order
           /\ pc[h] \in Attempting \cup {"closing"}
           /\ req[h].t \in Tickers /\ mkt[req[h].t] \in Market
           /\ pc[h] # "closing" => req[h].ex \in Exchanges
           /\ o.qty \in Nat
<1>1. att[h] \in Attempt /\ o \in Order
  BY DEF Inv, TypeOK, Attempt
<1>2. pc[h] \in Attempting \cup {"closing"}
  BY DEF Inv, Asked
<1>3. req[h] \in Request /\ (pc[h] # "closing" => req[h].ex \in Exchanges)
  BY <1>2 DEF Inv, Asked, Attempting, Locked
<1> QED
  BY <1>1, <1>2, <1>3 DEF Inv, TypeOK, Request, Order

\* What the venues know of one ticker changes.
LEMMA MarketAfter ==
    ASSUME Inv, NEW t \in Tickers, NEW m \in Market, mkt' = [mkt EXCEPT ![t] = m]
    PROVE  mkt' \in [Tickers -> Market]
BY DEF Inv, TypeOK

\* The Bithumb fill of an entry.
LEMMA FillSpotBuyInv ==
    ASSUME Inv, NEW h \in Callers, FillSpotBuy(h)
    PROVE  Inv'
<1>1. PICK o \in att[h].flight :
         \E filled \in 0..(o.qty + Slip) : \E seen \in Reported(filled) :
            /\ mkt' = [mkt EXCEPT ![req[h].t].coin = @ + filled]
            /\ Answered(h, o, [att[h] EXCEPT !.spot = seen, !.netS = seen])
  BY DEF FillSpotBuy
<1>2. PICK filled \in 0..(o.qty + Slip) : \E seen \in Reported(filled) :
            /\ mkt' = [mkt EXCEPT ![req[h].t].coin = @ + filled]
            /\ Answered(h, o, [att[h] EXCEPT !.spot = seen, !.netS = seen])
  BY <1>1
<1>3. PICK seen \in Reported(filled) :
            /\ mkt' = [mkt EXCEPT ![req[h].t].coin = @ + filled]
            /\ Answered(h, o, [att[h] EXCEPT !.spot = seen, !.netS = seen])
  BY <1>2
<1>4. filled \in Nat /\ seen \in Nat
  BY InFlight, ReportedNat, ModelAssumption
<1>5. mkt' \in [Tickers -> Market]
  <2>1. mkt' = [mkt EXCEPT ![req[h].t] = [mkt[req[h].t] EXCEPT !.coin = @ + filled]]
    BY <1>3
  <2>2. [mkt[req[h].t] EXCEPT !.coin = @ + filled] \in Market
    BY <1>4, InFlight DEF Market
  <2> QED
    BY <2>1, <2>2, InFlight, MarketAfter
<1>6. [att[h] EXCEPT !.spot = seen, !.netS = seen] \in Attempt
  BY <1>4, AttemptFields, InFlight
<1> QED
  BY <1>3, <1>5, <1>6, InFlight, AnsweredInv DEF Attempt

\* A Bithumb sell: a rollback, or the spot leg of close_job.
LEMMA FillSpotSellInv ==
    ASSUME Inv, NEW h \in Callers, FillSpotSell(h)
    PROVE  Inv'
<1> DEFINE t == req[h].t
           after(seen) == IF pc[h] = "closing" THEN att[h]
                          ELSE [att[h] EXCEPT !.undone = seen, !.netS = NetAfter(@, seen)]
           sold(filled) == [mkt EXCEPT ![t].coin = @ - filled,
                              ![t].coinClosed = IF pc[h] = "closing" THEN @ + filled ELSE @]
<1>1. PICK o \in att[h].flight :
         \E filled \in 0..Least(o.qty, AtLeast0(mkt[t].coin)) : \E seen \in Reported(filled) :
            mkt' = sold(filled) /\ Answered(h, o, after(seen))
  BY DEF FillSpotSell
<1>2. PICK filled \in 0..Least(o.qty, AtLeast0(mkt[t].coin)) : \E seen \in Reported(filled) :
            mkt' = sold(filled) /\ Answered(h, o, after(seen))
  BY <1>1
<1>3. PICK seen \in Reported(filled) : mkt' = sold(filled) /\ Answered(h, o, after(seen))
  BY <1>2
<1>4. filled \in Nat /\ seen \in Nat
  BY InFlight, ReportedNat DEF Least, AtLeast0, Market
<1>5. mkt' \in [Tickers -> Market]
  <2> DEFINE c == mkt[t].coin - filled
             d == IF pc[h] = "closing" THEN mkt[t].coinClosed + filled ELSE mkt[t].coinClosed
             m == [mkt[t] EXCEPT !.coin = c, !.coinClosed = d]
  <2>1. mkt' = [mkt EXCEPT ![t] = m]
    BY <1>3, InFlight DEF Inv, TypeOK, Market
  <2>2. c \in Int /\ d \in Nat
    BY <1>4, InFlight DEF Market
  <2>3. m \in Market
    <3> HIDE DEF c, d
    <3> QED
      BY <2>2, InFlight DEF Market
  <2> QED
    BY <2>1, <2>3, InFlight, MarketAfter
<1>6. /\ after(seen) \in Attempt /\ after(seen).job = att[h].job
      /\ after(seen).fresh = att[h].fresh /\ after(seen).flight = att[h].flight
  BY <1>4, AttemptFields, InFlight DEF Attempt
<1> HIDE DEF after
<1> QED
  BY <1>3, <1>5, <1>6, AnsweredInv

\* A futures sell: the entry's short or its enlargement.
LEMMA FillFuturesSellInv ==
    ASSUME Inv, NEW h \in Callers, FillFuturesSell(h)
    PROVE  Inv' /\ pc[h] \in Attempting
<1> DEFINE t == req[h].t
           e == req[h].ex
           after(seen) == IF pc[h] = "entering"
                          THEN [att[h] EXCEPT !.fut = seen, !.netF = seen]
                          ELSE [att[h] EXCEPT !.netF = @ + seen]
           shorted(filled) == [mkt EXCEPT ![t].short[e] = @ + filled]
<1>1. PICK o \in att[h].flight :
         /\ o.leg = "futures" /\ o.side = "sell"
         /\ \E filled \in 0..o.qty : \E seen \in Reported(filled) :
              mkt' = shorted(filled) /\ Answered(h, o, after(seen))
  BY DEF FillFuturesSell
<1>2. PICK filled \in 0..o.qty : \E seen \in Reported(filled) :
         mkt' = shorted(filled) /\ Answered(h, o, after(seen))
  BY <1>1
<1>3. PICK seen \in Reported(filled) : mkt' = shorted(filled) /\ Answered(h, o, after(seen))
  BY <1>2
<1>4. filled \in Nat /\ seen \in Nat
  BY InFlight, ReportedNat
<1>5. pc[h] \in Attempting /\ e \in Exchanges
  BY <1>1, InFlight DEF Inv, Asked
<1>6. mkt' \in [Tickers -> Market]
  <2> DEFINE s == [mkt[t].short EXCEPT ![e] = @ + filled]
             m == [mkt[t] EXCEPT !.short = s]
  <2>1. mkt' = [mkt EXCEPT ![t] = m]
    BY <1>3
  <2>2. s \in [Exchanges -> Int]
    BY <1>4, <1>5, InFlight DEF Market
  <2>3. m \in Market
    <3> HIDE DEF s
    <3> QED
      BY <2>2, InFlight DEF Market
  <2> QED
    BY <2>1, <2>3, InFlight, MarketAfter
<1>7. /\ after(seen) \in Attempt /\ after(seen).job = att[h].job
      /\ after(seen).fresh = att[h].fresh /\ after(seen).flight = att[h].flight
  BY <1>4, AttemptFields, InFlight, ZenonT(60) DEF Attempt
<1> HIDE DEF after
<1> QED
  BY <1>3, <1>5, <1>6, <1>7, AnsweredInv

\* A futures buy: a rollback or the reduction of a short too large.
LEMMA FillFuturesBuyInv ==
    ASSUME Inv, NEW h \in Callers, FillFuturesBuy(h)
    PROVE  Inv'
<1> DEFINE t == req[h].t
           e == req[h].ex
           after(seen) == [att[h] EXCEPT !.undone = seen, !.netF = NetAfter(@, seen)]
           bought(filled) == [mkt EXCEPT ![t].short[e] = @ - filled, ![t].buys[e] = @ + filled]
<1>1. PICK o \in att[h].flight :
         \E filled \in 0..o.qty : \E seen \in Reported(filled) :
            mkt' = bought(filled) /\ Answered(h, o, after(seen))
  BY DEF FillFuturesBuy
<1>2. PICK filled \in 0..o.qty : \E seen \in Reported(filled) :
         mkt' = bought(filled) /\ Answered(h, o, after(seen))
  BY <1>1
<1>3. PICK seen \in Reported(filled) : mkt' = bought(filled) /\ Answered(h, o, after(seen))
  BY <1>2
<1>4. filled \in Nat /\ seen \in Nat /\ e \in Exchanges
  BY InFlight, ReportedNat DEF FillFuturesBuy
<1>5. mkt' \in [Tickers -> Market]
  <2> DEFINE s == [mkt[t].short EXCEPT ![e] = @ - filled]
             b == [mkt[t].buys EXCEPT ![e] = @ + filled]
             m == [mkt[t] EXCEPT !.short = s, !.buys = b]
  <2>1. mkt' = [mkt EXCEPT ![t] = m]
    BY <1>3, InFlight, ZenonT(60) DEF Inv, TypeOK, Market
  <2>2. s \in [Exchanges -> Int] /\ b \in [Exchanges -> Nat]
    BY <1>4, InFlight DEF Market
  <2>3. m \in Market
    <3> HIDE DEF s, b
    <3> QED
      BY <2>2, InFlight DEF Market
  <2> QED
    BY <2>1, <2>3, InFlight, MarketAfter
<1>6. /\ after(seen) \in Attempt /\ after(seen).job = att[h].job
      /\ after(seen).fresh = att[h].fresh /\ after(seen).flight = att[h].flight
  BY <1>4, AttemptFields, InFlight DEF Attempt
<1> HIDE DEF after
<1> QED
  BY <1>3, <1>5, <1>6, AnsweredInv

\* The futures leg of close_job.
LEMMA FillFuturesCloseInv ==
    ASSUME Inv, NEW h \in Callers, FillFuturesClose(h)
    PROVE  Inv'
<1>1. jobs[Home[h]][att[h].job].ex \in Exchanges
  <2>1. att[h].job \in DOMAIN jobs[Home[h]]
    BY DEF Inv, Work, FillFuturesClose, OpenJobs
  <2>2. Home[h] \in Workers
    BY ModelAssumption
  <2>3. jobs[Home[h]][att[h].job] \in Job
    BY <2>1, <2>2 DEF Inv, TypeOK
  <2> QED
    BY <2>3 DEF Job
<1>2. PICK e \in Exchanges : e = jobs[Home[h]][att[h].job].ex
  BY <1>1
<1> DEFINE t == req[h].t
           bought(filled) == [mkt EXCEPT ![t].short[e] = @ - filled, ![t].buys[e] = @ + filled,
                                         ![t].closed[e] = @ + filled]
<1>3. PICK o \in att[h].flight :
         /\ \E filled \in 0..Least(o.qty, AtLeast0(mkt[t].short[e])) : mkt' = bought(filled)
         /\ Answered(h, o, att[h])
  BY <1>2 DEF FillFuturesClose
<1>4. PICK filled \in 0..Least(o.qty, AtLeast0(mkt[t].short[e])) : mkt' = bought(filled)
  BY <1>3
<1>5. mkt[t].short[e] \in Int
  BY InFlight DEF Market
<1>6. filled \in Nat
  BY <1>5, InFlight DEF Least, AtLeast0
<1>7. mkt' \in [Tickers -> Market]
  <2> DEFINE s == [mkt[t].short EXCEPT ![e] = @ - filled]
             b == [mkt[t].buys EXCEPT ![e] = @ + filled]
             c == [mkt[t].closed EXCEPT ![e] = @ + filled]
             m == [mkt[t] EXCEPT !.short = s, !.buys = b, !.closed = c]
  <2>1. mkt' = [mkt EXCEPT ![t] = m]
    BY <1>4, InFlight, ZenonT(60) DEF Inv, TypeOK, Market
  <2>2. s \in [Exchanges -> Int] /\ b \in [Exchanges -> Nat] /\ c \in [Exchanges -> Nat]
    BY <1>6, InFlight DEF Market
  <2>3. m \in Market
    <3> HIDE DEF s, b, c
    <3> QED
      BY <2>2, InFlight DEF Market
  <2> QED
    BY <2>1, <2>3, InFlight, MarketAfter
<1> QED
  BY <1>3, <1>7, InFlight, AnsweredInv

-----------------------------------------------------------------------------
(* The store written under the lock.                                         *)

\* A write of a job keeps at most one open hedge a ticker when the job was the
\* open one, or is written as no open one, or the ticker has no other.
LEMMA WriteOneOpen ==
    ASSUME Inv, NEW w \in Workers, NEW i \in DOMAIN jobs[w], NEW j \in Job,
           UpdateJob(w, i, j), j.ticker = jobs[w][i].ticker,
           IsOpen(j) => OpenJobs(w, j.ticker) \subseteq {i}
    PROVE  OneOpenJob' /\ OneOpenIn(file)'
<1>1. /\ jobs' \in [Workers -> Seq(Job)] /\ file' \in Seq(Job)
      /\ \A v \in Workers : DOMAIN jobs'[v] = DOMAIN jobs[v]
      /\ \A v \in Workers \ {w} : jobs'[v] = jobs[v]
      /\ \A k \in DOMAIN jobs[w] \ {i} : jobs'[w][k] = jobs[w][k]
      /\ jobs'[w][i] = Normalize(j)
  BY UpdateLemma DEF Inv, TypeOK
<1>2. Normalize(j).ticker = j.ticker /\ (IsOpen(Normalize(j)) <=> IsOpen(j))
  BY NormalizeLemma
<1>3. OneOpenIn(jobs'[w])
  <2> SUFFICES ASSUME NEW k \in DOMAIN jobs[w], NEW l \in DOMAIN jobs[w],
                      IsOpen(jobs'[w][k]), IsOpen(jobs'[w][l]),
                      jobs'[w][k].ticker = jobs'[w][l].ticker
               PROVE  k = l
    BY <1>1 DEF OneOpenIn
  <2>1. CASE k # i /\ l # i
    BY <1>1, <2>1 DEF Inv, OneOpenJob, OneOpenIn
  <2>2. CASE k = i /\ l # i
    BY <1>1, <1>2, <2>2 DEF OpenJobs
  <2>3. CASE k # i /\ l = i
    BY <1>1, <1>2, <2>3 DEF OpenJobs
  <2> QED
    BY <2>1, <2>2, <2>3
<1>4. OneOpenJob'
  BY <1>1, <1>3 DEF Inv, OneOpenJob
<1>5. file' = jobs'[w] \/ file' = <<>>
  BY DEF UpdateJob, Save
<1>6. OneOpenIn(file')
  BY <1>3, <1>5 DEF OneOpenIn
<1> QED
  BY <1>4, <1>6 DEF OneOpenIn, IsOpen

\* An answer of a call.
LEMMA AnswerLemma ==
    ASSUME NEW ok \in BOOLEAN, NEW code \in Codes, NEW status \in Status \cup {"none"}
    PROVE  Answer(ok, code, status) \in Result
BY DEF Answer, NoResult, Result, Codes, Messages

\* A job the handler found open is a job, the only open one of its ticker.
LEMMA FoundOpen ==
    ASSUME Inv, NEW w \in Workers, NEW t \in Tickers, NEW i \in OpenJobs(w, t)
    PROVE  /\ i \in DOMAIN jobs[w] /\ i \in Nat /\ jobs[w][i] \in Job
           /\ jobs[w][i].ticker = t /\ IsOpen(jobs[w][i])
           /\ OpenJobs(w, t) \subseteq {i}
<1>1. i \in DOMAIN jobs[w] /\ jobs[w][i].ticker = t /\ IsOpen(jobs[w][i])
  BY DEF OpenJobs
<1>2. jobs[w] \in Seq(Job)
  BY DEF Inv, TypeOK
<1>3. OpenJobs(w, t) \subseteq {i}
  BY <1>1 DEF Inv, OneOpenJob, OneOpenIn, OpenJobs
<1> QED
  BY <1>1, <1>2, <1>3

\* A handler that writes the open job it holds, or a job that is not open, and
\* returns.
LEMMA WriteAndReturn ==
    ASSUME Inv, NEW h \in Callers, NEW i \in DOMAIN jobs[Home[h]], NEW j \in Job,
           NEW answer \in Result, pc[h] \in Locked, mkt' = mkt,
           UpdateJob(Home[h], i, j), Return(h, answer), j.ticker = jobs[Home[h]][i].ticker,
           IsOpen(j) => OpenJobs(Home[h], j.ticker) \subseteq {i}
    PROVE  Inv'
<1>1. Home[h] \in Workers
  BY ModelAssumption
<1>2. OneOpenJob' /\ OneOpenIn(file)'
  BY <1>1, WriteOneOpen
<1>3. /\ jobs' \in [Workers -> Seq(Job)] /\ file' \in Seq(Job)
      /\ \A v \in Workers \ {Home[h]} : jobs'[v] = jobs[v]
  BY <1>1, UpdateLemma DEF Inv, TypeOK
<1> QED
  BY <1>2, <1>3, ReturnInv

-----------------------------------------------------------------------------
(* enter.                                                                    *)

\* A call on another exchange is refused.
LEMMA EnterRefusedInv ==
    ASSUME Inv, NEW h \in Callers, EnterRefused(h)
    PROVE  Inv'
<1> DEFINE w == Home[h]
           t == req[h].t
           i == LatestOpen(w, t)
           answer == Answer(FALSE, "ACTIVE_HEDGE_EXISTS", jobs[w][i].status)
<1>1. w \in Workers /\ t \in Tickers
  BY ModelAssumption DEF Inv, TypeOK, Asked, EnterRefused, MayLock, Request
<1>2. i \in OpenJobs(w, t)
  BY <1>1, LatestOpenLemma DEF Inv, TypeOK, EnterRefused
<1>3. jobs[w][i] \in Job
  BY <1>1, <1>2, FoundOpen
<1>4. answer \in Result
  BY <1>3, AnswerLemma DEF Job, Codes
<1>5. Refuse(h, answer)
  BY DEF EnterRefused
<1> HIDE DEF answer
<1> QED
  BY <1>4, <1>5, RefuseInv

\* The handler remembers the open job, if any, and awaits prices.
LEMMA EnterStartInv ==
    ASSUME Inv, NEW h \in Callers, EnterStart(h)
    PROVE  Inv'
<1> DEFINE w == Home[h]
           t == req[h].t
           i == LatestOpen(w, t)
           a == [NoAttempt EXCEPT !.job = i]
<1>1. w \in Workers /\ t \in Tickers
  BY ModelAssumption DEF Inv, TypeOK, Asked, EnterStart, MayLock, Request
<1>2. /\ i = 0 <=> OpenJobs(w, t) = {}
      /\ i # 0 => i \in OpenJobs(w, t)
      /\ i \in Nat
  BY <1>1, LatestOpenLemma DEF Inv, TypeOK
<1> HIDE DEF i
<1>3. a \in Attempt /\ a.job = i /\ ~a.fresh /\ a.flight = {}
  BY <1>2 DEF NoAttempt, Attempt
<1>4. /\ Lock(h, "pricing", a) /\ req[h].op = "enter"
      /\ jobs' = jobs /\ file' = file /\ mkt' = mkt
      /\ i # 0 => jobs[w][i].ex = req[h].ex
  BY DEF EnterStart, storeVars, i
<1> HIDE DEF a
<1> QED
  BY <1>2, <1>3, <1>4, LockInv

\* No price: the call returns.
LEMMA EnterUnavailableInv ==
    ASSUME Inv, NEW h \in Callers, EnterUnavailable(h)
    PROVE  Inv'
<1>1. Answer(FALSE, "UNAVAILABLE", "none") \in Result
  BY AnswerLemma DEF Codes
<1>2. pc[h] \in Locked /\ jobs' = jobs /\ file' = file /\ mkt' = mkt
  BY DEF EnterUnavailable, Locked, storeVars
<1>3. OneOpenJob' /\ OneOpenIn(file)'
  BY <1>2, OneOpenFrame DEF Inv
<1>4. Return(h, Answer(FALSE, "UNAVAILABLE", "none"))
  BY DEF EnterUnavailable
<1>5. jobs' \in [Workers -> Seq(Job)] /\ file' \in Seq(Job)
  BY <1>2 DEF Inv, TypeOK
<1> QED
  BY <1>1, <1>2, <1>3, <1>4, <1>5, ReturnInv

\* The job an entry starts with is a job, and not an open one.
LEMMA NewJobLemma ==
    ASSUME Inv, NEW t \in Tickers, NEW e \in Exchanges
    PROVE  /\ NewJob(t, e) \in Job /\ ~IsOpen(NewJob(t, e))
           /\ NewJob(t, e).ticker = t /\ NewJob(t, e).ex = e
<1>1. mkt[t] \in Market
  BY DEF Inv, TypeOK
<1>2. [sold |-> mkt[t].sold, buys |-> mkt[t].buys, moved |-> mkt[t].moved]
         \in [sold: [Exchanges -> Nat], buys: [Exchanges -> Nat], moved: [Exchanges -> Nat]]
  BY <1>1 DEF Market
<1>3. "requested" \in Status
  BY DEF Status
<1>4. NewJob(t, e) \in Job
  BY <1>2, <1>3 DEF NewJob, Job
<1> QED
  BY <1>4 DEF NewJob, IsOpen, OpenStatus

\* The job is created, or scaled into, and both legs are sent.
LEMMA EnterSubmitInv ==
    ASSUME Inv, NEW h \in Callers, EnterSubmit(h)
    PROVE  Inv'
<1> DEFINE w == Home[h]
           t == req[h].t
           e == req[h].ex
           k == Len(jobs[w]) + 1
           sent(q) == {SpotOrder("buy", q), FuturesOrder("sell", q)}
<1>1. /\ pc[h] = "pricing" /\ req' = req /\ lock' = lock /\ mkt' = mkt
      /\ up' = up /\ waiters' = waiters /\ res' = res
      /\ pc' = [pc EXCEPT ![h] = "entering"]
  BY DEF EnterSubmit, lockVars
<1>2. w \in Workers /\ t \in Tickers /\ e \in Exchanges /\ req[h].op = "enter"
  BY <1>1, ModelAssumption DEF Inv, Asked, Locked, Request
<1>3. pc' \in [Callers -> PCs] /\ pc'[h] = "entering"
  BY <1>1 DEF Inv, TypeOK, PCs, Locked
<1>4. PICK q \in 1..MaxLot :
         IF att[h].job # 0
         THEN /\ att' = [att EXCEPT ![h].flight = sent(q)]
              /\ UNCHANGED storeVars
         ELSE /\ CreateJob(w, NewJob(t, e))
              /\ att' = [att EXCEPT ![h].flight = sent(q), ![h].fresh = TRUE, ![h].job = k]
  BY DEF EnterSubmit
<1>5. sent(q) \subseteq Order
  BY ModelAssumption DEF SpotOrder, FuturesOrder, Order
<1>6. att[h] \in Attempt
  BY DEF Inv, TypeOK
<1>7. \A g \in Callers \ {h} :
         /\ pc'[g] = pc[g] /\ att'[g] = att[g] /\ req'[g] = req[g]
  BY <1>1, <1>4 DEF Inv, TypeOK
<1>8. Holds(h)' /\ Asked(h)'
  <2>1. Asked(h) /\ Holds(h)
    BY DEF Inv
  <2> QED
    BY <1>1, <1>2, <1>3, <2>1 DEF Holds, Asked, Attempting, Locked
<1> HIDE DEF sent
<1>9. CASE att[h].job # 0
  <2>1. /\ att' = [att EXCEPT ![h] = [att[h] EXCEPT !.flight = sent(q)]]
        /\ jobs' = jobs /\ file' = file
    BY <1>4, <1>9 DEF storeVars
  <2>2. [att[h] EXCEPT !.flight = sent(q)] \in Attempt
    BY <1>5, <1>6 DEF Attempt
  <2>3. TypeOK'
    BY <1>1, <1>3, <2>1, <2>2 DEF Inv, TypeOK
  <2>4. OneOpenJob' /\ OneOpenIn(file)'
    BY <2>1, OneOpenFrame DEF Inv
  <2>5. att'[h].job = att[h].job /\ att'[h].fresh = att[h].fresh
    BY <1>6, <2>1 DEF Inv, TypeOK, Attempt
  <2>6. Work(h)'
    BY <1>1, <1>2, <1>3, <1>9, <2>1, <2>5 DEF Inv, Work, OpenJobs, Attempting
  <2> QED
    BY <1>1, <1>7, <1>8, <2>1, <2>3, <2>4, <2>6, StepFrame
<1>10. CASE att[h].job = 0
  <2>1. /\ att' = [att EXCEPT ![h] = [att[h] EXCEPT !.flight = sent(q), !.fresh = TRUE,
                                                     !.job = k]]
        /\ CreateJob(w, NewJob(t, e))
    BY <1>4, <1>10 DEF Inv, TypeOK
  <2>2. jobs[w] \in Seq(Job) /\ k \in Nat
    BY <1>2 DEF Inv, TypeOK
  <2>3. [att[h] EXCEPT !.flight = sent(q), !.fresh = TRUE, !.job = k] \in Attempt
    BY <1>5, <1>6, <2>2 DEF Attempt
  <2>4. /\ NewJob(t, e) \in Job /\ ~IsOpen(Normalize(NewJob(t, e)))
        /\ Normalize(NewJob(t, e)).ticker = t /\ Normalize(NewJob(t, e)).ex = e
    BY <1>2, NewJobLemma, NormalizeLemma
  <2>5. /\ jobs' \in [Workers -> Seq(Job)] /\ file' \in Seq(Job)
        /\ \A v \in Workers \ {w} : jobs'[v] = jobs[v]
        /\ DOMAIN jobs'[w] = DOMAIN jobs[w] \cup {k}
        /\ \A i \in DOMAIN jobs[w] : jobs'[w][i] = jobs[w][i]
        /\ jobs'[w][k] = Normalize(NewJob(t, e))
    <3> HIDE DEF w, t, e
    <3> QED
      BY <1>2, <2>1, <2>4, CreateLemma DEF Inv, TypeOK
  <2>6. TypeOK'
    BY <1>1, <1>3, <2>1, <2>3, <2>5 DEF Inv, TypeOK
  <2>7. OneOpenIn(jobs'[w])
    <3> SUFFICES ASSUME NEW i \in DOMAIN jobs'[w], NEW l \in DOMAIN jobs'[w],
                        IsOpen(jobs'[w][i]), IsOpen(jobs'[w][l]),
                        jobs'[w][i].ticker = jobs'[w][l].ticker
                 PROVE  i = l
      BY DEF OneOpenIn
    <3>1. i \in DOMAIN jobs[w] /\ l \in DOMAIN jobs[w]
      BY <2>4, <2>5
    <3> QED
      BY <1>2, <2>5, <3>1 DEF Inv, OneOpenJob, OneOpenIn
  <2>8. OneOpenJob'
    BY <2>5, <2>7 DEF Inv, OneOpenJob
  <2>9. OneOpenIn(file')
    <3>1. file' = jobs'[w] \/ file' = <<>>
      BY <2>1 DEF CreateJob, Save
    <3> QED
      BY <2>7, <3>1 DEF OneOpenIn
  <2>10. OneOpenIn(file)'
    BY <2>9 DEF OneOpenIn, IsOpen
  <2>11. OpenJobs(w, t) = {}
    BY <1>1, <1>10 DEF Inv, Work
  <2>12. OpenJobs(w, t)' = {}
    BY <1>1, <2>4, <2>5, <2>11 DEF OpenJobs, IsOpen
  <2>13. att'[h].job = k /\ att'[h].fresh
    BY <1>6, <2>1 DEF Inv, TypeOK, Attempt
  <2>14. Work(h)'
    BY <1>1, <1>3, <2>4, <2>5, <2>12, <2>13 DEF Work, Attempting
  <2>15. \A g \in Callers \ {h} : pc[g] \in Locked => jobs'[Home[g]] = jobs[Home[g]]
    <3> SUFFICES ASSUME NEW g \in Callers \ {h}, pc[g] \in Locked
                 PROVE  jobs'[Home[g]] = jobs[Home[g]]
      OBVIOUS
    <3>1. Home[g] # w
      BY <1>1, Exclusion DEF Locked
    <3> QED
      BY <2>5, <3>1, ModelAssumption
  <2> QED
    BY <1>1, <1>7, <1>8, <2>6, <2>8, <2>10, <2>14, <2>15, StepFrame
<1> QED
  BY <1>9, <1>10

\* The order that undoes or adjusts the entry is sent.
LEMMA EnterFollowUpInv ==
    ASSUME Inv, NEW h \in Callers, EnterFollowUp(h)
    PROVE  Inv'
<1> DEFINE next == IF att[h].spot > 0 /\ att[h].fut > 0 THEN "adjusting" ELSE "undoing"
<1>1. /\ pc[h] = "entering" /\ req' = req /\ lock' = lock /\ mkt' = mkt
      /\ up' = up /\ waiters' = waiters /\ res' = res /\ jobs' = jobs /\ file' = file
      /\ pc' = [pc EXCEPT ![h] = next]
      /\ att' = [att EXCEPT ![h] = [att[h] EXCEPT !.flight = FollowUp(att[h])]]
  BY DEF EnterFollowUp, lockVars, storeVars
<1>2. att[h] \in Attempt
  BY DEF Inv, TypeOK
<1>3. FollowUp(att[h]) \subseteq Order
  <2>1. att[h].spot \in Nat /\ att[h].fut \in Nat
    BY <1>2 DEF Attempt
  <2>2. \A n \in Nat : NormalizeFutures(n) \in Nat
    BY DEF NormalizeFutures
  <2>3. \A n \in Nat, side \in {"buy", "sell"} :
           Orders(SpotOrder(side, n)) \subseteq Order /\ Orders(FuturesOrder(side, n)) \subseteq Order
    BY DEF Orders, SpotOrder, FuturesOrder, Order
  <2> DEFINE s == att[h].spot
             f == att[h].fut
  <2>4. CASE s > 0 /\ f = 0
    BY <2>1, <2>3, <2>4 DEF FollowUp
  <2>5. CASE f > 0 /\ s = 0
    BY <2>1, <2>2, <2>3, <2>5 DEF FollowUp
  <2>6. CASE s > f /\ f > 0
    <3>1. NormalizeFutures(s - f) \in Nat
      BY <2>1, <2>2, <2>6
    <3> QED
      BY <2>1, <2>3, <2>6, <3>1 DEF FollowUp
  <2>7. CASE f > s /\ s > 0
    <3>1. NormalizeFutures(f - s) \in Nat
      BY <2>1, <2>2, <2>7
    <3> QED
      BY <2>1, <2>3, <2>7, <3>1 DEF FollowUp
  <2>8. CASE f = s
    BY <2>1, <2>8 DEF FollowUp
  <2> QED
    BY <2>1, <2>4, <2>5, <2>6, <2>7, <2>8
<1>4. [att[h] EXCEPT !.flight = FollowUp(att[h])] \in Attempt
  BY <1>2, <1>3 DEF Attempt
<1>5. pc' \in [Callers -> PCs] /\ pc'[h] \in Attempting
  BY <1>1 DEF Inv, TypeOK, PCs, Locked, Attempting
<1>6. TypeOK'
  BY <1>1, <1>4, <1>5 DEF Inv, TypeOK
<1>7. OneOpenJob' /\ OneOpenIn(file)'
  BY <1>1, OneOpenFrame DEF Inv
<1>8. att'[h].job = att[h].job /\ att'[h].fresh = att[h].fresh
  BY <1>1, <1>2 DEF Inv, TypeOK, Attempt
<1>9. Holds(h) /\ Asked(h) /\ Work(h)
  BY DEF Inv
<1>10. Holds(h)' /\ Asked(h)'
  BY <1>1, <1>5, <1>9 DEF Holds, Asked, Attempting, Locked
<1>11. Work(h)'
  BY <1>1, <1>5, <1>8, <1>9 DEF Work, OpenJobs, Attempting
<1>12. \A g \in Callers \ {h} :
         /\ pc'[g] = pc[g] /\ att'[g] = att[g] /\ req'[g] = req[g]
  BY <1>1 DEF Inv, TypeOK
<1> QED
  BY <1>1, <1>6, <1>7, <1>10, <1>11, <1>12, StepFrame

\* The status an attempt ends with is a job's.
LEMMA AttemptLemma ==
    ASSUME NEW a \in Attempt
    PROVE  AttemptStatus(a) \in Status /\ AttemptCode(a) \in Codes /\ BothFilled(a) \in BOOLEAN
<1>1. a.spot \in Nat /\ a.fut \in Nat
  BY DEF Attempt
<1>2. \A s, f : Classify(s, f) \in Status
  BY DEF Classify, Status, OpenStatus
<1>3. BothFilled(a) <=> a.spot > 0 /\ a.fut > 0
  BY DEF BothFilled
<1>4. CASE a.spot = 0 /\ a.fut = 0
  BY <1>1, <1>3, <1>4 DEF AttemptStatus, AttemptCode, Status, DeadStatus, Codes, BothFilled
<1>5. CASE BothFilled(a)
  BY <1>1, <1>2, <1>3, <1>5 DEF AttemptStatus, AttemptCode, Codes
<1>6. CASE ~(a.spot = 0 /\ a.fut = 0) /\ ~BothFilled(a)
  <2>1. AttemptStatus(a) \in {"rolled_back", "rollback_failed"}
    BY <1>6 DEF AttemptStatus
  <2>2. AttemptCode(a) = "ONE_SIDED_FILL"
    BY <1>6 DEF AttemptCode
  <2>3. BothFilled(a) \in BOOLEAN
    BY DEF BothFilled
  <2> QED
    BY <2>1, <2>2, <2>3 DEF Status, DeadStatus, Codes
<1> QED
  BY <1>4, <1>5, <1>6 DEF BothFilled

\* The coroutine that ends an attempt works on a job it created or found open.
LEMMA OverLemma ==
    ASSUME Inv, NEW h \in Callers, AttemptOver(h)
    PROVE  /\ pc[h] \in Attempting /\ att[h] \in Attempt
           /\ att[h].job \in DOMAIN jobs[Home[h]] /\ jobs[Home[h]][att[h].job] \in Job
           /\ jobs[Home[h]][att[h].job].ticker = req[h].t
           /\ Home[h] \in Workers /\ req[h].t \in Tickers /\ req[h].ex \in Exchanges
           /\ IF att[h].fresh THEN OpenJobs(Home[h], req[h].t) = {}
              ELSE att[h].job \in OpenJobs(Home[h], req[h].t)
<1>1. pc[h] \in Attempting /\ pc[h] \in Locked
  BY DEF AttemptOver, Attempting, Locked
<1>2. Asked(h) /\ Work(h) /\ att[h] \in Attempt
  BY DEF Inv, TypeOK
<1>3. Home[h] \in Workers
  BY ModelAssumption
<1>4. /\ att[h].job \in DOMAIN jobs[Home[h]] /\ jobs[Home[h]][att[h].job].ticker = req[h].t
      /\ IF att[h].fresh THEN OpenJobs(Home[h], req[h].t) = {}
         ELSE att[h].job \in OpenJobs(Home[h], req[h].t)
  BY <1>1, <1>2 DEF Work
<1>5. jobs[Home[h]][att[h].job] \in Job
  BY <1>3, <1>4 DEF Inv, TypeOK
<1>6. req[h].t \in Tickers /\ req[h].ex \in Exchanges
  BY <1>1, <1>2 DEF Asked, Request
<1> QED
  BY <1>1, <1>2, <1>3, <1>4, <1>5, <1>6

\* A new entry is recorded.
LEMMA FinalizeNewInv ==
    ASSUME Inv, NEW h \in Callers, FinalizeNew(h)
    PROVE  Inv'
<1> DEFINE w == Home[h]
           a == att[h]
           i == a.job
           ok == BothFilled(a)
           final == [jobs[w][i] EXCEPT
                        !.status = AttemptStatus(a),
                        !.qtyS = IF ok THEN a.netS ELSE 0,
                        !.qtyF = IF ok THEN a.netF ELSE 0,
                        !.legS = a.netS, !.legF = a.netF,
                        !.exit = req[h].ex]
           answer == Answer(ok, AttemptCode(a), jobs'[w][i].status)
<1>1. /\ a.fresh /\ AttemptOver(h) /\ UpdateJob(w, i, final) /\ Return(h, answer) /\ mkt' = mkt
  BY DEF FinalizeNew
<1>2. /\ i \in DOMAIN jobs[w] /\ jobs[w][i] \in Job /\ w \in Workers /\ a \in Attempt
      /\ jobs[w][i].ticker = req[h].t /\ req[h].ex \in Exchanges
      /\ OpenJobs(w, req[h].t) = {} /\ pc[h] \in Attempting
  BY <1>1, OverLemma
<1>3. AttemptStatus(a) \in Status /\ AttemptCode(a) \in Codes /\ ok \in BOOLEAN
  BY <1>2, AttemptLemma
<1>4. final \in Job /\ final.ticker = jobs[w][i].ticker
  <2>1. a.netS \in Nat /\ a.netF \in Nat
    BY <1>2 DEF Attempt
  <2>2. (IF ok THEN a.netS ELSE 0) \in Nat /\ (IF ok THEN a.netF ELSE 0) \in Nat
    BY <2>1
  <2> HIDE DEF ok
  <2> QED
    BY <1>2, <1>3, <2>1, <2>2 DEF Job
<1> HIDE DEF final
<1>5. answer \in Result
  <2>1. jobs' \in [Workers -> Seq(Job)] /\ i \in DOMAIN jobs'[w]
    BY <1>1, <1>2, <1>4, UpdateLemma DEF Inv, TypeOK
  <2>2. jobs'[w][i].status \in Status
    <3>1. jobs'[w][i] \in Job
      BY <1>2, <2>1
    <3> QED
      BY <3>1 DEF Job
  <2> HIDE DEF ok
  <2> QED
    BY <1>3, <2>2, AnswerLemma
<1> HIDE DEF answer
<1> QED
  BY <1>1, <1>2, <1>4, <1>5, WriteAndReturn DEF Locked, Attempting

\* A scale-in is recorded in the hedge it enlarges.
LEMMA FinalizeScaleInInv ==
    ASSUME Inv, NEW h \in Callers, FinalizeScaleIn(h)
    PROVE  Inv'
<1> DEFINE w == Home[h]
           a == att[h]
           i == a.job
           old == jobs[w][i]
           applied == a.netS > 0 /\ a.netF > 0
           final == [old EXCEPT !.ex = req[h].ex,
                                !.status = Classify(old.legS + a.netS, old.legF + a.netF),
                                !.qtyS = old.legS + a.netS, !.qtyF = old.legF + a.netF,
                                !.legS = old.legS + a.netS, !.legF = old.legF + a.netF]
           said == IF applied THEN "scaled in"
                   ELSE IF AttemptStatus(a) = "failed" THEN "none" ELSE "hedge unchanged"
           answer == [ok |-> BothFilled(a) /\ applied, code |-> AttemptCode(a),
                      message |-> said, status |-> jobs'[w][i].status]
<1>1. /\ ~a.fresh /\ AttemptOver(h) /\ UpdateJob(w, i, final) /\ Return(h, answer) /\ mkt' = mkt
  BY DEF FinalizeScaleIn
<1>2. /\ i \in DOMAIN jobs[w] /\ old \in Job /\ w \in Workers /\ a \in Attempt
      /\ old.ticker = req[h].t /\ req[h].ex \in Exchanges /\ req[h].t \in Tickers
      /\ i \in OpenJobs(w, req[h].t) /\ pc[h] \in Attempting
  BY <1>1, OverLemma
<1>3. AttemptCode(a) \in Codes
  BY <1>2, AttemptLemma
<1>4. final \in Job /\ final.ticker = old.ticker
  <2>1. a.netS \in Nat /\ a.netF \in Nat /\ old.legS \in Nat /\ old.legF \in Nat
    BY <1>2 DEF Attempt, Job
  <2>2. old.legS + a.netS \in Nat /\ old.legF + a.netF \in Nat
    BY <2>1
  <2>3. Classify(old.legS + a.netS, old.legF + a.netF) \in Status
    BY DEF Classify, Status, OpenStatus
  <2> QED
    BY <1>2, <2>2, <2>3 DEF Job
<1> HIDE DEF final
<1>5. answer \in Result
  <2>1. jobs' \in [Workers -> Seq(Job)] /\ i \in DOMAIN jobs'[w]
    BY <1>1, <1>2, <1>4, UpdateLemma DEF Inv, TypeOK
  <2>2. jobs'[w][i].status \in Status
    <3>1. jobs'[w][i] \in Job
      BY <1>2, <2>1
    <3> QED
      BY <3>1 DEF Job
  <2>3. said \in Messages /\ (BothFilled(a) /\ applied) \in BOOLEAN
    BY DEF Messages
  <2> HIDE DEF said, applied
  <2> QED
    BY <1>3, <2>2, <2>3 DEF Result
<1>6. OpenJobs(w, final.ticker) \subseteq {i}
  BY <1>2, <1>4, FoundOpen
<1> HIDE DEF answer
<1> QED
  BY <1>1, <1>2, <1>4, <1>5, <1>6, WriteAndReturn DEF Locked, Attempting

-----------------------------------------------------------------------------
(* refresh_latest_job and close_job.                                         *)

\* There is nothing to refresh or to close.
LEMMA NoOpenJobInv ==
    ASSUME Inv, NEW h \in Callers, NoOpenJob(h)
    PROVE  Inv'
<1> DEFINE answer == IF req[h].op = "refresh" THEN Answer(TRUE, "OK", "none")
                     ELSE Answer(FALSE, "NO_OPEN_JOB", "none")
<1>1. answer \in Result
  BY AnswerLemma DEF Codes
<1>2. Refuse(h, answer)
  BY DEF NoOpenJob
<1> HIDE DEF answer
<1> QED
  BY <1>1, <1>2, RefuseInv

\* The open job a refresh or a close finds is remembered.
LEMMA FoundLatest ==
    ASSUME Inv, NEW h \in Callers, MayLock(h), ~NothingOpen(h)
    PROVE  /\ Home[h] \in Workers /\ req[h].t \in Tickers
           /\ LatestOpen(Home[h], req[h].t) \in OpenJobs(Home[h], req[h].t)
           /\ LatestOpen(Home[h], req[h].t) \in Nat
           /\ jobs[Home[h]][LatestOpen(Home[h], req[h].t)] \in Job
<1>1. Home[h] \in Workers /\ req[h].t \in Tickers
  BY ModelAssumption DEF Inv, Asked, MayLock, Request
<1>2. /\ LatestOpen(Home[h], req[h].t) \in OpenJobs(Home[h], req[h].t)
      /\ LatestOpen(Home[h], req[h].t) \in Nat
  BY <1>1, LatestOpenLemma DEF Inv, TypeOK, NothingOpen
<1> QED
  BY <1>1, <1>2, FoundOpen

LEMMA RefreshStartInv ==
    ASSUME Inv, NEW h \in Callers, RefreshStart(h)
    PROVE  Inv'
<1> DEFINE i == LatestOpen(Home[h], req[h].t)
           a == [NoAttempt EXCEPT !.job = i]
<1>1. /\ MayLock(h) /\ ~NothingOpen(h) /\ Lock(h, "refreshing", a) /\ req[h].op # "enter"
      /\ jobs' = jobs /\ file' = file /\ mkt' = mkt
  BY DEF RefreshStart, storeVars
<1>2. i \in OpenJobs(Home[h], req[h].t) /\ i \in Nat
  BY <1>1, FoundLatest
<1> HIDE DEF i
<1>3. a \in Attempt /\ a.job = i /\ a.flight = {}
  BY <1>2 DEF NoAttempt, Attempt
<1> HIDE DEF a
<1> QED
  BY <1>1, <1>2, <1>3, LockInv

LEMMA CloseStartInv ==
    ASSUME Inv, NEW h \in Callers, CloseStart(h)
    PROVE  Inv'
<1> DEFINE i == LatestOpen(Home[h], req[h].t)
           j == jobs[Home[h]][i]
           sent == {SpotOrder("sell", j.qtyS), FuturesOrder("buy", j.qtyF)}
           a == [NoAttempt EXCEPT !.job = i, !.flight = sent]
<1>1. /\ MayLock(h) /\ ~NothingOpen(h) /\ Lock(h, "closing", a) /\ req[h].op # "enter"
      /\ jobs' = jobs /\ file' = file /\ mkt' = mkt
  BY DEF CloseStart, storeVars
<1>2. i \in OpenJobs(Home[h], req[h].t) /\ i \in Nat /\ j \in Job
  BY <1>1, FoundLatest
<1> HIDE DEF i
<1>3. sent \subseteq Order /\ \A o \in sent : o.leg = "futures" => o.side = "buy"
  BY <1>2 DEF SpotOrder, FuturesOrder, Order, Job
<1> HIDE DEF sent
<1>4. a \in Attempt /\ a.job = i /\ a.flight = sent
  BY <1>2, <1>3 DEF NoAttempt, Attempt
<1> HIDE DEF a
<1> QED
  BY <1>1, <1>2, <1>3, <1>4, LockInv

\* The job a close or a refresh holds is open.
LEMMA HeldOpen ==
    ASSUME Inv, NEW h \in Callers, pc[h] \in {"closing", "refreshing"}
    PROVE  /\ Home[h] \in Workers /\ req[h] \in Request /\ req[h].t \in Tickers
           /\ att[h].job \in OpenJobs(Home[h], req[h].t)
           /\ att[h].job \in DOMAIN jobs[Home[h]]
           /\ jobs[Home[h]][att[h].job] \in Job
           /\ jobs[Home[h]][att[h].job].ticker = req[h].t
           /\ OpenJobs(Home[h], req[h].t) \subseteq {att[h].job}
<1>1. Home[h] \in Workers
  BY ModelAssumption
<1>2. req[h] \in Request /\ req[h].t \in Tickers /\ att[h].job \in OpenJobs(Home[h], req[h].t)
  BY DEF Inv, Asked, Work, Locked, Request
<1> QED
  BY <1>1, <1>2, FoundOpen

\* The close is noted in the job, and the refresh begins.
LEMMA CloseNotedInv ==
    ASSUME Inv, NEW h \in Callers, CloseNoted(h)
    PROVE  Inv'
<1> DEFINE w == Home[h]
           i == att[h].job
           j == jobs[w][i]
<1>1. /\ pc[h] = "closing" /\ att[h].flight = {} /\ UpdateJob(w, i, j)
      /\ pc' = [pc EXCEPT ![h] = "refreshing"]
      /\ up' = up /\ lock' = lock /\ waiters' = waiters /\ req' = req
      /\ att' = att /\ res' = res /\ mkt' = mkt
  BY DEF CloseNoted, lockVars
<1>2. /\ w \in Workers /\ i \in OpenJobs(w, req[h].t) /\ i \in DOMAIN jobs[w]
      /\ j \in Job /\ j.ticker = req[h].t /\ OpenJobs(w, req[h].t) \subseteq {i}
  BY <1>1, HeldOpen
<1>3. OneOpenJob' /\ OneOpenIn(file)'
  BY <1>1, <1>2, WriteOneOpen
<1>4. /\ jobs' \in [Workers -> Seq(Job)] /\ file' \in Seq(Job)
      /\ \A v \in Workers : DOMAIN jobs'[v] = DOMAIN jobs[v]
      /\ \A v \in Workers \ {w} : jobs'[v] = jobs[v]
      /\ jobs'[w][i] = Normalize(j)
  BY <1>1, <1>2, UpdateLemma DEF Inv, TypeOK
<1>5. TypeOK'
  BY <1>1, <1>4 DEF Inv, TypeOK, PCs, Locked
<1>6. pc'[h] = "refreshing"
  BY <1>1 DEF Inv, TypeOK
<1>7. IsOpen(jobs'[w][i]) /\ jobs'[w][i].ticker = req[h].t
  BY <1>2, <1>4, NormalizeLemma DEF OpenJobs
<1>8. i \in OpenJobs(w, req[h].t)'
  BY <1>1, <1>2, <1>4, <1>7 DEF OpenJobs, IsOpen
<1>9. Holds(h)' /\ Asked(h)' /\ Work(h)'
  <2>1. Holds(h) /\ Asked(h)
    BY DEF Inv
  <2> QED
    BY <1>1, <1>6, <1>8, <2>1 DEF Holds, Asked, Work, Locked, Attempting
<1>10. \A g \in Callers \ {h} :
         /\ pc'[g] = pc[g]
         /\ pc[g] \in Locked => jobs'[Home[g]] = jobs[Home[g]]
  <2> SUFFICES ASSUME NEW g \in Callers \ {h}, pc[g] \in Locked
               PROVE  jobs'[Home[g]] = jobs[Home[g]]
    BY <1>1 DEF Inv, TypeOK
  <2>1. Home[g] # w
    BY <1>1, Exclusion DEF Locked
  <2> QED
    BY <1>4, <2>1, ModelAssumption
<1> QED
  BY <1>1, <1>3, <1>5, <1>9, <1>10, StepFrame

\* What a refresh writes is a job of the same ticker.
LEMMA RefreshedLemma ==
    ASSUME NEW j \in Job, NEW e \in Exchanges
    PROVE  /\ Refreshed(j, e) \in Job /\ Refreshed(j, e).ticker = j.ticker
           /\ Unread(j, e) \in Job /\ Unread(j, e).ticker = j.ticker
<1>1. \A s, f : Classify(s, f) \in Status
  BY DEF Classify, Status, OpenStatus
<1>2. "closed" \in Status
  BY DEF Status, DeadStatus
<1>3. PICK st \in Status : Refreshed(j, e) = [j EXCEPT !.exit = e, !.status = st]
  BY <1>1, <1>2 DEF Refreshed
<1>4. Refreshed(j, e) \in Job /\ Refreshed(j, e).ticker = j.ticker
  BY <1>3 DEF Job
<1>5. PICK su \in Status : Unread(j, e) = [j EXCEPT !.exit = e, !.status = su]
  BY <1>1 DEF Unread
<1>6. Unread(j, e) \in Job /\ Unread(j, e).ticker = j.ticker
  BY <1>5 DEF Job
<1> QED
  BY <1>4, <1>6

\* The refreshed job is written, and the call returns.
LEMMA RefreshDoneInv ==
    ASSUME Inv, NEW h \in Callers, RefreshDone(h)
    PROVE  Inv'
<1> DEFINE w == Home[h]
           i == att[h].job
           j == jobs[w][i]
           e == ExitSpot(h, j)
           answer(new) == Answer(TRUE, "OK", IF req[h].op = "close" THEN j.status
                                             ELSE IF new.status = "closed" THEN "none"
                                             ELSE new.status)
<1>1. pc[h] = "refreshing" /\ mkt' = mkt
  BY DEF RefreshDone
<1>2. PICK new \in {Refreshed(j, e), Unread(j, e)} :
         UpdateJob(w, i, new) /\ Return(h, answer(new))
  BY DEF RefreshDone
<1>3. /\ w \in Workers /\ i \in DOMAIN jobs[w] /\ req[h] \in Request
      /\ j \in Job /\ j.ticker = req[h].t /\ OpenJobs(w, req[h].t) \subseteq {i}
  BY <1>1, HeldOpen
<1>4. e \in Exchanges
  BY <1>3 DEF ExitSpot, Request, Job
<1> HIDE DEF e
<1>5. new \in Job /\ new.ticker = j.ticker
  BY <1>3, <1>4, RefreshedLemma
<1>6. answer(new) \in Result
  <2>1. j.status \in Status /\ new.status \in Status
    BY <1>3, <1>5 DEF Job
  <2> QED
    BY <2>1, AnswerLemma DEF Codes
<1> HIDE DEF answer
<1> QED
  BY <1>1, <1>2, <1>3, <1>5, <1>6, WriteAndReturn DEF Locked

-----------------------------------------------------------------------------
(* The operator and the failures.                                            *)

\* A step that changes the venues only, or nothing.
LEMMA VenueInv ==
    ASSUME Inv, mkt' \in [Tickers -> Market],
           UNCHANGED <<up, lock, waiters, jobs, file, pc, req, att, res>>
    PROVE  Inv'
<1>1. TypeOK'
  BY DEF Inv, TypeOK
<1>2. OneOpenJob' /\ OneOpenIn(file)'
  BY OneOpenFrame DEF Inv
<1>3. \A h \in Callers : Holds(h)' /\ Asked(h)' /\ Work(h)'
  <2> SUFFICES ASSUME NEW h \in Callers PROVE Holds(h)' /\ Asked(h)' /\ Work(h)'
    OBVIOUS
  <2>1. Holds(h)'
    BY DEF Inv, Holds
  <2> QED
    BY <2>1, WorkFrame DEF Inv
<1> QED
  BY <1>1, <1>2, <1>3 DEF Inv

LEMMA OperatorInv ==
    ASSUME Inv, NEW t \in Tickers, NEW e \in OperatorAt, Operator(t, e)
    PROVE  Inv'
<1>1. e \in Exchanges /\ mkt[t] \in Market
  BY ModelAssumption DEF Inv, TypeOK
<1>2. UNCHANGED <<up, lock, waiters, jobs, file, pc, req, att, res>>
  BY DEF Operator, Withdraw, SellSpot, BuyBack, lockVars, storeVars
<1>3. CASE Withdraw(t, e)
  <2>1. PICK n \in 1..mkt[t].coin :
           mkt' = [mkt EXCEPT ![t].coin = @ - n, ![t].moved[e] = @ + n]
    BY <1>3 DEF Withdraw
  <2> DEFINE g == [mkt[t].moved EXCEPT ![e] = @ + n]
             c == mkt[t].coin - n
             m == [mkt[t] EXCEPT !.coin = c, !.moved = g]
  <2>2. mkt' = [mkt EXCEPT ![t] = m]
    BY <1>1, <2>1 DEF Inv, TypeOK, Market
  <2>3. g \in [Exchanges -> Nat] /\ c \in Int
    BY <1>1 DEF Market
  <2>4. m \in Market
    <3> HIDE DEF g, c
    <3> QED
      BY <1>1, <2>3 DEF Market
  <2> QED
    BY <1>2, <2>2, <2>4, MarketAfter, VenueInv
<1>4. CASE SellSpot(t, e)
  <2>1. PICK n \in 1..(mkt[t].moved[e] - mkt[t].sold[e]) :
           mkt' = [mkt EXCEPT ![t].sold[e] = @ + n]
    BY <1>4 DEF SellSpot
  <2> DEFINE g == [mkt[t].sold EXCEPT ![e] = @ + n]
             m == [mkt[t] EXCEPT !.sold = g]
  <2>2. mkt' = [mkt EXCEPT ![t] = m]
    BY <1>1, <2>1 DEF Inv, TypeOK, Market
  <2>3. n \in Nat
    BY <1>1 DEF Market
  <2>4. g \in [Exchanges -> Nat]
    BY <1>1, <2>3 DEF Market
  <2>5. m \in Market
    <3> HIDE DEF g
    <3> QED
      BY <1>1, <2>4 DEF Market
  <2> QED
    BY <1>2, <2>2, <2>5, MarketAfter, VenueInv
<1>5. CASE BuyBack(t, e)
  <2>1. PICK n \in 1..mkt[t].short[e] :
           mkt' = [mkt EXCEPT ![t].short[e] = @ - n, ![t].buys[e] = @ + n, ![t].closed[e] = @ + n]
    BY <1>5 DEF BuyBack
  <2> DEFINE s == [mkt[t].short EXCEPT ![e] = @ - n]
             b == [mkt[t].buys EXCEPT ![e] = @ + n]
             c == [mkt[t].closed EXCEPT ![e] = @ + n]
             m == [mkt[t] EXCEPT !.short = s, !.buys = b, !.closed = c]
  <2>2. mkt' = [mkt EXCEPT ![t] = m]
    BY <1>1, <2>1 DEF Inv, TypeOK, Market
  <2>3. s \in [Exchanges -> Int] /\ b \in [Exchanges -> Nat] /\ c \in [Exchanges -> Nat]
    BY <1>1 DEF Market
  <2>4. m \in Market
    <3> HIDE DEF s, b, c
    <3> QED
      BY <1>1, <2>3 DEF Market
  <2> QED
    BY <1>2, <2>2, <2>4, MarketAfter, VenueInv
<1> QED
  BY <1>3, <1>4, <1>5 DEF Operator

\* A process dies: none of its coroutines is left, the others are not touched.
LEMMA CrashInv ==
    ASSUME Inv, NEW w \in Workers, Crash(w)
    PROVE  Inv'
<1>1. TypeOK'
  <2>1. <<>> \in Seq(Callers) /\ <<>> \in Seq(Job)
    OBVIOUS
  <2>2. NoAttempt \in Attempt /\ NoResult \in Result
    BY DEF NoAttempt, Attempt, NoResult, Result, Codes, Messages, Order
  <2> QED
    BY <2>1, <2>2 DEF Crash, Inv, TypeOK, PCs
<1>2. jobs'[w] = <<>> /\ \A v \in Workers \ {w} : jobs'[v] = jobs[v]
  BY DEF Crash, Inv, TypeOK
<1>3. OneOpenIn(<<>>)
  BY DEF OneOpenIn
<1>4. OneOpenJob'
  BY <1>2, <1>3 DEF Inv, OneOpenJob
<1>5. OneOpenIn(file)'
  BY DEF Crash, Inv, OneOpenIn, IsOpen
<1>6. ASSUME NEW h \in Callers
      PROVE  Holds(h)' /\ Asked(h)' /\ Work(h)'
  <2>1. CASE Home[h] = w
    <3>1. pc'[h] = "idle" /\ att'[h].flight = {}
      BY <2>1 DEF Crash, Lost, NoAttempt
    <3> QED
      BY <3>1 DEF Holds, Asked, Work, Locked, Attempting
  <2>2. CASE Home[h] # w
    <3>1. pc'[h] = pc[h] /\ req'[h] = req[h] /\ att'[h] = att[h]
      BY <2>2 DEF Crash, Lost
    <3>2. /\ jobs'[Home[h]] = jobs[Home[h]] /\ lock'[Home[h]] = lock[Home[h]]
          /\ up'[Home[h]] = up[Home[h]]
      BY <2>2, ModelAssumption DEF Crash, Inv, TypeOK
    <3>3. Holds(h)'
      BY <3>1, <3>2 DEF Inv, Holds
    <3> QED
      BY <3>1, <3>2, <3>3, WorkFrame DEF Inv
  <2> QED
    BY <2>1, <2>2
<1> QED
  BY <1>1, <1>4, <1>5, <1>6 DEF Inv

\* What is loaded is a list of jobs with at most one open hedge a ticker, when
\* that is what was saved.
LEMMA LoadLemma ==
    ASSUME NEW items \in Seq(Job), OneOpenIn(items)
    PROVE  Load(items) \in Seq(Job) /\ OneOpenIn(Load(items))
<1>1. DOMAIN items = 1..Len(items) /\ Len(items) \in Nat
  OBVIOUS
<1>2. ASSUME NEW i \in 1..Len(items)
      PROVE  /\ Load(items)[i] \in Job
             /\ Load(items)[i].ticker = items[i].ticker
             /\ IsOpen(Load(items)[i]) => IsOpen(items[i])
  <2>1. items[i] \in Job
    BY <1>1
  <2>2. Load(items)[i] = Normalize(items[i])
    BY <1>1 DEF Load
  <2> QED
    BY <2>1, <2>2, NormalizeLemma
<1>3. DOMAIN Load(items) = 1..Len(items)
  BY <1>1 DEF Load
<1>4. Load(items) \in Seq(Job)
  <2>1. Load(items) = [i \in 1..Len(items) |-> Load(items)[i]]
    BY <1>1 DEF Load
  <2>2. Load(items) \in [1..Len(items) -> Job]
    BY <1>2, <2>1
  <2>3. \A n \in Nat : [1..n -> Job] \subseteq Seq(Job)
    OBVIOUS
  <2> QED
    BY <1>1, <2>2, <2>3
<1>5. OneOpenIn(Load(items))
  <2> SUFFICES ASSUME NEW i \in 1..Len(items), NEW k \in 1..Len(items),
                      IsOpen(Load(items)[i]), IsOpen(Load(items)[k]),
                      Load(items)[i].ticker = Load(items)[k].ticker
               PROVE  i = k
    BY <1>3 DEF OneOpenIn
  <2>1. IsOpen(items[i]) /\ IsOpen(items[k]) /\ items[i].ticker = items[k].ticker
    BY <1>2
  <2> QED
    BY <1>1, <2>1 DEF OneOpenIn
<1> QED
  BY <1>4, <1>5

\* A process starts again from the file: nobody is inside it yet.
LEMMA RestartInv ==
    ASSUME Inv, NEW w \in Workers, Restart(w)
    PROVE  Inv'
<1>1. file \in Seq(Job) /\ OneOpenIn(file)
  BY DEF Inv, TypeOK
<1>3. Load(file) \in Seq(Job)
  BY <1>1, LoadLemma
<1>4. OneOpenIn(Load(file))
  BY <1>1, LoadLemma
<1>5. jobs'[w] = Load(file) /\ \A v \in Workers \ {w} : jobs'[v] = jobs[v]
  BY DEF Restart, Inv, TypeOK
<1>6. TypeOK'
  BY <1>3 DEF Restart, Inv, TypeOK, lockVars
<1>7. OneOpenJob'
  BY <1>4, <1>5 DEF Inv, OneOpenJob
<1>8. OneOpenIn(file)'
  BY DEF Restart, Inv, OneOpenIn, IsOpen
<1>9. ASSUME NEW h \in Callers
      PROVE  Holds(h)' /\ Asked(h)' /\ Work(h)'
  <2>1. /\ pc'[h] = pc[h] /\ req'[h] = req[h] /\ att'[h] = att[h]
        /\ lock' = lock
    BY DEF Restart, lockVars
  <2>2. pc[h] # "idle" => up[Home[h]] /\ Home[h] # w
    BY DEF Inv, Holds, Restart
  <2>3. Holds(h)'
    BY <2>1, <2>2, ModelAssumption DEF Inv, TypeOK, Holds, Restart
  <2>4. pc[h] \in Locked => jobs'[Home[h]] = jobs[Home[h]]
    BY <1>5, <2>2, ModelAssumption DEF Locked
  <2> QED
    BY <2>1, <2>3, <2>4, WorkFrame DEF Inv
<1> QED
  BY <1>6, <1>7, <1>8, <1>9 DEF Inv

-----------------------------------------------------------------------------
(* The theorems.                                                             *)

LEMMA StepInv ==
    ASSUME Inv, NEW h \in Callers, Step(h)
    PROVE  Inv'
<1>1. CASE EnterStep(h)
  BY <1>1, EnterRefusedInv, EnterStartInv, EnterUnavailableInv, EnterSubmitInv,
     FillSpotBuyInv, FillFuturesSellInv, FillFuturesBuyInv, EnterFollowUpInv,
     FinalizeNewInv, FinalizeScaleInInv DEF EnterStep
<1>2. CASE CloseStep(h)
  BY <1>2, NoOpenJobInv, RefreshStartInv, CloseStartInv, FillFuturesCloseInv,
     CloseNotedInv, RefreshDoneInv DEF CloseStep
<1>3. CASE FillSpotSell(h)
  BY <1>3, FillSpotSellInv
<1> QED
  BY <1>1, <1>2, <1>3 DEF Step

LEMMA NextInv == Inv /\ [Next]_vars => Inv'
<1> SUFFICES ASSUME Inv, [Next]_vars PROVE Inv'
  OBVIOUS
<1>1. ASSUME NEW h \in Callers, Ask(h) PROVE Inv'
  BY <1>1, CallInv DEF Ask
<1>2. ASSUME NEW h \in Callers, Step(h) PROVE Inv'
  BY <1>2, StepInv
<1>3. ASSUME NEW h \in Callers, Take(h) PROVE Inv'
  BY <1>3, TakeInv
<1>4. ASSUME NEW t \in Tickers, NEW e \in OperatorAt, Operator(t, e) PROVE Inv'
  BY <1>4, OperatorInv
<1>5. ASSUME NEW w \in Workers, Crash(w) PROVE Inv'
  BY <1>5, CrashInv
<1>6. ASSUME NEW w \in Workers, Restart(w) PROVE Inv'
  BY <1>6, RestartInv
<1>7. CASE UNCHANGED vars
  BY <1>7, VenueInv DEF vars, Inv, TypeOK
<1> QED
  BY <1>1, <1>2, <1>3, <1>4, <1>5, <1>6, <1>7 DEF Next

\* Between its awaits a handler of the service relies on what it read of the
\* store, for any number of processes, callers, tickers and exchanges, with
\* crashes and truncated saves.
THEOREM InvHolds == Spec => []Inv
BY InitInv, NextInv, PTL DEF Spec

\* The state of the service, its store and the venues keeps its type.
THEOREM TypeCorrect == Spec => []TypeOK
<1>1. Inv => TypeOK
  BY DEF Inv
<1> QED
  BY <1>1, InvHolds, PTL

\* No store ever holds two open hedges of one ticker.
THEOREM OneOpenJobHolds == Spec => []OneOpenJob
<1>1. Inv => OneOpenJob
  BY DEF Inv
<1> QED
  BY <1>1, InvHolds, PTL

-----------------------------------------------------------------------------
(* A ticker is shorted on the exchange it is hedged on, and on no other.     *)

\* Taking, releasing or awaiting the lock, and writing the store, send no order.
LEMMA VenuesLeft ==
    ASSUME NEW h \in Callers,
           \/ Ask(h) \/ Take(h) \/ EnterRefused(h) \/ EnterStart(h) \/ EnterUnavailable(h)
           \/ EnterSubmit(h) \/ EnterFollowUp(h) \/ FinalizeNew(h) \/ FinalizeScaleIn(h)
           \/ NoOpenJob(h) \/ RefreshStart(h) \/ CloseStart(h) \/ CloseNoted(h) \/ RefreshDone(h)
    PROVE  mkt' = mkt
<1>1. CASE Ask(h) \/ Take(h) \/ EnterRefused(h) \/ EnterStart(h) \/ EnterUnavailable(h)
  BY <1>1 DEF Ask, Call, Take, EnterRefused, Refuse, EnterStart, EnterUnavailable
<1>2. CASE EnterSubmit(h) \/ EnterFollowUp(h) \/ FinalizeNew(h) \/ FinalizeScaleIn(h)
  BY <1>2 DEF EnterSubmit, EnterFollowUp, FinalizeNew, FinalizeScaleIn
<1>3. CASE NoOpenJob(h) \/ RefreshStart(h) \/ CloseStart(h) \/ CloseNoted(h) \/ RefreshDone(h)
  BY <1>3 DEF NoOpenJob, Refuse, RefreshStart, CloseStart, CloseNoted, RefreshDone
<1> QED
  BY <1>1, <1>2, <1>3

\* No spot fill and no futures buy enlarges a short.
LEMMA NoneShorted ==
    ASSUME Inv, NEW h \in Callers, NEW t \in Tickers, NEW e \in Exchanges,
           FillSpotBuy(h) \/ FillSpotSell(h) \/ FillFuturesBuy(h) \/ FillFuturesClose(h)
    PROVE  mkt'[t].short[e] <= mkt[t].short[e]
<1>1. mkt[t] \in Market /\ mkt[t].short[e] \in Int
  BY DEF Inv, TypeOK, Market
<1>2. CASE FillSpotBuy(h)
  <2>1. PICK n : mkt' = [mkt EXCEPT ![req[h].t].coin = @ + n]
    BY <1>2 DEF FillSpotBuy
  <2>2. mkt'[t].short = mkt[t].short
    BY <2>1, <1>1 DEF Inv, TypeOK, Market
  <2> QED
    BY <1>1, <2>2
<1>3. CASE FillSpotSell(h)
  <2>1. PICK n : mkt' = [mkt EXCEPT ![req[h].t].coin = @ - n,
                            ![req[h].t].coinClosed = IF pc[h] = "closing" THEN @ + n ELSE @]
    BY <1>3 DEF FillSpotSell
  <2>2. mkt'[t].short = mkt[t].short
    BY <2>1, <1>1 DEF Inv, TypeOK, Market
  <2> QED
    BY <1>1, <2>2
<1>4. CASE FillFuturesBuy(h)
  <2>1. PICK o \in att[h].flight :
           \E n \in 0..o.qty :
              mkt' = [mkt EXCEPT ![req[h].t].short[req[h].ex] = @ - n,
                                 ![req[h].t].buys[req[h].ex] = @ + n]
    BY <1>4 DEF FillFuturesBuy
  <2>2. PICK n \in 0..o.qty :
              mkt' = [mkt EXCEPT ![req[h].t].short[req[h].ex] = @ - n,
                                 ![req[h].t].buys[req[h].ex] = @ + n]
    BY <2>1
  <2>3. n \in Nat
    BY InFlight
  <2>4. mkt'[t].short[e] = mkt[t].short[e] \/ mkt'[t].short[e] = mkt[t].short[e] - n
    BY <1>1, <2>2 DEF Inv, TypeOK, Market
  <2> QED
    BY <1>1, <2>3, <2>4
<1>5. CASE FillFuturesClose(h)
  <2>0. PICK x : x = jobs[Home[h]][att[h].job].ex
    OBVIOUS
  <2>1. \E o \in att[h].flight : \E n \in 0..Least(o.qty, AtLeast0(mkt[req[h].t].short[x])) :
              mkt' = [mkt EXCEPT ![req[h].t].short[x] = @ - n,
                                 ![req[h].t].buys[x] = @ + n,
                                 ![req[h].t].closed[x] = @ + n]
    BY <1>5, <2>0 DEF FillFuturesClose
  <2>2. PICK o \in att[h].flight : \E n \in 0..Least(o.qty, AtLeast0(mkt[req[h].t].short[x])) :
              mkt' = [mkt EXCEPT ![req[h].t].short[x] = @ - n,
                                 ![req[h].t].buys[x] = @ + n,
                                 ![req[h].t].closed[x] = @ + n]
    BY <2>1
  <2>3. PICK n \in 0..Least(o.qty, AtLeast0(mkt[req[h].t].short[x])) :
              mkt' = [mkt EXCEPT ![req[h].t].short[x] = @ - n,
                                 ![req[h].t].buys[x] = @ + n,
                                 ![req[h].t].closed[x] = @ + n]
    BY <2>2
  <2>4. n >= 0 /\ n \in Int
    OBVIOUS
  <2>5. mkt'[t].short[e] = mkt[t].short[e] \/ mkt'[t].short[e] = mkt[t].short[e] - n
    BY <1>1, <2>3 DEF Inv, TypeOK, Market
  <2> QED
    BY <1>1, <2>4, <2>5
<1> QED
  BY <1>2, <1>3, <1>4, <1>5

\* A futures sell enlarges the short its caller asked for, and no other.
LEMMA ShortedAsAsked ==
    ASSUME Inv, NEW h \in Callers, FillFuturesSell(h), NEW t \in Tickers, NEW e \in Exchanges,
           mkt'[t].short[e] # mkt[t].short[e]
    PROVE  t = req[h].t /\ e = req[h].ex /\ pc[h] \in Attempting
<1>1. PICK n : mkt' = [mkt EXCEPT ![req[h].t].short[req[h].ex] = @ + n]
  BY DEF FillFuturesSell
<1>2. mkt[t] \in Market
  BY DEF Inv, TypeOK
<1>3. t = req[h].t /\ e = req[h].ex
  BY <1>1, <1>2 DEF Inv, TypeOK, Market
<1> QED
  BY <1>3, FillFuturesSellInv

\* With one process, a short is enlarged on the exchange of the ticker's hedge only.
LEMMA StepStaysPut ==
    ASSUME Inv, NEW v, Workers = {v}, [Next]_vars, NEW w \in Workers,
           NEW t \in Tickers, NEW e \in Exchanges,
           LatestOpen(w, t) # 0, jobs[w][LatestOpen(w, t)].ex # e
    PROVE  mkt'[t].short[e] <= mkt[t].short[e]
<1>1. mkt[t] \in Market /\ mkt[t].short[e] \in Int
  BY DEF Inv, TypeOK, Market
<1>2. ASSUME mkt' = mkt PROVE mkt'[t].short[e] <= mkt[t].short[e]
  BY <1>1, <1>2
<1>3. ASSUME NEW h \in Callers, FillFuturesSell(h)
      PROVE  mkt'[t].short[e] = mkt[t].short[e]
  <2> SUFFICES ASSUME mkt'[t].short[e] # mkt[t].short[e] PROVE FALSE
    OBVIOUS
  <2>1. t = req[h].t /\ e = req[h].ex /\ pc[h] \in Attempting
    BY <1>3, ShortedAsAsked
  <2>2. Home[h] = w
    BY ModelAssumption
  <2>3. LatestOpen(w, t) \in OpenJobs(w, t)
    BY LatestOpenLemma DEF Inv, TypeOK
  <2>4. att[h].job \in OpenJobs(w, t) /\ jobs[w][att[h].job].ex = e
    BY <2>1, <2>2, <2>3 DEF Inv, Work
  <2>5. att[h].job = LatestOpen(w, t)
    BY <2>4, LatestOpenLemma DEF Inv, TypeOK
  <2> QED
    BY <2>4, <2>5
<1>4. ASSUME NEW h \in Callers, Ask(h) \/ Step(h) \/ Take(h)
      PROVE  mkt'[t].short[e] <= mkt[t].short[e]
  <2>1. CASE FillFuturesSell(h)
    BY <1>1, <1>3, <2>1
  <2>2. CASE FillSpotBuy(h) \/ FillSpotSell(h) \/ FillFuturesBuy(h) \/ FillFuturesClose(h)
    BY <2>2, NoneShorted
  <2>3. CASE /\ ~FillFuturesSell(h)
             /\ ~(FillSpotBuy(h) \/ FillSpotSell(h) \/ FillFuturesBuy(h) \/ FillFuturesClose(h))
    <3>1. mkt' = mkt
      BY <1>4, <2>3, VenuesLeft DEF Step, EnterStep, CloseStep
    <3> QED
      BY <1>2, <3>1
  <2> QED
    BY <2>1, <2>2, <2>3
<1>5. ASSUME NEW u \in Tickers, NEW x \in OperatorAt, Operator(u, x)
      PROVE  mkt'[t].short[e] <= mkt[t].short[e]
  <2>1. CASE Withdraw(u, x)
    <3>1. PICK n : mkt' = [mkt EXCEPT ![u].coin = @ - n, ![u].moved[x] = @ + n]
      BY <2>1 DEF Withdraw
    <3>2. mkt'[t].short = mkt[t].short
      BY <1>1, <3>1 DEF Inv, TypeOK, Market
    <3> QED
      BY <1>1, <3>2
  <2>3. CASE SellSpot(u, x)
    <3>1. PICK n : mkt' = [mkt EXCEPT ![u].sold[x] = @ + n]
      BY <2>3 DEF SellSpot
    <3>2. mkt'[t].short = mkt[t].short
      BY <1>1, <3>1 DEF Inv, TypeOK, Market
    <3> QED
      BY <1>1, <3>2
  <2>2. CASE BuyBack(u, x)
    <3>1. PICK n \in 1..mkt[u].short[x] :
             mkt' = [mkt EXCEPT ![u].short[x] = @ - n, ![u].buys[x] = @ + n, ![u].closed[x] = @ + n]
      BY <2>2 DEF BuyBack
    <3>2. n >= 0 /\ n \in Int
      OBVIOUS
    <3>3. mkt'[t].short[e] = mkt[t].short[e] \/ mkt'[t].short[e] = mkt[t].short[e] - n
      BY <1>1, <3>1 DEF Inv, TypeOK, Market
    <3> QED
      BY <1>1, <3>2, <3>3
  <2> QED
    BY <1>5, <2>1, <2>2, <2>3 DEF Operator
<1>6. ASSUME NEW u \in Workers, Crash(u) \/ Restart(u)
      PROVE  mkt'[t].short[e] <= mkt[t].short[e]
  BY <1>2, <1>6 DEF Crash, Restart
<1>7. CASE UNCHANGED vars
  BY <1>2, <1>7 DEF vars
<1> QED
  BY <1>4, <1>5, <1>6, <1>7 DEF Next

\* ACTIVE_HEDGE_EXISTS keeps a hedge on its exchange when one process serves every
\* call.  (With two it does not: run workers.)
THEOREM HedgeStaysPutAlone ==
    ASSUME NEW v, Workers = {v}
    PROVE  Spec => HedgeStaysPut
<1>1. Inv /\ [Next]_vars =>
        [\A w \in Workers, t \in Tickers : \A e \in Exchanges :
            (LatestOpen(w, t) # 0 /\ jobs[w][LatestOpen(w, t)].ex # e)
                => mkt'[t].short[e] <= mkt[t].short[e]]_vars
  BY StepStaysPut
<1> QED
  BY <1>1, InvHolds, PTL DEF Spec, HedgeStaysPut
-----------------------------------------------------------------------------
(* What an attempt believes of its orders is what it records.                *)

\* A coroutine that is not between the prices and the end of an attempt believes
\* nothing.
LEMMA NoFigures ==
    ASSUME NEW h \in Callers, pc'[h] \notin {"pricing"} \cup Attempting
    PROVE  Figures(h)' /\ Requested(h)'
BY DEF Figures, Requested, Attempting

\* Nor does a step of another coroutine change what it believes.
LEMMA SameFigures ==
    ASSUME NEW g \in Callers, Figures(g), Requested(g), pc'[g] = pc[g], att'[g] = att[g],
           pc[g] \in Attempting => jobs'[Home[g]] = jobs[Home[g]]
    PROVE  Figures(g)' /\ Requested(g)'
<1>1. Figures(g)'
  BY DEF Figures, BothFilled
<1>2. Requested(g)'
  BY DEF Requested
<1> QED
  BY <1>1, <1>2

\* The orders in flight, when one of them is answered.
LEMMA AnswerMeans ==
    ASSUME Inv, NEW h \in Callers, NEW o \in att[h].flight, NEW b \in Attempt,
           Answered(h, o, b), b.flight = att[h].flight, b.job = att[h].job,
           b.fresh = att[h].fresh
    PROVE  /\ att'[h].flight = att[h].flight \ {o}
           /\ att'[h].spot = b.spot /\ att'[h].fut = b.fut /\ att'[h].undone = b.undone
           /\ att'[h].netS = b.netS /\ att'[h].netF = b.netF
           /\ att'[h].job = att[h].job /\ att'[h].fresh = att[h].fresh
           /\ pc' = pc /\ jobs' = jobs
           /\ \A g \in Callers \ {h} : att'[g] = att[g]
<1>1. att' = [att EXCEPT ![h] = [b EXCEPT !.flight = att[h].flight \ {o}]] /\ pc' = pc /\ jobs' = jobs
  BY DEF Answered, storeVars
<1>2. att'[h] = [b EXCEPT !.flight = att[h].flight \ {o}]
  BY <1>1 DEF Inv, TypeOK
<1> QED
  BY <1>1, <1>2 DEF Inv, TypeOK, Attempt

\* A fill of the Bithumb buy.
LEMMA FillSpotBuyFigures ==
    ASSUME Inv, NEW h \in Callers, Figures(h), FillSpotBuy(h)
    PROVE  Figures(h)'
<1>1. PICK o \in att[h].flight :
         /\ o.leg = "spot" /\ o.side = "buy"
         /\ \E filled \in 0..(o.qty + Slip) : \E seen \in Reported(filled) :
               Answered(h, o, [att[h] EXCEPT !.spot = seen, !.netS = seen])
  BY DEF FillSpotBuy
<1>2. PICK filled \in 0..(o.qty + Slip) : \E seen \in Reported(filled) :
               Answered(h, o, [att[h] EXCEPT !.spot = seen, !.netS = seen])
  BY <1>1
<1>3. PICK seen \in Reported(filled) :
               Answered(h, o, [att[h] EXCEPT !.spot = seen, !.netS = seen])
  BY <1>2
<1>4. seen \in Nat /\ att[h] \in Attempt
  BY InFlight, ReportedNat, ModelAssumption
<1> DEFINE b == [att[h] EXCEPT !.spot = seen, !.netS = seen]
<1>5. /\ b \in Attempt /\ b.flight = att[h].flight /\ b.job = att[h].job /\ b.fresh = att[h].fresh
      /\ b.spot = seen /\ b.netS = seen /\ b.fut = att[h].fut /\ b.netF = att[h].netF
      /\ b.undone = att[h].undone
  BY <1>4, AttemptFields DEF Attempt
<1>6. Answered(h, o, b)
  BY <1>3
<1> HIDE DEF b
<1>7. /\ att'[h].flight = att[h].flight \ {o} /\ pc' = pc
      /\ att'[h].spot = seen /\ att'[h].netS = seen /\ att'[h].fut = att[h].fut
      /\ att'[h].netF = att[h].netF /\ att'[h].undone = att[h].undone
  BY <1>5, <1>6, AnswerMeans
<1>8. pc[h] \notin {"undoing", "adjusting", "pricing"}
  BY <1>1, InFlight DEF Figures, Attempting
<1> QED
  BY <1>7, <1>8 DEF Figures

\* The rollback of the Bithumb leg.
LEMMA FillSpotSellFigures ==
    ASSUME Inv, NEW h \in Callers, Figures(h), FillSpotSell(h)
    PROVE  Figures(h)'
<1> DEFINE after(seen) == IF pc[h] = "closing" THEN att[h]
                          ELSE [att[h] EXCEPT !.undone = seen, !.netS = NetAfter(@, seen)]
<1>1. PICK o \in att[h].flight :
         /\ o.leg = "spot" /\ o.side = "sell"
         /\ \E filled \in 0..Least(o.qty, AtLeast0(mkt[req[h].t].coin)) : \E seen \in Reported(filled) :
               Answered(h, o, after(seen))
  BY DEF FillSpotSell
<1>2. PICK filled \in 0..Least(o.qty, AtLeast0(mkt[req[h].t].coin)) : \E seen \in Reported(filled) :
               Answered(h, o, after(seen))
  BY <1>1
<1>3. PICK seen \in Reported(filled) : Answered(h, o, after(seen))
  BY <1>2
<1>4. seen \in Nat /\ att[h] \in Attempt /\ pc[h] \in Attempting \cup {"closing"}
  BY InFlight, ReportedNat DEF Least, AtLeast0, Market
<1>5. pc[h] \notin {"entering", "adjusting"} /\ pc' = pc
  BY <1>1, <1>3 DEF Figures, Answered
<1>6. CASE pc[h] = "closing"
  BY <1>5, <1>6 DEF Figures
<1>7. CASE pc[h] = "undoing"
  <2> DEFINE b == [att[h] EXCEPT !.undone = seen, !.netS = NetAfter(@, seen)]
  <2>1. b \in Attempt /\ b.flight = att[h].flight /\ b.job = att[h].job /\ b.fresh = att[h].fresh
        /\ b.undone = seen /\ b.netS = NetAfter(att[h].netS, seen) /\ b.spot = att[h].spot
        /\ b.fut = att[h].fut /\ b.netF = att[h].netF
    BY <1>4, AttemptFields DEF Attempt
  <2>2. Answered(h, o, b)
    BY <1>3, <1>7
  <2> HIDE DEF b
  <2>3. /\ att'[h].flight = att[h].flight \ {o}
        /\ att'[h].spot = att[h].spot /\ att'[h].fut = att[h].fut /\ att'[h].undone = seen
        /\ att'[h].netS = NetAfter(att[h].netS, seen) /\ att'[h].netF = att[h].netF
    BY <2>1, <2>2, AnswerMeans
  <2>4. att[h].spot \in Nat /\ att[h].fut \in Nat /\ att[h].netS \in Nat
    BY <1>4 DEF Attempt
  <2>5. att[h].flight = {o} /\ att[h].spot > 0
    BY <1>1, <1>7, <2>4 DEF Figures
  <2>6. att[h].fut = 0 /\ att[h].netS = att[h].spot /\ att[h].netF = 0
    BY <1>1, <1>7, <2>4, <2>5 DEF Figures, BothFilled
  <2>7. seen >= att[h].spot => NetAfter(att[h].netS, seen) = 0
    BY <1>4, <2>4, <2>6 DEF NetAfter, Least
  <2> QED
    BY <1>5, <1>7, <2>3, <2>4, <2>5, <2>6, <2>7 DEF Figures, BothFilled
<1> QED
  BY <1>4, <1>5, <1>6, <1>7 DEF Attempting

\* The short of the entry, or what enlarges it.
LEMMA FillFuturesSellFigures ==
    ASSUME Inv, NEW h \in Callers, Figures(h), FillFuturesSell(h)
    PROVE  Figures(h)'
<1> DEFINE after(seen) == IF pc[h] = "entering"
                          THEN [att[h] EXCEPT !.fut = seen, !.netF = seen]
                          ELSE [att[h] EXCEPT !.netF = @ + seen]
<1>1. PICK o \in att[h].flight :
         /\ o.leg = "futures" /\ o.side = "sell"
         /\ \E filled \in 0..o.qty : \E seen \in Reported(filled) : Answered(h, o, after(seen))
  BY DEF FillFuturesSell
<1>2. PICK filled \in 0..o.qty : \E seen \in Reported(filled) : Answered(h, o, after(seen))
  BY <1>1
<1>3. PICK seen \in Reported(filled) : Answered(h, o, after(seen))
  BY <1>2
<1>4. seen \in Nat /\ att[h] \in Attempt /\ pc[h] \in Attempting
  BY <1>1, InFlight, ReportedNat DEF Inv, Asked
<1>5. pc[h] # "undoing"
  BY <1>1 DEF Figures
<1>6. CASE pc[h] = "entering"
  <2> DEFINE b == [att[h] EXCEPT !.fut = seen, !.netF = seen]
  <2>1. b \in Attempt /\ b.flight = att[h].flight /\ b.job = att[h].job /\ b.fresh = att[h].fresh
        /\ b.fut = seen /\ b.netF = seen /\ b.spot = att[h].spot /\ b.undone = att[h].undone
        /\ b.netS = att[h].netS
    BY <1>4, AttemptFields DEF Attempt
  <2>2. Answered(h, o, b)
    BY <1>3, <1>6
  <2> HIDE DEF b
  <2>3. /\ att'[h].flight = att[h].flight \ {o} /\ pc' = pc
        /\ att'[h].spot = att[h].spot /\ att'[h].fut = seen /\ att'[h].undone = att[h].undone
        /\ att'[h].netS = att[h].netS /\ att'[h].netF = seen
    BY <2>1, <2>2, AnswerMeans
  <2> QED
    BY <1>6, <2>3 DEF Figures
<1>7. CASE pc[h] = "adjusting"
  <2> DEFINE b == [att[h] EXCEPT !.netF = @ + seen]
  <2>1. b \in Attempt /\ b.flight = att[h].flight /\ b.job = att[h].job /\ b.fresh = att[h].fresh
        /\ b.fut = att[h].fut /\ b.netF = att[h].netF + seen /\ b.spot = att[h].spot
        /\ b.undone = att[h].undone /\ b.netS = att[h].netS
    BY <1>4, AttemptFields DEF Attempt
  <2>2. Answered(h, o, b)
    BY <1>3, <1>7
  <2> HIDE DEF b
  <2>3. /\ att'[h].flight = att[h].flight \ {o} /\ pc' = pc
        /\ att'[h].spot = att[h].spot /\ att'[h].fut = att[h].fut
        /\ att'[h].netS = att[h].netS /\ att'[h].netF = att[h].netF + seen
    BY <2>1, <2>2, AnswerMeans
  <2>4. att[h].netF \in Nat /\ att[h].netF > 0 /\ att[h].flight = {o}
    BY <1>1, <1>4, <1>7 DEF Figures, Attempt
  <2>5. att[h].netF + seen > 0
    BY <1>4, <2>4
  <2> QED
    BY <1>7, <2>3, <2>4, <2>5 DEF Figures, BothFilled
<1> QED
  BY <1>4, <1>5, <1>6, <1>7 DEF Attempting

\* The rollback of the short, or what reduces it.
LEMMA FillFuturesBuyFigures ==
    ASSUME Inv, NEW h \in Callers, Figures(h), FillFuturesBuy(h)
    PROVE  Figures(h)'
<1> DEFINE b(seen) == [att[h] EXCEPT !.undone = seen, !.netF = NetAfter(@, seen)]
<1>1. PICK o \in att[h].flight :
         /\ o.leg = "futures" /\ o.side = "buy"
         /\ \E filled \in 0..o.qty : \E seen \in Reported(filled) : Answered(h, o, b(seen))
  BY DEF FillFuturesBuy
<1>2. PICK filled \in 0..o.qty : \E seen \in Reported(filled) : Answered(h, o, b(seen))
  BY <1>1
<1>3. PICK seen \in Reported(filled) : Answered(h, o, b(seen))
  BY <1>2
<1>4. /\ seen \in Nat /\ att[h] \in Attempt /\ pc[h] \in Attempting /\ o.qty \in Nat
      /\ filled \in Nat
  BY InFlight, ReportedNat DEF FillFuturesBuy
<1>5. pc[h] # "entering" /\ seen <= o.qty
  BY <1>1, <1>4 DEF Figures, Reported
<1>6. /\ b(seen) \in Attempt /\ b(seen).flight = att[h].flight /\ b(seen).job = att[h].job
      /\ b(seen).fresh = att[h].fresh
      /\ b(seen).undone = seen /\ b(seen).netF = NetAfter(att[h].netF, seen)
      /\ b(seen).spot = att[h].spot /\ b(seen).fut = att[h].fut /\ b(seen).netS = att[h].netS
  BY <1>4, AttemptFields DEF Attempt
<1> HIDE DEF b
<1>7. /\ att'[h].flight = att[h].flight \ {o} /\ pc' = pc
      /\ att'[h].spot = att[h].spot /\ att'[h].fut = att[h].fut /\ att'[h].undone = seen
      /\ att'[h].netS = att[h].netS /\ att'[h].netF = NetAfter(att[h].netF, seen)
  BY <1>3, <1>6, AnswerMeans
<1>8. att[h].spot \in Nat /\ att[h].fut \in Nat /\ att[h].netS \in Nat /\ att[h].netF \in Nat
  BY <1>4 DEF Attempt
<1>9. CASE pc[h] = "undoing"
  <2>1. att[h].flight = {o} /\ att[h].spot = 0 /\ att[h].netF = att[h].fut /\ att[h].netS = 0
    BY <1>1, <1>8, <1>9 DEF Figures
  <2>2. seen >= att[h].fut => NetAfter(att[h].netF, seen) = 0
    BY <1>4, <1>8, <2>1 DEF NetAfter, Least
  <2> QED
    BY <1>7, <1>8, <1>9, <2>1, <2>2 DEF Figures, BothFilled
<1>10. CASE pc[h] = "adjusting"
  <2>1. att[h].flight = {o} /\ att[h].netF > o.qty
    BY <1>1, <1>10 DEF Figures
  <2>2. NetAfter(att[h].netF, seen) > 0
    BY <1>4, <1>5, <1>8, <2>1 DEF NetAfter, Least
  <2> QED
    BY <1>7, <1>8, <1>10, <2>1, <2>2 DEF Figures, BothFilled
<1> QED
  BY <1>4, <1>5, <1>9, <1>10 DEF Attempting

\* The rollback or the adjustment is sent.
LEMMA FollowUpFigures ==
    ASSUME Inv, NEW h \in Callers, Figures(h), EnterFollowUp(h)
    PROVE  Figures(h)'
<1> DEFINE a == att[h]
           next == IF a.spot > 0 /\ a.fut > 0 THEN "adjusting" ELSE "undoing"
<1>1. /\ pc[h] = "entering" /\ FollowUp(a) # {}
      /\ pc' = [pc EXCEPT ![h] = next]
      /\ att' = [att EXCEPT ![h] = [att[h] EXCEPT !.flight = FollowUp(a)]]
  BY DEF EnterFollowUp
<1>2. a \in Attempt /\ a.spot \in Nat /\ a.fut \in Nat /\ pc'[h] = next
  BY <1>1 DEF Inv, TypeOK, Attempt
<1>3. /\ att'[h].flight = FollowUp(a) /\ att'[h].spot = a.spot /\ att'[h].fut = a.fut
      /\ att'[h].netS = a.spot /\ att'[h].netF = a.fut /\ att'[h].undone = 0
  BY <1>1, <1>2 DEF Inv, TypeOK, Attempt, Figures
<1>4. CASE a.spot > 0 /\ a.fut = 0
  <2>1. FollowUp(a) = {SpotOrder("sell", a.spot)}
    BY <1>1, <1>2, <1>4 DEF FollowUp, Orders
  <2> QED
    BY <1>2, <1>3, <1>4, <2>1 DEF Figures, SpotOrder, BothFilled
<1>5. CASE a.fut > 0 /\ a.spot = 0
  <2>1. FollowUp(a) = {FuturesOrder("buy", NormalizeFutures(a.fut))}
    BY <1>1, <1>2, <1>5 DEF FollowUp, Orders
  <2> QED
    BY <1>2, <1>3, <1>5, <2>1 DEF Figures, FuturesOrder, BothFilled
<1>6. CASE a.spot > a.fut /\ a.fut > 0
  <2>1. FollowUp(a) = {FuturesOrder("sell", NormalizeFutures(a.spot - a.fut))}
    BY <1>1, <1>2, <1>6 DEF FollowUp, Orders
  <2> QED
    BY <1>2, <1>3, <1>6, <2>1 DEF Figures, FuturesOrder, BothFilled
<1>7. CASE a.fut > a.spot /\ a.spot > 0
  <2>1. FollowUp(a) = {FuturesOrder("buy", NormalizeFutures(a.fut - a.spot))}
    BY <1>1, <1>2, <1>7 DEF FollowUp, Orders
  <2>2. PICK n : n = NormalizeFutures(a.fut - a.spot)
    OBVIOUS
  <2>3. a.fut > n
    BY <1>2, <1>7, <2>2 DEF NormalizeFutures
  <2> QED
    BY <1>2, <1>3, <1>7, <2>1, <2>2, <2>3 DEF Figures, FuturesOrder, BothFilled
<1>8. CASE a.spot = a.fut
  <2>1. FollowUp(a) = {}
    BY <1>2, <1>8 DEF FollowUp
  <2> QED
    BY <1>1, <2>1
<1> QED
  BY <1>2, <1>4, <1>5, <1>6, <1>7, <1>8
-----------------------------------------------------------------------------
(* What a step writes in the store: nothing, a job that waits for its result, *)
(* or the result of the one job that is open, or waits, of its ticker.        *)

Records(w, i, j) ==
    /\ UpdateJob(w, i, j)
    /\ j.ticker = jobs[w][i].ticker /\ j.ex = jobs[w][i].ex
    /\ \/ i \in OpenJobs(w, j.ticker)
       \/ jobs[w][i].status = "requested" /\ OpenJobs(w, j.ticker) = {}
    /\ j.status = "rolled_back" => j.legS = 0 /\ j.legF = 0

Creates(w, j) == j.status = "requested" /\ CreateJob(w, j)

StoreMove(w) ==
    \/ UNCHANGED storeVars
    \/ up[w] /\ \E j \in Job : Creates(w, j)
    \/ up[w] /\ \E i \in DOMAIN jobs[w], j \in Job : Records(w, i, j)

\* What an attempt's status says of its legs.
LEMMA StatusMeans ==
    ASSUME Inv, NEW h \in Callers, Figures(h), AttemptOver(h)
    PROVE  /\ AttemptStatus(att[h]) = "rolled_back" => att[h].netS = 0 /\ att[h].netF = 0
           /\ BothFilled(att[h]) => att[h].netS > 0 /\ att[h].netF > 0
<1> DEFINE a == att[h]
<1>1. /\ a \in Attempt /\ a.spot \in Nat /\ a.fut \in Nat /\ a.undone \in Nat
      /\ a.netS \in Nat /\ a.netF \in Nat
  BY DEF Inv, TypeOK, Attempt
<1>2. BothFilled(a) <=> a.spot > 0 /\ a.fut > 0
  BY DEF BothFilled
<1>3. AttemptStatus(a) = "rolled_back" =>
         a.spot + a.fut > 0 /\ ~BothFilled(a) /\ a.undone >= a.spot + a.fut
  <2>1. CASE a.spot = 0 /\ a.fut = 0
    BY <1>1, <1>2, <2>1 DEF AttemptStatus
  <2>2. CASE BothFilled(a)
    BY <1>1, <1>2, <2>2 DEF AttemptStatus, Classify
  <2>3. CASE ~(a.spot = 0 /\ a.fut = 0) /\ ~BothFilled(a)
    <3>1. AttemptStatus(a) = IF a.undone >= a.spot + a.fut THEN "rolled_back" ELSE "rollback_failed"
      BY <2>3 DEF AttemptStatus
    <3>2. a.spot + a.fut > 0
      BY <1>1, <2>3
    <3> QED
      BY <2>3, <3>1, <3>2
  <2> QED
    BY <2>1, <2>2, <2>3
<1>4. pc[h] \in Attempting
  BY DEF AttemptOver, Attempting
<1>5. CASE pc[h] = "entering"
  BY <1>1, <1>2, <1>3, <1>5 DEF Figures
<1>6. CASE pc[h] = "undoing"
  BY <1>1, <1>2, <1>3, <1>6 DEF Figures
<1>7. CASE pc[h] = "adjusting"
  BY <1>1, <1>2, <1>3, <1>7 DEF Figures
<1> QED
  BY <1>4, <1>5, <1>6, <1>7 DEF Attempting

\* A new entry is recorded in the job it created.
LEMMA FinalizeNewRecords ==
    ASSUME Inv, FillInv, NEW h \in Callers, FinalizeNew(h)
    PROVE  \E i \in DOMAIN jobs[Home[h]], j \in Job : Records(Home[h], i, j)
<1> DEFINE w == Home[h]
           a == att[h]
           i == a.job
           ok == BothFilled(a)
           qS == IF ok THEN a.netS ELSE 0
           qF == IF ok THEN a.netF ELSE 0
           final == [jobs[w][i] EXCEPT
                        !.status = AttemptStatus(a), !.qtyS = qS, !.qtyF = qF,
                        !.legS = a.netS, !.legF = a.netF, !.exit = req[h].ex]
<1>1. a.fresh /\ AttemptOver(h) /\ UpdateJob(w, i, final)
  BY DEF FinalizeNew
<1>2. /\ i \in DOMAIN jobs[w] /\ jobs[w][i] \in Job /\ w \in Workers /\ a \in Attempt
      /\ jobs[w][i].ticker = req[h].t /\ req[h].ex \in Exchanges
      /\ OpenJobs(w, req[h].t) = {} /\ pc[h] \in Attempting
  BY <1>1, OverLemma
<1>3. AttemptStatus(a) \in Status
  BY <1>2, AttemptLemma
<1>4. a.netS \in Nat /\ a.netF \in Nat /\ qS \in Nat /\ qF \in Nat
  BY <1>2 DEF Attempt
<1> HIDE DEF qS, qF
<1>5. /\ final \in Job /\ final.ticker = jobs[w][i].ticker /\ final.ex = jobs[w][i].ex
      /\ final.status = AttemptStatus(a) /\ final.legS = a.netS /\ final.legF = a.netF
  BY <1>2, <1>3, <1>4 DEF Job
<1> HIDE DEF final
<1>6. jobs[w][i].status = "requested"
  BY <1>1, <1>2 DEF FillInv, Requested
<1>7. final.status = "rolled_back" => final.legS = 0 /\ final.legF = 0
  BY <1>1, <1>5, StatusMeans DEF FillInv
<1>8. Records(w, i, final)
  BY <1>1, <1>2, <1>5, <1>6, <1>7 DEF Records
<1> QED
  BY <1>2, <1>5, <1>8

\* A scale-in is recorded in the open job.
LEMMA ScaleInRecords ==
    ASSUME Inv, NEW h \in Callers, FinalizeScaleIn(h)
    PROVE  \E i \in DOMAIN jobs[Home[h]], j \in Job :
              /\ Records(Home[h], i, j) /\ i = att[h].job /\ j.ticker = req[h].t
              /\ j.qtyS = jobs[Home[h]][i].legS + att[h].netS
              /\ j.qtyF = jobs[Home[h]][i].legF + att[h].netF
              /\ j.status \in OpenStatus
<1> DEFINE w == Home[h]
           a == att[h]
           i == a.job
           old == jobs[w][i]
           s == old.legS + a.netS
           f == old.legF + a.netF
           final == [old EXCEPT !.ex = req[h].ex, !.status = Classify(s, f),
                                !.qtyS = s, !.qtyF = f, !.legS = s, !.legF = f]
<1>1. ~a.fresh /\ AttemptOver(h) /\ UpdateJob(w, i, final)
  BY DEF FinalizeScaleIn
<1>2. /\ i \in DOMAIN jobs[w] /\ old \in Job /\ w \in Workers /\ a \in Attempt
      /\ old.ticker = req[h].t /\ req[h].ex \in Exchanges
      /\ i \in OpenJobs(w, req[h].t) /\ pc[h] \in Attempting
  BY <1>1, OverLemma
<1>3. old.ex = req[h].ex
  BY <1>2 DEF Inv, Work
<1>4. s \in Nat /\ f \in Nat
  BY <1>2 DEF Attempt, Job
<1>5. Classify(s, f) \in OpenStatus /\ Classify(s, f) \in Status /\ Classify(s, f) # "rolled_back"
  BY DEF Classify, Status, OpenStatus
<1> HIDE DEF s, f
<1>6. /\ final \in Job /\ final.ticker = old.ticker /\ final.ex = old.ex
      /\ final.status = Classify(s, f) /\ final.qtyS = s /\ final.qtyF = f
  BY <1>2, <1>3, <1>4, <1>5 DEF Job
<1> HIDE DEF final
<1>7. Records(w, i, final)
  BY <1>1, <1>2, <1>5, <1>6 DEF Records
<1> QED
  BY <1>2, <1>5, <1>6, <1>7 DEF s, f

\* A close is noted, and a refresh written, in the open job.
LEMMA RefreshRecords ==
    ASSUME Inv, NEW h \in Callers, CloseNoted(h) \/ RefreshDone(h)
    PROVE  \E i \in DOMAIN jobs[Home[h]], j \in Job : Records(Home[h], i, j)
<1> DEFINE w == Home[h]
           i == att[h].job
           old == jobs[w][i]
           e == ExitSpot(h, old)
<1>1. pc[h] \in {"closing", "refreshing"}
  BY DEF CloseNoted, RefreshDone
<1>2. /\ w \in Workers /\ i \in DOMAIN jobs[w] /\ req[h] \in Request
      /\ old \in Job /\ old.ticker = req[h].t /\ i \in OpenJobs(w, req[h].t)
  BY <1>1, HeldOpen
<1>3. old.status # "rolled_back"
  BY <1>2 DEF OpenJobs, IsOpen, OpenStatus
<1>4. CASE CloseNoted(h)
  <2>1. UpdateJob(w, i, old)
    BY <1>4 DEF CloseNoted
  <2> QED
    BY <1>2, <1>3, <2>1 DEF Records
<1>5. CASE RefreshDone(h)
  <2>1. PICK new \in {Refreshed(old, e), Unread(old, e)} : UpdateJob(w, i, new)
    BY <1>5 DEF RefreshDone
  <2>2. e \in Exchanges
    BY <1>2 DEF ExitSpot, Request, Job
  <2> HIDE DEF e
  <2>3. new \in Job /\ new.ticker = old.ticker
    BY <1>2, <2>2, RefreshedLemma
  <2>4. new.ex = old.ex /\ new.status # "rolled_back"
    <3>1. \A s, f : Classify(s, f) \in OpenStatus
      BY DEF Classify, OpenStatus
    <3>2. PICK st \in OpenStatus \cup {"closed"} : new = [old EXCEPT !.exit = e, !.status = st]
      BY <3>1 DEF Refreshed, Unread
    <3> QED
      BY <1>2, <3>2 DEF Job, OpenStatus
  <2> QED
    BY <1>2, <2>1, <2>3, <2>4 DEF Records
<1> QED
  BY <1>4, <1>5

\* Every handler's step is one of the three.
LEMMA StoreMoves ==
    ASSUME Inv, FillInv, NEW h \in Callers, Ask(h) \/ Step(h) \/ Take(h)
    PROVE  StoreMove(Home[h]) /\ up' = up
<1>1. pc[h] \in Locked => up[Home[h]]
  BY DEF Inv, Holds, Locked
<1>2. CASE Ask(h) \/ Take(h)
  BY <1>2 DEF StoreMove, Ask, Call, Take
<1>3. CASE EnterRefused(h) \/ EnterStart(h) \/ EnterUnavailable(h) \/ EnterFollowUp(h)
  BY <1>3 DEF StoreMove, EnterRefused, Refuse, EnterStart, Lock, EnterUnavailable, Return, EnterFollowUp
<1>4. CASE FillSpotBuy(h) \/ FillFuturesSell(h) \/ FillFuturesBuy(h) \/ FillSpotSell(h) \/ FillFuturesClose(h)
  BY <1>4 DEF StoreMove, FillSpotBuy, FillFuturesSell, FillFuturesBuy, FillSpotSell, FillFuturesClose, Answered
<1>5. CASE NoOpenJob(h) \/ RefreshStart(h) \/ CloseStart(h)
  BY <1>5 DEF StoreMove, NoOpenJob, Refuse, RefreshStart, CloseStart, Lock
<1>6. CASE EnterSubmit(h)
  <2>1. pc[h] = "pricing" /\ up' = up
    BY <1>6 DEF EnterSubmit
  <2>2. UNCHANGED storeVars \/ CreateJob(Home[h], NewJob(req[h].t, req[h].ex))
    BY <1>6, Zenon DEF EnterSubmit
  <2>3. req[h].t \in Tickers /\ req[h].ex \in Exchanges
    BY <2>1, ModelAssumption DEF Inv, Asked, Locked, Request
  <2>4. NewJob(req[h].t, req[h].ex) \in Job /\ NewJob(req[h].t, req[h].ex).status = "requested"
    BY <2>3, NewJobLemma DEF NewJob
  <2> QED
    BY <1>1, <2>1, <2>2, <2>4 DEF StoreMove, Creates, Locked
<1>7. CASE FinalizeNew(h)
  BY <1>1, <1>7, FinalizeNewRecords, OverLemma DEF StoreMove, FinalizeNew, Return, Locked, Attempting
<1>8. CASE FinalizeScaleIn(h)
  <2>1. \E i \in DOMAIN jobs[Home[h]], j \in Job : Records(Home[h], i, j)
    BY <1>8, ScaleInRecords
  <2> QED
    BY <1>1, <1>8, <2>1, OverLemma DEF StoreMove, FinalizeScaleIn, Return, Locked, Attempting
<1>9. CASE CloseNoted(h) \/ RefreshDone(h)
  BY <1>1, <1>9, RefreshRecords DEF StoreMove, CloseNoted, RefreshDone, Return, Locked
<1> QED
  BY <1>2, <1>3, <1>4, <1>5, <1>6, <1>7, <1>8, <1>9 DEF Step, EnterStep, CloseStep
\* What one write leaves in the list of its process, and on disk.
LEMMA MoveMeans ==
    ASSUME Inv, NEW w \in Workers, StoreMove(w)
    PROVE  /\ \A v \in Workers \ {w} : jobs'[v] = jobs[v]
           /\ (jobs' = jobs /\ file' = file)
              \/ (up[w] /\ (file' = jobs'[w] \/ (TornSaves /\ file' = <<>>)))
           /\ jobs'[w] \in Seq(Job) /\ \A i \in DOMAIN jobs[w] : i \in DOMAIN jobs'[w]
           /\ \A i \in DOMAIN jobs'[w] :
                 \/ i \in DOMAIN jobs[w] /\ jobs'[w][i] = jobs[w][i]
                 \/ \E j \in Job : jobs'[w][i] = Normalize(j) /\
                      \/ i \notin DOMAIN jobs[w] /\ Creates(w, j)
                      \/ i \in DOMAIN jobs[w] /\ Records(w, i, j)
<1>1. CASE UNCHANGED storeVars
  BY <1>1 DEF storeVars, Inv, TypeOK
<1>2. CASE up[w] /\ \E j \in Job : Creates(w, j)
  <2>1. PICK j \in Job : Creates(w, j)
    BY <1>2
  <2>2. CreateJob(w, j)
    BY <2>1 DEF Creates
  <2>3. /\ jobs' \in [Workers -> Seq(Job)]
        /\ \A v \in Workers \ {w} : jobs'[v] = jobs[v]
        /\ DOMAIN jobs'[w] = DOMAIN jobs[w] \cup {Len(jobs[w]) + 1}
        /\ \A k \in DOMAIN jobs[w] : jobs'[w][k] = jobs[w][k]
        /\ jobs'[w][Len(jobs[w]) + 1] = Normalize(j)
    BY <2>2, CreateLemma DEF Inv, TypeOK
  <2>4. file' = jobs'[w] \/ (TornSaves /\ file' = <<>>)
    BY <2>2, ModelAssumption DEF CreateJob, Save
  <2>5. jobs[w] \in Seq(Job) /\ Len(jobs[w]) + 1 \notin DOMAIN jobs[w]
    BY DEF Inv, TypeOK
  <2> QED
    BY <1>2, <2>1, <2>3, <2>4, <2>5
<1>3. CASE up[w] /\ \E i \in DOMAIN jobs[w], j \in Job : Records(w, i, j)
  <2>1. PICK i \in DOMAIN jobs[w], j \in Job : Records(w, i, j)
    BY <1>3
  <2>2. UpdateJob(w, i, j)
    BY <2>1 DEF Records
  <2>3. /\ jobs' \in [Workers -> Seq(Job)]
        /\ \A v \in Workers : DOMAIN jobs'[v] = DOMAIN jobs[v]
        /\ \A v \in Workers \ {w} : jobs'[v] = jobs[v]
        /\ \A k \in DOMAIN jobs[w] \ {i} : jobs'[w][k] = jobs[w][k]
        /\ jobs'[w][i] = Normalize(j)
    BY <2>2, UpdateLemma DEF Inv, TypeOK
  <2>4. file' = jobs'[w] \/ (TornSaves /\ file' = <<>>)
    BY <2>2, ModelAssumption DEF UpdateJob, Save
  <2> QED
    BY <1>3, <2>1, <2>3, <2>4
<1> QED
  BY <1>1, <1>2, <1>3 DEF StoreMove

\* Normalizing touches no job but a hedge of two legs, and none twice.
LEMMA NormalizeTwice ==
    ASSUME NEW j \in Job
    PROVE  /\ Normalize(Normalize(j)) = Normalize(j)
           /\ j.status \notin OpenStatus => Normalize(j) = j
           /\ j.status \in OpenStatus => Normalize(j).status \in OpenStatus
BY DEF Normalize, Classify, OpenStatus, Job, Status, DeadStatus

\* Requested, dead and rolled back jobs are what they say.
LEMMA MoveKeepsFlat ==
    ASSUME Inv, FillInv, NEW w \in Workers, StoreMove(w)
    PROVE  \A v \in Workers : RolledFlat(jobs'[v])
<1>1. RolledFlat(jobs'[w])
  <2> SUFFICES ASSUME NEW i \in DOMAIN jobs'[w], jobs'[w][i].status = "rolled_back"
               PROVE  jobs'[w][i].legS = 0 /\ jobs'[w][i].legF = 0
    BY DEF RolledFlat
  <2>1. CASE i \in DOMAIN jobs[w] /\ jobs'[w][i] = jobs[w][i]
    BY <2>1 DEF FillInv, RolledFlat
  <2>2. ASSUME NEW j \in Job, jobs'[w][i] = Normalize(j), Creates(w, j) \/ Records(w, i, j)
        PROVE  jobs'[w][i].legS = 0 /\ jobs'[w][i].legF = 0
    <3>1. j.status \notin OpenStatus
      BY <2>2, NormalizeTwice DEF OpenStatus
    <3>2. jobs'[w][i] = j
      BY <2>2, <3>1, NormalizeTwice
    <3> QED
      BY <2>2, <3>2 DEF Creates, Records
  <2> QED
    BY <2>1, <2>2, MoveMeans
<1> QED
  BY <1>1, MoveMeans DEF FillInv

LEMMA MoveKeepsNormal ==
    ASSUME Inv, NEW w \in Workers, StoreMove(w), Normal(jobs[w])
    PROVE  Normal(jobs'[w])
<1> SUFFICES ASSUME NEW i \in DOMAIN jobs'[w] PROVE Normalize(jobs'[w][i]) = jobs'[w][i]
  BY DEF Normal
<1> QED
  BY MoveMeans, NormalizeTwice DEF Normal

\* A step of h leaves the store as another coroutine's attempt found it.
LEMMA OthersStore ==
    ASSUME Inv, FillInv, NEW h \in Callers, Ask(h) \/ Step(h) \/ Take(h), NEW g \in Callers \ {h},
           pc[g] \in Attempting
    PROVE  jobs'[Home[g]] = jobs[Home[g]]
<1>1. StoreMove(Home[h]) /\ Home[h] \in Workers /\ Home[g] \in Workers
  BY StoreMoves, ModelAssumption
<1>2. ASSUME Home[g] = Home[h] PROVE jobs' = jobs
  <2>1. pc[g] \in Locked /\ lock[Home[h]] = g
    BY <1>2 DEF Inv, Holds, Locked, Attempting
  <2>2. pc[h] \notin Locked
    BY <1>2, <2>1, Exclusion
  <2>3. g # NoCaller
    BY ModelAssumption
  <2>4. ~MayLock(h)
    BY <2>1, <2>3 DEF MayLock
  <2>5. CASE Ask(h) \/ Take(h)
    BY <2>5 DEF Ask, Call, Take, storeVars
  <2>6. att[h].flight = {}
    BY <2>2 DEF Inv, Asked, Locked, Attempting
  <2>7. ~Step(h)
    BY <2>2, <2>4, <2>6 DEF Step, EnterStep, CloseStep, EnterRefused, EnterStart, EnterUnavailable,
       EnterSubmit, FillSpotBuy, FillFuturesSell, FillFuturesBuy, EnterFollowUp, FinalizeNew,
       FinalizeScaleIn, AttemptOver, NoOpenJob, RefreshStart, CloseStart, FillFuturesClose, CloseNoted,
       RefreshDone, FillSpotSell, Locked
  <2> QED
    BY <2>5, <2>7
<1> QED
  BY <1>1, <1>2, MoveMeans

\* A step of h leaves what another coroutine believes, and its job, alone.
LEMMA OthersFigures ==
    ASSUME Inv, FillInv, NEW h \in Callers, Ask(h) \/ Step(h) \/ Take(h), NEW g \in Callers \ {h},
           pc'[g] = pc[g], att'[g] = att[g]
    PROVE  Figures(g)' /\ Requested(g)'
BY OthersStore, SameFigures DEF FillInv

\* The job created is the attempt's, and waits for its result.
LEMMA SubmitFigures ==
    ASSUME Inv, FillInv, NEW h \in Callers, EnterSubmit(h)
    PROVE  /\ Figures(h)' /\ Requested(h)'
           /\ \A g \in Callers \ {h} : pc'[g] = pc[g] /\ att'[g] = att[g]
<1> DEFINE w == Home[h]
           k == Len(jobs[w]) + 1
           sent(q) == {SpotOrder("buy", q), FuturesOrder("sell", q)}
<1>1. pc[h] = "pricing" /\ pc' = [pc EXCEPT ![h] = "entering"]
  BY DEF EnterSubmit
<1>2. PICK q \in 1..MaxLot :
         IF att[h].job # 0
         THEN att' = [att EXCEPT ![h].flight = sent(q)]
         ELSE /\ CreateJob(w, NewJob(req[h].t, req[h].ex))
              /\ att' = [att EXCEPT ![h].flight = sent(q), ![h].fresh = TRUE, ![h].job = k]
  BY DEF EnterSubmit
<1>3. \A o \in sent(q) : (o.leg = "spot" /\ o.side = "buy") \/ (o.leg = "futures" /\ o.side = "sell")
  BY DEF SpotOrder, FuturesOrder
<1> HIDE DEF sent
<1>4. att[h] \in Attempt /\ ~att[h].fresh /\ Figures(h)
  BY <1>1 DEF Inv, TypeOK, Work, FillInv
<1>5. /\ att'[h].flight = sent(q) /\ att'[h].spot = att[h].spot /\ att'[h].fut = att[h].fut
      /\ att'[h].netS = att[h].netS /\ att'[h].netF = att[h].netF /\ att'[h].undone = att[h].undone
      /\ IF att[h].job # 0 THEN att'[h].fresh = att[h].fresh
         ELSE att'[h].job = k
  BY <1>2, <1>4 DEF Inv, TypeOK, Attempt
<1>6. pc'[h] = "entering" /\ \A g \in Callers \ {h} : pc'[g] = pc[g] /\ att'[g] = att[g]
  BY <1>1, <1>2 DEF Inv, TypeOK
<1>7. Figures(h)'
  BY <1>1, <1>3, <1>4, <1>5, <1>6 DEF Figures
<1>8. Requested(h)'
  <2>1. CASE att[h].job # 0
    BY <1>4, <1>5, <2>1 DEF Requested
  <2>2. CASE att[h].job = 0
    <3>1. w \in Workers /\ req[h].t \in Tickers /\ req[h].ex \in Exchanges
      BY <1>1, ModelAssumption DEF Inv, Asked, Locked, Request
    <3>2. NewJob(req[h].t, req[h].ex) \in Job /\ NewJob(req[h].t, req[h].ex).status = "requested"
      BY <3>1, NewJobLemma DEF NewJob
    <3>3. jobs'[w][k] = Normalize(NewJob(req[h].t, req[h].ex))
      BY <1>2, <2>2, <3>1, <3>2, CreateLemma DEF Inv, TypeOK
    <3>4. jobs'[w][k].status = "requested"
      BY <3>2, <3>3, NormalizeTwice DEF OpenStatus
    <3> QED
      BY <1>5, <2>2, <3>4 DEF Requested
  <2> QED
    BY <2>1, <2>2
<1> QED
  BY <1>6, <1>7, <1>8
\* A fill changes what its coroutine believes of its orders, and nothing else.
LEMMA FillKeepsJob ==
    ASSUME Inv, NEW h \in Callers,
           FillSpotBuy(h) \/ FillFuturesSell(h) \/ FillFuturesBuy(h) \/ FillSpotSell(h)
    PROVE  /\ att'[h].job = att[h].job /\ att'[h].fresh = att[h].fresh
           /\ pc' = pc /\ jobs' = jobs
           /\ \A g \in Callers \ {h} : att'[g] = att[g]
<1>1. att[h] \in Attempt
  BY DEF Inv, TypeOK
<1>2. CASE FillSpotBuy(h)
  <2>1. PICK o \in att[h].flight :
           \E seen : Answered(h, o, [att[h] EXCEPT !.spot = seen, !.netS = seen])
    BY <1>2, Zenon DEF FillSpotBuy
  <2>2. PICK seen : Answered(h, o, [att[h] EXCEPT !.spot = seen, !.netS = seen])
    BY <2>1
  <2> QED
    BY <1>1, <2>2 DEF Answered, storeVars, Inv, TypeOK, Attempt
<1>3. CASE FillFuturesSell(h)
  <2>1. PICK o \in att[h].flight : \E seen :
           \/ Answered(h, o, [att[h] EXCEPT !.fut = seen, !.netF = seen])
           \/ Answered(h, o, [att[h] EXCEPT !.netF = @ + seen])
    BY <1>3, Zenon DEF FillFuturesSell
  <2>2. PICK seen :
           \/ Answered(h, o, [att[h] EXCEPT !.fut = seen, !.netF = seen])
           \/ Answered(h, o, [att[h] EXCEPT !.netF = @ + seen])
    BY <2>1
  <2> QED
    BY <1>1, <2>2, ZenonT(60) DEF Answered, storeVars, Inv, TypeOK, Attempt
<1>4. CASE FillFuturesBuy(h)
  <2>1. PICK o \in att[h].flight :
           \E seen : Answered(h, o, [att[h] EXCEPT !.undone = seen, !.netF = NetAfter(@, seen)])
    BY <1>4, Zenon DEF FillFuturesBuy
  <2>2. PICK seen :
           Answered(h, o, [att[h] EXCEPT !.undone = seen, !.netF = NetAfter(@, seen)])
    BY <2>1
  <2> QED
    BY <1>1, <2>2 DEF Answered, storeVars, Inv, TypeOK, Attempt
<1>5. CASE FillSpotSell(h)
  <2>1. PICK o \in att[h].flight : \E seen :
           \/ Answered(h, o, att[h])
           \/ Answered(h, o, [att[h] EXCEPT !.undone = seen, !.netS = NetAfter(@, seen)])
    BY <1>5, Zenon DEF FillSpotSell
  <2>2. PICK seen :
           \/ Answered(h, o, att[h])
           \/ Answered(h, o, [att[h] EXCEPT !.undone = seen, !.netS = NetAfter(@, seen)])
    BY <2>1
  <2> QED
    BY <1>1, <2>2, ZenonT(40) DEF Answered, storeVars, Inv, TypeOK, Attempt
<1> QED
  BY <1>2, <1>3, <1>4, <1>5

\* Whatever a coroutine does next, it and the others believe what is so.
LEMMA StepFigures ==
    ASSUME Inv, FillInv, NEW h \in Callers, Ask(h) \/ Step(h) \/ Take(h)
    PROVE  \A g \in Callers : Figures(g)' /\ Requested(g)'
<1>1. Figures(h) /\ Requested(h)
  BY DEF FillInv
<1>2. CASE FillSpotBuy(h) \/ FillFuturesSell(h) \/ FillFuturesBuy(h) \/ FillSpotSell(h)
  <2>1. Figures(h)'
    BY <1>1, <1>2, FillSpotBuyFigures, FillFuturesSellFigures, FillFuturesBuyFigures, FillSpotSellFigures
  <2>2. Requested(h)'
    BY <1>1, <1>2, FillKeepsJob DEF Requested
  <2>3. \A g \in Callers \ {h} : pc'[g] = pc[g] /\ att'[g] = att[g]
    BY <1>2, FillKeepsJob
  <2> QED
    BY <2>1, <2>2, <2>3, OthersFigures
<1>3. CASE EnterSubmit(h)
  BY <1>3, SubmitFigures, OthersFigures
<1>4. CASE EnterFollowUp(h)
  <2>1. /\ pc[h] = "entering" /\ jobs' = jobs
        /\ att' = [att EXCEPT ![h] = [att[h] EXCEPT !.flight = FollowUp(att[h])]]
        /\ \A g \in Callers \ {h} : pc'[g] = pc[g]
    BY <1>4 DEF EnterFollowUp, storeVars, Inv, TypeOK
  <2>2. /\ att'[h].job = att[h].job /\ att'[h].fresh = att[h].fresh
        /\ \A g \in Callers \ {h} : att'[g] = att[g]
    BY <2>1 DEF Inv, TypeOK, Attempt
  <2>3. Requested(h)'
    BY <1>1, <2>1, <2>2 DEF Requested, Attempting
  <2> QED
    BY <1>1, <1>4, <2>1, <2>2, <2>3, FollowUpFigures, OthersFigures
<1>5. CASE EnterStart(h)
  <2>1. PICK i : Lock(h, "pricing", [NoAttempt EXCEPT !.job = i])
    BY <1>5 DEF EnterStart
  <2>2. pc' = [pc EXCEPT ![h] = "pricing"] /\ att' = [att EXCEPT ![h] = [NoAttempt EXCEPT !.job = i]]
    BY <2>1 DEF Lock
  <2>3. pc'[h] = "pricing" /\ att'[h] = [NoAttempt EXCEPT !.job = i]
    BY <2>2 DEF Inv, TypeOK
  <2>4. Figures(h)' /\ Requested(h)'
    BY <2>3 DEF Figures, Requested, NoAttempt, Attempting
  <2>5. \A g \in Callers \ {h} : pc'[g] = pc[g] /\ att'[g] = att[g]
    BY <2>2 DEF Inv, TypeOK
  <2> QED
    BY <2>4, <2>5, OthersFigures
<1>6. CASE \/ Ask(h) \/ Take(h) \/ EnterRefused(h) \/ EnterUnavailable(h) \/ FinalizeNew(h)
           \/ FinalizeScaleIn(h) \/ NoOpenJob(h) \/ RefreshDone(h)
  <2>1. /\ pc' = [pc EXCEPT ![h] = "waiting"] \/ pc' = [pc EXCEPT ![h] = "done"] \/ pc' = [pc EXCEPT ![h] = "idle"]
        /\ att' = att \/ att' = [att EXCEPT ![h] = NoAttempt]
    BY <1>6 DEF Ask, Call, Take, EnterRefused, Refuse, EnterUnavailable, Return, FinalizeNew,
       FinalizeScaleIn, NoOpenJob, RefreshDone
  <2>2. pc'[h] \notin {"pricing"} \cup Attempting
    BY <2>1 DEF Attempting, Inv, TypeOK
  <2>3. \A g \in Callers \ {h} : pc'[g] = pc[g] /\ att'[g] = att[g]
    BY <2>1 DEF Inv, TypeOK
  <2> QED
    BY <2>2, <2>3, NoFigures, OthersFigures
<1>7. CASE RefreshStart(h) \/ CloseStart(h) \/ CloseNoted(h) \/ FillFuturesClose(h)
  <2>1. /\ pc' = [pc EXCEPT ![h] = "refreshing"] \/ pc' = [pc EXCEPT ![h] = "closing"]
           \/ (pc' = pc /\ pc[h] = "closing")
        /\ \E a : att' = [att EXCEPT ![h] = a]
    <3>1. CASE RefreshStart(h)
      BY <3>1 DEF RefreshStart, Lock
    <3>2. CASE CloseStart(h)
      BY <3>2 DEF CloseStart, Lock
    <3>3. CASE CloseNoted(h)
      <4>1. att' = [att EXCEPT ![h] = att[h]]
        BY <3>3 DEF CloseNoted, Inv, TypeOK
      <4> QED
        BY <3>3, <4>1 DEF CloseNoted
    <3>4. CASE FillFuturesClose(h)
      BY <3>4, Zenon DEF FillFuturesClose, Answered
    <3> QED
      BY <1>7, <3>1, <3>2, <3>3, <3>4
  <2>2. pc'[h] \notin {"pricing"} \cup Attempting
    BY <2>1 DEF Attempting, Inv, TypeOK
  <2>3. \A g \in Callers \ {h} : pc'[g] = pc[g] /\ att'[g] = att[g]
    BY <2>1 DEF Inv, TypeOK
  <2> QED
    BY <2>2, <2>3, NoFigures, OthersFigures
<1> QED
  BY <1>2, <1>3, <1>4, <1>5, <1>6, <1>7 DEF Step, EnterStep, CloseStep

LEMMA InitFill == Init => FillInv
BY DEF Init, FillInv, Figures, Requested, RolledFlat, Attempting, NoAttempt

\* Loading classifies jobs again: a job rolled back stays as it is.
LEMMA LoadFlat ==
    ASSUME NEW items \in Seq(Job), RolledFlat(items)
    PROVE  RolledFlat(Load(items))
<1> SUFFICES ASSUME NEW i \in DOMAIN items, Load(items)[i].status = "rolled_back"
             PROVE  Load(items)[i].legS = 0 /\ Load(items)[i].legF = 0
  BY DEF RolledFlat, Load
<1>1. items[i] \in Job /\ Load(items)[i] = Normalize(items[i])
  BY DEF Load
<1>2. items[i].status \notin OpenStatus /\ Load(items)[i] = items[i]
  BY <1>1, NormalizeTwice DEF OpenStatus
<1> QED
  BY <1>2 DEF RolledFlat

LEMMA NextFill == Inv /\ FillInv /\ [Next]_vars => FillInv'
<1> SUFFICES ASSUME Inv, FillInv, [Next]_vars PROVE FillInv'
  OBVIOUS
<1>1. ASSUME NEW h \in Callers, Ask(h) \/ Step(h) \/ Take(h) PROVE FillInv'
  <2>1. StoreMove(Home[h]) /\ Home[h] \in Workers
    BY <1>1, StoreMoves, ModelAssumption
  <2>2. \A v \in Workers : RolledFlat(jobs'[v])
    BY <2>1, MoveKeepsFlat
  <2>3. RolledFlat(file')
    <3>1. file' = file \/ file' = jobs'[Home[h]] \/ file' = <<>>
      BY <2>1, MoveMeans
    <3> QED
      BY <2>1, <2>2, <3>1 DEF FillInv, RolledFlat
  <2> QED
    BY <1>1, <2>2, <2>3, StepFigures DEF FillInv, RolledFlat
<1>2. ASSUME NEW t \in Tickers, NEW e \in OperatorAt, Operator(t, e) PROVE FillInv'
  <2>1. pc' = pc /\ att' = att /\ jobs' = jobs /\ file' = file
    BY <1>2 DEF Operator, Withdraw, SellSpot, BuyBack, storeVars
  <2> QED
    BY <2>1, SameFigures DEF FillInv, RolledFlat
<1>3. ASSUME NEW w \in Workers, Crash(w) PROVE FillInv'
  <2>1. ASSUME NEW h \in Callers PROVE Figures(h)' /\ Requested(h)'
    <3>1. CASE Home[h] = w
      <4>1. pc'[h] = "idle"
        BY <1>3, <3>1 DEF Crash, Lost
      <4> QED
        BY <4>1, NoFigures DEF Attempting
    <3>2. CASE Home[h] # w
      <4>1. pc'[h] = pc[h] /\ att'[h] = att[h] /\ jobs'[Home[h]] = jobs[Home[h]]
        BY <1>3, <3>2, ModelAssumption DEF Crash, Lost, Inv, TypeOK
      <4> QED
        BY <4>1, SameFigures DEF FillInv
    <3> QED
      BY <3>1, <3>2
  <2>2. \A v \in Workers : jobs'[v] = jobs[v] \/ jobs'[v] = <<>>
    BY <1>3 DEF Crash, Inv, TypeOK
  <2>3. file' = file
    BY <1>3 DEF Crash
  <2>4. \A v \in Workers : RolledFlat(jobs'[v])
    BY <2>2 DEF FillInv, RolledFlat
  <2> QED
    BY <2>1, <2>3, <2>4 DEF FillInv, RolledFlat
<1>4. ASSUME NEW w \in Workers, Restart(w) PROVE FillInv'
  <2>1. ASSUME NEW h \in Callers PROVE Figures(h)' /\ Requested(h)'
    <3>1. pc'[h] = pc[h] /\ att'[h] = att[h]
      BY <1>4 DEF Restart
    <3>2. pc[h] \in Attempting => Home[h] # w
      BY <1>4 DEF Inv, Holds, Restart, Attempting
    <3>3. pc[h] \in Attempting => jobs'[Home[h]] = jobs[Home[h]]
      BY <1>4, <3>2, ModelAssumption DEF Restart, Inv, TypeOK
    <3> QED
      BY <3>1, <3>3, SameFigures DEF FillInv
  <2>2. RolledFlat(Load(file))
    BY LoadFlat DEF FillInv, Inv, TypeOK
  <2>3. \A v \in Workers : jobs'[v] = jobs[v] \/ jobs'[v] = Load(file)
    BY <1>4 DEF Restart, Inv, TypeOK
  <2>4. \A v \in Workers : RolledFlat(jobs'[v])
    BY <2>2, <2>3 DEF FillInv
  <2>5. file' = file
    BY <1>4 DEF Restart
  <2> QED
    BY <2>1, <2>4, <2>5 DEF FillInv, RolledFlat
<1>5. CASE UNCHANGED vars
  <2>1. pc' = pc /\ att' = att /\ jobs' = jobs /\ file' = file
    BY <1>5 DEF vars
  <2> QED
    BY <2>1, SameFigures DEF FillInv, RolledFlat
<1> QED
  BY <1>1, <1>2, <1>3, <1>4, <1>5 DEF Next

\* What an attempt records is what its orders report, for any processes, late fills,
\* crashes and truncated saves.
THEOREM FillInvHolds == Spec => []FillInv
BY InitFill, NextFill, InvHolds, PTL DEF Spec

\* A job recorded as rolled back has no leg left on either side.
THEOREM RolledBackIsFlatHolds == Spec => []RolledBackIsFlat
<1>1. FillInv => RolledBackIsFlat
  BY DEF FillInv, RolledFlat, RolledBackIsFlat
<1> QED
  BY <1>1, FillInvHolds, PTL
-----------------------------------------------------------------------------
(* A job that is over stays as it is.                                        *)

LEMMA StepLeavesDead ==
    ASSUME Inv, FillInv, [Next]_vars, NEW w \in Workers, up[w], up'[w],
           NEW i \in DOMAIN jobs[w], jobs[w][i].status \in DeadStatus
    PROVE  jobs'[w][i] = jobs[w][i]
<1>1. ASSUME NEW h \in Callers, Ask(h) \/ Step(h) \/ Take(h) PROVE jobs'[w][i] = jobs[w][i]
  <2>1. StoreMove(Home[h]) /\ Home[h] \in Workers
    BY <1>1, StoreMoves, ModelAssumption
  <2>2. CASE Home[h] # w
    BY <2>1, <2>2, MoveMeans
  <2>3. CASE Home[h] = w
    <3>1. i \in DOMAIN jobs'[w]
      BY <2>1, <2>3, MoveMeans
    <3>2. \A j \in Job : ~Records(w, i, j)
      BY DEF Records, OpenJobs, IsOpen, OpenStatus, DeadStatus
    <3> QED
      BY <2>1, <2>3, <3>1, <3>2, MoveMeans
  <2> QED
    BY <2>2, <2>3
<1>2. ASSUME NEW t \in Tickers, NEW e \in OperatorAt, Operator(t, e) PROVE jobs' = jobs
  BY <1>2 DEF Operator, Withdraw, SellSpot, BuyBack, storeVars
<1>3. ASSUME NEW v \in Workers, Crash(v) \/ Restart(v) PROVE jobs'[w] = jobs[w]
  BY <1>3 DEF Crash, Restart, Inv, TypeOK
<1>4. CASE UNCHANGED vars
  BY <1>4 DEF vars
<1> QED
  BY <1>1, <1>2, <1>3, <1>4 DEF Next

\* A job that failed, was rolled back or closed is never written again while its
\* process runs, in any number of processes.
THEOREM DeadJobsStayHolds == Spec => DeadJobsStay
<1>1. Inv /\ FillInv /\ [Next]_vars =>
        [\A w \in Workers : up[w] /\ up'[w] =>
            \A i \in DOMAIN jobs[w] :
                jobs[w][i].status \in DeadStatus => jobs'[w][i] = jobs[w][i]]_vars
  BY StepLeavesDead
<1> QED
  BY <1>1, InvHolds, FillInvHolds, PTL DEF Spec, DeadJobsStay

-----------------------------------------------------------------------------
(* An entry that answers ok is an open hedge in the store.                   *)

LEMMA NewIsTracked ==
    ASSUME Inv, FillInv, NEW h \in Callers, FinalizeNew(h), BothFilled(att[h])
    PROVE  \E i \in DOMAIN jobs'[Home[h]] :
              LET j == jobs'[Home[h]][i] IN
              IsOpen(j) /\ j.ticker = req[h].t /\ j.ex = req[h].ex
<1> DEFINE w == Home[h]
           a == att[h]
           i == a.job
           final == [jobs[w][i] EXCEPT
                        !.status = AttemptStatus(a), !.qtyS = a.netS, !.qtyF = a.netF,
                        !.legS = a.netS, !.legF = a.netF, !.exit = req[h].ex]
<1>1. a.fresh /\ AttemptOver(h) /\ UpdateJob(w, i, final)
  BY DEF FinalizeNew
<1>2. /\ i \in DOMAIN jobs[w] /\ jobs[w][i] \in Job /\ w \in Workers /\ a \in Attempt
      /\ jobs[w][i].ticker = req[h].t /\ req[h].ex \in Exchanges /\ pc[h] \in Attempting
  BY <1>1, OverLemma
<1>3. jobs[w][i].ex = req[h].ex
  BY <1>2 DEF Inv, Work
<1>4. a.netS \in Nat /\ a.netF \in Nat /\ a.netS > 0 /\ a.netF > 0
  BY <1>1, <1>2, StatusMeans DEF FillInv, Attempt
<1>5. AttemptStatus(a) \in OpenStatus
  <2>1. a.spot > 0 /\ a.fut > 0
    BY DEF BothFilled
  <2>2. a.spot \in Nat /\ a.fut \in Nat
    BY <1>2 DEF Attempt
  <2>3. AttemptStatus(a) = Classify(a.netS, a.netF)
    BY <2>1, <2>2 DEF AttemptStatus
  <2> QED
    BY <2>3 DEF Classify, OpenStatus
<1>6. AttemptStatus(a) \in Status
  BY <1>5 DEF Status
<1>7. final \in Job /\ final.ticker = req[h].t /\ final.ex = req[h].ex /\ IsOpen(final)
  BY <1>2, <1>3, <1>4, <1>5, <1>6 DEF Job, IsOpen
<1> HIDE DEF final
<1>8. i \in DOMAIN jobs'[w] /\ jobs'[w][i] = Normalize(final)
  BY <1>1, <1>2, <1>7, UpdateLemma DEF Inv, TypeOK
<1>9. IsOpen(jobs'[w][i]) /\ jobs'[w][i].ticker = req[h].t /\ jobs'[w][i].ex = req[h].ex
  BY <1>7, <1>8, NormalizeLemma
<1> QED
  BY <1>8, <1>9

LEMMA ScaledIsTracked ==
    ASSUME Inv, FillInv, NEW h \in Callers, FinalizeScaleIn(h), att[h].netS > 0, att[h].netF > 0
    PROVE  \E i \in DOMAIN jobs'[Home[h]] :
              LET j == jobs'[Home[h]][i] IN
              IsOpen(j) /\ j.ticker = req[h].t /\ j.ex = req[h].ex
<1> DEFINE w == Home[h]
<1>1. PICK i \in DOMAIN jobs[w], j \in Job :
         /\ Records(w, i, j) /\ i = att[h].job /\ j.ticker = req[h].t
         /\ j.qtyS = jobs[w][i].legS + att[h].netS
         /\ j.qtyF = jobs[w][i].legF + att[h].netF
         /\ j.status \in OpenStatus
  BY ScaleInRecords
<1>2. /\ jobs[w][i] \in Job /\ w \in Workers /\ att[h] \in Attempt /\ pc[h] \in Attempting
  BY <1>1, OverLemma DEF FinalizeScaleIn
<1>3. jobs[w][i].ex = req[h].ex
  BY <1>1, <1>2 DEF Inv, Work
<1>4. j.qtyS > 0 /\ j.qtyF > 0
  BY <1>1, <1>2 DEF Job, Attempt
<1>5. IsOpen(j) /\ j.ex = req[h].ex
  BY <1>1, <1>3, <1>4 DEF IsOpen, Records
<1>6. i \in DOMAIN jobs'[w] /\ jobs'[w][i] = Normalize(j)
  BY <1>1, <1>2, UpdateLemma DEF Inv, TypeOK, Records
<1>7. IsOpen(jobs'[w][i]) /\ jobs'[w][i].ticker = req[h].t /\ jobs'[w][i].ex = req[h].ex
  BY <1>1, <1>5, <1>6, NormalizeLemma
<1> QED
  BY <1>6, <1>7

\* Only the three ends of an entry answer one.
LEMMA ReturnMeans ==
    ASSUME Inv, [Next]_vars, NEW h \in Callers, Returns(h), req[h].op = "enter"
    PROVE  EnterUnavailable(h) \/ FinalizeNew(h) \/ FinalizeScaleIn(h)
<1>1. pc[h] \in Locked /\ pc'[h] = "done" /\ pc'[h] # pc[h] /\ req[h].op = "enter"
  BY DEF Returns, Locked
<1>2. ASSUME NEW g \in Callers, Ask(g) \/ Step(g) \/ Take(g), g # h PROVE FALSE
  <2>1. pc' = pc \/ \E label : pc' = [pc EXCEPT ![g] = label]
    <3>1. CASE Ask(g) \/ Take(g)
      BY <3>1 DEF Ask, Call, Take
    <3>2. CASE EnterRefused(g) \/ EnterStart(g) \/ EnterUnavailable(g) \/ EnterSubmit(g) \/ EnterFollowUp(g)
      BY <3>2 DEF EnterRefused, Refuse, EnterStart, Lock, EnterUnavailable, Return, EnterSubmit, EnterFollowUp
    <3>3. CASE FillSpotBuy(g) \/ FillFuturesSell(g) \/ FillFuturesBuy(g) \/ FillSpotSell(g) \/ FillFuturesClose(g)
      BY <3>3, Zenon DEF FillSpotBuy, FillFuturesSell, FillFuturesBuy, FillSpotSell, FillFuturesClose, Answered
    <3>4. CASE FinalizeNew(g) \/ FinalizeScaleIn(g) \/ NoOpenJob(g) \/ RefreshStart(g) \/ CloseStart(g)
      BY <3>4 DEF FinalizeNew, FinalizeScaleIn, Return, NoOpenJob, Refuse, RefreshStart, CloseStart, Lock
    <3>5. CASE CloseNoted(g) \/ RefreshDone(g)
      BY <3>5 DEF CloseNoted, RefreshDone, Return
    <3> QED
      BY <1>2, <3>1, <3>2, <3>3, <3>4, <3>5 DEF Step, EnterStep, CloseStep
  <2>2. pc'[h] = pc[h]
    BY <1>2, <2>1 DEF Inv, TypeOK
  <2> QED
    BY <1>1, <2>2
<1>3. ASSUME Ask(h) \/ Step(h) \/ Take(h)
      PROVE  EnterUnavailable(h) \/ FinalizeNew(h) \/ FinalizeScaleIn(h)
  <2>1. ~(Ask(h) \/ Take(h) \/ EnterRefused(h) \/ EnterStart(h) \/ NoOpenJob(h) \/ RefreshStart(h) \/ CloseStart(h))
    BY <1>1 DEF Ask, Call, Take, EnterRefused, EnterStart, NoOpenJob, RefreshStart, CloseStart, MayLock, Locked
  <2>2. ~(FillSpotBuy(h) \/ FillFuturesSell(h) \/ FillFuturesBuy(h) \/ FillSpotSell(h) \/ FillFuturesClose(h))
    BY <1>1 DEF FillSpotBuy, FillFuturesSell, FillFuturesBuy, FillSpotSell, FillFuturesClose, Answered
  <2>3. ~(EnterSubmit(h) \/ EnterFollowUp(h) \/ CloseNoted(h))
    <3>1. ~EnterSubmit(h)
      BY <1>1 DEF EnterSubmit, Inv, TypeOK
    <3>2. ~EnterFollowUp(h)
      BY <1>1 DEF EnterFollowUp, Inv, TypeOK
    <3>3. ~CloseNoted(h)
      BY <1>1 DEF CloseNoted, Inv, TypeOK
    <3> QED
      BY <3>1, <3>2, <3>3
  <2>4. ~RefreshDone(h)
    BY <1>1 DEF RefreshDone, Inv, Asked
  <2> QED
    BY <1>3, <2>1, <2>2, <2>3, <2>4 DEF Step, EnterStep, CloseStep
<1>4. ASSUME NEW t \in Tickers, NEW e \in OperatorAt, Operator(t, e) PROVE FALSE
  BY <1>1, <1>4 DEF Operator, Withdraw, SellSpot, BuyBack
<1>5. ASSUME NEW w \in Workers, Crash(w) \/ Restart(w) PROVE FALSE
  BY <1>1, <1>5 DEF Crash, Restart
<1>6. CASE UNCHANGED vars
  BY <1>1, <1>6 DEF vars
<1> QED
  BY <1>2, <1>3, <1>4, <1>5, <1>6 DEF Next
LEMMA OkIsTracked ==
    ASSUME Inv, FillInv, [Next]_vars, NEW h \in Callers, Returns(h), req[h].op = "enter", res'[h].ok
    PROVE  \E i \in DOMAIN jobs'[Home[h]] :
              LET j == jobs'[Home[h]][i] IN
              IsOpen(j) /\ j.ticker = req[h].t /\ j.ex = req[h].ex
<1>1. ASSUME NEW answer, Return(h, answer) PROVE res'[h] = answer
  BY <1>1 DEF Return, Inv, TypeOK
<1>2. CASE EnterUnavailable(h)
  <2>1. res'[h] = Answer(FALSE, "UNAVAILABLE", "none")
    BY <1>1, <1>2 DEF EnterUnavailable
  <2> QED
    BY <2>1 DEF Answer, NoResult
<1>3. CASE FinalizeNew(h)
  <2>1. PICK code, status : res'[h] = Answer(BothFilled(att[h]), code, status)
    BY <1>1, <1>3 DEF FinalizeNew
  <2>2. BothFilled(att[h])
    BY <2>1 DEF Answer, NoResult
  <2> QED
    BY <1>3, <2>2, NewIsTracked
<1>4. CASE FinalizeScaleIn(h)
  <2>0. PICK b : b = (BothFilled(att[h]) /\ att[h].netS > 0 /\ att[h].netF > 0)
    OBVIOUS
  <2>1. PICK code, message, status :
           res'[h] = [ok |-> b, code |-> code, message |-> message, status |-> status]
    BY <1>1, <1>4, <2>0, Zenon DEF FinalizeScaleIn
  <2>2. res'[h].ok = b
    BY <2>1
  <2>3. b
    BY <2>2, Zenon
  <2>4. att[h].netS > 0 /\ att[h].netF > 0
    BY <2>0, <2>3, Zenon
  <2> QED
    BY <1>4, <2>4, ScaledIsTracked
<1> QED
  BY <1>2, <1>3, <1>4, ReturnMeans

\* An enter that answers ok leaves an open hedge, with both legs, on the exchange it
\* asked for, in any number of processes.
THEOREM OkMeansTrackedHolds == Spec => OkMeansTracked
<1>1. Inv /\ FillInv /\ [Next]_vars =>
        [\A h \in Callers :
          (Returns(h) /\ req[h].op = "enter" /\ res'[h].ok) =>
              \E i \in DOMAIN jobs'[Home[h]] :
                  LET j == jobs'[Home[h]][i] IN
                  IsOpen(j) /\ j.ticker = req[h].t /\ j.ex = req[h].ex]_vars
  BY OkIsTracked
<1> QED
  BY <1>1, InvHolds, FillInvHolds, PTL DEF Spec, OkMeansTracked

-----------------------------------------------------------------------------
(* The file, when one process has it to itself.                              *)

LEMMA LoadNormal ==
    ASSUME NEW items \in Seq(Job), Normal(items)
    PROVE  Load(items) = items
<1>1. DOMAIN items = 1..Len(items) /\ items = [i \in 1..Len(items) |-> items[i]]
  OBVIOUS
<1>2. Load(items) = [i \in 1..Len(items) |-> Normalize(items[i])]
  BY <1>1 DEF Load
<1> QED
  BY <1>1, <1>2 DEF Normal

LEMMA NextDisk ==
    ASSUME NEW v, Workers = {v}
    PROVE  Inv /\ FillInv /\ DiskInv /\ [Next]_vars => DiskInv'
<1> SUFFICES ASSUME Inv, FillInv, DiskInv, [Next]_vars PROVE DiskInv'
  OBVIOUS
<1> USE DEF DiskInv
<1>1. ASSUME NEW h \in Callers, Ask(h) \/ Step(h) \/ Take(h) PROVE DiskInv'
  <2>1. StoreMove(v) /\ up' = up
    BY <1>1, StoreMoves, ModelAssumption
  <2>2. Normal(jobs'[v])
    BY <2>1, MoveKeepsNormal
  <2>3. \/ jobs' = jobs /\ file' = file
        \/ file' = jobs'[v] \/ (TornSaves /\ file' = <<>>)
    BY <2>1, MoveMeans
  <2>4. Normal(file')
    BY <2>2, <2>3 DEF Normal
  <2>5. \A w \in Workers : up'[w] => file' = jobs'[w] \/ (TornSaves /\ file' = <<>>)
    BY <2>1, <2>3
  <2> QED
    BY <2>2, <2>4, <2>5 DEF Normal, Normalize, Classify
<1>2. ASSUME NEW t \in Tickers, NEW e \in OperatorAt, Operator(t, e) PROVE DiskInv'
  <2>1. up' = up /\ jobs' = jobs /\ file' = file
    BY <1>2 DEF Operator, Withdraw, SellSpot, BuyBack, storeVars
  <2> QED
    BY <2>1 DEF Normal, Normalize, Classify
<1>3. ASSUME Crash(v) PROVE DiskInv'
  <2>1. up'[v] = FALSE /\ jobs'[v] = <<>> /\ file' = file
    BY <1>3 DEF Crash, Inv, TypeOK
  <2>2. Normal(jobs'[v]) /\ Normal(file')
    BY <2>1 DEF Normal
  <2> QED
    BY <2>1, <2>2 DEF Normal, Normalize, Classify
<1>4. ASSUME Restart(v) PROVE DiskInv'
  <2>1. jobs'[v] = Load(file) /\ file' = file
    BY <1>4 DEF Restart, Inv, TypeOK
  <2>2. Load(file) = file
    BY LoadNormal DEF Inv, TypeOK
  <2>3. Normal(jobs'[v]) /\ Normal(file') /\ file' = jobs'[v]
    BY <2>1, <2>2
  <2> QED
    BY <2>3 DEF Normal, Normalize, Classify
<1>5. CASE UNCHANGED vars
  <2>1. up' = up /\ jobs' = jobs /\ file' = file
    BY <1>5 DEF vars
  <2> QED
    BY <2>1 DEF Normal, Normalize, Classify
<1> QED
  BY <1>1, <1>2, <1>3, <1>4, <1>5 DEF Next

\* One process's file holds its store, or nothing after a save that was cut short.
THEOREM DiskInvHolds ==
    ASSUME NEW v, Workers = {v}
    PROVE  Spec => []DiskInv
<1>1. Init => DiskInv
  BY DEF Init, DiskInv, Normal
<1>2. Inv /\ FillInv /\ DiskInv /\ [Next]_vars => DiskInv'
  BY NextDisk
<1> QED
  BY <1>1, <1>2, InvHolds, FillInvHolds, PTL DEF Spec

\* No hedge is lost by a crash between two writes: whole saves of one process leave
\* on disk what it knows.
THEOREM StoreOnDiskHolds ==
    ASSUME NEW v, Workers = {v}, ~TornSaves
    PROVE  Spec => []StoreOnDisk
<1>1. DiskInv => StoreOnDisk
  BY DEF DiskInv, StoreOnDisk
<1> QED
  BY <1>1, DiskInvHolds, PTL
-----------------------------------------------------------------------------
(* The service implements its book.                                          *)

\* The exchange of the newest open job of t in a list of jobs.
OpenIn(items, t) == {i \in DOMAIN items : items[i].ticker = t /\ IsOpen(items[i])}
OnIn(items, t) ==
    IF OpenIn(items, t) = {} THEN NoExchange
    ELSE items[CHOOSE i \in OpenIn(items, t) : \A k \in OpenIn(items, t) : k <= i].ex

LEMMA OnMeans ==
    ASSUME NEW items \in Seq(Job), OneOpenIn(items), NEW t
    PROVE  \/ OpenIn(items, t) = {} /\ OnIn(items, t) = NoExchange
           \/ \E i \in DOMAIN items : /\ OpenIn(items, t) = {i} /\ OnIn(items, t) = items[i].ex
                                      /\ items[i].ex \in Exchanges
<1>1. CASE OpenIn(items, t) = {}
  BY <1>1 DEF OnIn
<1>2. CASE OpenIn(items, t) # {}
  <2>1. PICK i \in OpenIn(items, t) : TRUE
    BY <1>2
  <2>2. OpenIn(items, t) = {i} /\ i \in DOMAIN items /\ i \in Int
    BY <2>1 DEF OpenIn, OneOpenIn
  <2>3. (CHOOSE k \in OpenIn(items, t) : \A l \in OpenIn(items, t) : l <= k) = i
    BY <2>2
  <2>4. items[i].ex \in Exchanges
    <3>1. items[i] \in Job
      BY <2>2
    <3> QED
      BY <3>1 DEF Job
  <2> QED
    BY <1>2, <2>2, <2>3, <2>4 DEF OnIn
<1> QED
  BY <1>1, <1>2

LEMMA OnSame ==
    ASSUME NEW items \in Seq(Job), NEW others \in Seq(Job), OneOpenIn(items), OneOpenIn(others),
           NEW t, OpenIn(items, t) = OpenIn(others, t),
           \A i \in OpenIn(items, t) : items[i].ex = others[i].ex
    PROVE  OnIn(items, t) = OnIn(others, t)
<1>1. CASE OpenIn(items, t) = {}
  BY <1>1, OnMeans, ZenonT(60)
<1>2. CASE OpenIn(items, t) # {}
  <2>1. PICK i \in DOMAIN items : OpenIn(items, t) = {i} /\ OnIn(items, t) = items[i].ex
    BY <1>2, OnMeans
  <2>2. PICK k \in DOMAIN others : OpenIn(others, t) = {k} /\ OnIn(others, t) = others[k].ex
    BY <1>2, OnMeans
  <2>3. i = k
    BY <2>1, <2>2
  <2> QED
    BY <2>1, <2>2, <2>3
<1> QED
  BY <1>1, <1>2

LEMMA HedgedIs == \A w : /\ HedgedOn(w) = [t \in Tickers |-> OnIn(Store(w), t)]
                          /\ HedgedOn(w)' = [t \in Tickers |-> OnIn(Store(w)', t)]
BY DEF HedgedOn, OnIn, OpenIn, IsOpen

LEMMA StoreTyped ==
    ASSUME Inv, NEW w \in Workers
    PROVE  Store(w) \in Seq(Job) /\ OneOpenIn(Store(w))
<1>1. jobs[w] \in Seq(Job) /\ OneOpenIn(jobs[w])
  BY DEF Inv, TypeOK, OneOpenJob
<1>2. Load(file) \in Seq(Job) /\ OneOpenIn(Load(file))
  BY LoadLemma DEF Inv, TypeOK
<1> QED
  BY <1>1, <1>2 DEF Store

\* What one write means in the book: nothing, an opening or a closing.
LEMMA MoveIsBooked ==
    ASSUME Inv, Inv', FillInv, NEW v \in Workers, Process = v, StoreMove(v), up' = up
    PROVE  Book!Next \/ HedgedOn(Process)' = HedgedOn(Process)
<1> DEFINE A == jobs[v]
           B == jobs'[v]
<1>1. CASE UNCHANGED storeVars
  BY <1>1 DEF storeVars, HedgedOn, Store, Load, Normalize, Classify, IsOpen, OpenStatus
<1>2. ASSUME up[v] PROVE /\ HedgedOn(v) = [t \in Tickers |-> OnIn(A, t)]
                         /\ HedgedOn(v)' = [t \in Tickers |-> OnIn(B, t)]
  <2>1. Store(v) = jobs[v] /\ Store(v)' = jobs'[v]
    BY <1>2 DEF Store
  <2> QED
    BY <2>1, HedgedIs
<1>3. A \in Seq(Job) /\ OneOpenIn(A) /\ B \in Seq(Job) /\ OneOpenIn(B)
  <2>1. A \in Seq(Job) /\ OneOpenIn(A)
    BY DEF Inv, TypeOK, OneOpenJob
  <2>2. B \in Seq(Job)
    BY DEF Inv, TypeOK
  <2>3. OneOpenIn(jobs'[v])
    BY DEF Inv, OneOpenJob, OneOpenIn, IsOpen
  <2> QED
    BY <2>1, <2>2, <2>3
<1>4. CASE up[v] /\ \E j \in Job : Creates(v, j)
  <2>1. PICK j \in Job : Creates(v, j)
    BY <1>4
  <2>2. /\ DOMAIN B = DOMAIN A \cup {Len(A) + 1}
        /\ \A k \in DOMAIN A : B[k] = A[k]
        /\ B[Len(A) + 1] = Normalize(j)
    BY <2>1, CreateLemma DEF Creates, Inv, TypeOK
  <2>3. ~IsOpen(B[Len(A) + 1])
    BY <2>1, <2>2, NormalizeLemma DEF Creates, IsOpen, OpenStatus
  <2> HIDE DEF A, B
  <2>4. \A t \in Tickers : OnIn(A, t) = OnIn(B, t)
    <3> SUFFICES ASSUME NEW t \in Tickers PROVE OnIn(A, t) = OnIn(B, t)
      OBVIOUS
    <3>1. OpenIn(A, t) = OpenIn(B, t) /\ \A i \in OpenIn(A, t) : A[i].ex = B[i].ex
      BY <2>2, <2>3 DEF OpenIn
    <3> QED
      BY <1>3, <3>1, OnSame
  <2> QED
    BY <1>2, <1>4, <2>4
<1>5. CASE up[v] /\ \E i \in DOMAIN jobs[v], j \in Job : Records(v, i, j)
  <2>1. PICK i \in DOMAIN A, j \in Job : Records(v, i, j)
    BY <1>5
  <2>2. /\ DOMAIN B = DOMAIN A
        /\ \A k \in DOMAIN A \ {i} : B[k] = A[k]
        /\ B[i] = Normalize(j)
    BY <2>1, UpdateLemma DEF Records, Inv, TypeOK
  <2>3. j.ticker = A[i].ticker /\ j.ex = A[i].ex /\ j.ticker \in Tickers /\ j.ex \in Exchanges
    BY <2>1 DEF Records, Job
  <2>4. B[i].ticker = j.ticker /\ B[i].ex = j.ex /\ (IsOpen(B[i]) <=> IsOpen(j))
    BY <2>2, NormalizeLemma
  <2>5. i \in OpenIn(A, j.ticker) \/ OpenIn(A, j.ticker) = {}
    BY <2>1 DEF Records, OpenJobs, OpenIn
  <2> HIDE DEF A, B
  <2>6. ASSUME NEW t \in Tickers, t # j.ticker PROVE OnIn(B, t) = OnIn(A, t)
    <3>1. OpenIn(A, t) = OpenIn(B, t) /\ \A k \in OpenIn(A, t) : A[k].ex = B[k].ex
      BY <2>2, <2>3, <2>4, <2>6 DEF OpenIn
    <3> QED
      BY <1>3, <3>1, OnSame
  <2>7. OpenIn(B, j.ticker) \subseteq OpenIn(A, j.ticker) \cup {i}
    BY <2>2, <2>3, <2>4 DEF OpenIn
  <2>8. i \in OpenIn(B, j.ticker) <=> IsOpen(j)
    BY <2>2, <2>4 DEF OpenIn
  <2>9. i \in OpenIn(A, j.ticker) => OnIn(A, j.ticker) = j.ex
    BY <1>3, <2>3, OnMeans
  <2>10. IsOpen(j) => OnIn(B, j.ticker) = j.ex
    BY <1>3, <2>4, <2>8, OnMeans
  <2>11. ~IsOpen(j) => OpenIn(B, j.ticker) = {}
    <3>1. OpenIn(A, j.ticker) \subseteq {i}
      BY <1>3, <2>5, OnMeans
    <3> QED
      BY <2>7, <2>8, <3>1
  <2>12. ~IsOpen(j) => OnIn(B, j.ticker) = NoExchange
    BY <2>11 DEF OnIn
  <2>13. OpenIn(A, j.ticker) = {} => OnIn(A, j.ticker) = NoExchange
    BY DEF OnIn
  <2>14. NoExchange \notin Exchanges
    BY ModelAssumption
  <2>15. HedgedOn(v)' = [HedgedOn(v) EXCEPT ![j.ticker] = OnIn(B, j.ticker)]
    BY <1>2, <1>5, <2>3, <2>6
  <2>16. HedgedOn(v)[j.ticker] = OnIn(A, j.ticker)
    BY <1>2, <1>5, <2>3
  <2>17. CASE OnIn(B, j.ticker) = OnIn(A, j.ticker)
    BY <1>2, <1>5, <2>6, <2>17
  <2>18. CASE i \in OpenIn(A, j.ticker) /\ ~IsOpen(j)
    <3>1. Book!Close(j.ticker)
      BY <2>3, <2>9, <2>12, <2>14, <2>15, <2>16, <2>18 DEF Book!Close
    <3> QED
      BY <2>3, <3>1 DEF Book!Next
  <2>19. CASE OpenIn(A, j.ticker) = {} /\ IsOpen(j)
    <3>1. Book!Open(j.ticker, j.ex)
      BY <2>10, <2>13, <2>15, <2>16, <2>19 DEF Book!Open
    <3> QED
      BY <2>3, <3>1 DEF Book!Next
  <2> QED
    BY <2>5, <2>9, <2>10, <2>12, <2>13, <2>17, <2>18, <2>19
<1> QED
  BY <1>1, <1>4, <1>5 DEF StoreMove

\* What every other step means in it: nothing, or that it is lost as a whole.
LEMMA StepIsBooked ==
    ASSUME NEW v, Workers = {v}, Inv, Inv', FillInv, DiskInv, [Next]_vars
    PROVE  Book!Next \/ HedgedOn(Process)' = HedgedOn(Process)
<1>0. Process = v /\ v \in Workers
  BY DEF Process
<1>1. ASSUME NEW h \in Callers, Ask(h) \/ Step(h) \/ Take(h)
      PROVE  Book!Next \/ HedgedOn(Process)' = HedgedOn(Process)
  <2>1. Home[h] = v
    BY ModelAssumption
  <2> QED
    BY <1>0, <1>1, <2>1, StoreMoves, MoveIsBooked
<1>2. ASSUME Store(v)' = Store(v) PROVE HedgedOn(Process)' = HedgedOn(Process)
  BY <1>0, <1>2, HedgedIs
<1>3. ASSUME NEW t \in Tickers, NEW e \in OperatorAt, Operator(t, e) PROVE Store(v)' = Store(v)
  BY <1>3 DEF Operator, Withdraw, SellSpot, BuyBack, storeVars, Store, Load, Normalize, Classify
<1>4. ASSUME Crash(v) PROVE Book!Next \/ HedgedOn(Process)' = HedgedOn(Process)
  <2>1. Store(v) = jobs[v] /\ Store(v)' = Load(file') /\ file' = file /\ up[v]
    BY <1>4, <1>0 DEF Crash, Store, Inv, TypeOK
  <2>2. Load(file) = file
    BY LoadNormal DEF DiskInv, Inv, TypeOK
  <2>3. CASE file = jobs[v]
    BY <1>2, <2>1, <2>2, <2>3
  <2>4. CASE TornSaves /\ file = <<>>
    <3>1. Store(v)' = <<>>
      BY <2>1, <2>2, <2>4
    <3>2. \A t \in Tickers : OnIn(<<>>, t) = NoExchange
      BY DEF OnIn, OpenIn
    <3>3. HedgedOn(Process)' = [t \in Tickers |-> NoExchange]
      BY <1>0, <3>1, <3>2, HedgedIs
    <3> QED
      BY <2>4, <3>3 DEF Book!Next, Book!Forget
  <2> QED
    BY <1>0, <2>1, <2>3, <2>4 DEF DiskInv
<1>5. ASSUME Restart(v) PROVE Store(v)' = Store(v)
  BY <1>0, <1>5 DEF Restart, Store, Inv, TypeOK, Load, Normalize, Classify
<1>6. CASE UNCHANGED vars
  BY <1>2, <1>6 DEF vars, Store, Load, Normalize, Classify
<1> QED
  BY <1>1, <1>2, <1>3, <1>4, <1>5, <1>6 DEF Next

\* One process keeps its book: a ticker is hedged on one exchange at a time and changes
\* it only by closing first, through crashes and restarts; the book is lost as a whole
\* only where a save can be cut short.
THEOREM BookSpecHolds ==
    ASSUME NEW v, Workers = {v}
    PROVE  Spec => BookSpec
<1>1. Init => Book!Init
  <2> SUFFICES ASSUME Init PROVE Book!Init
    OBVIOUS
  <2>1. Process = v
    BY DEF Process
  <2>2. Store(v) = <<>>
    BY DEF Init, Store
  <2>3. \A t \in Tickers : OnIn(<<>>, t) = NoExchange
    BY DEF OnIn, OpenIn
  <2> QED
    BY <2>1, <2>2, <2>3, HedgedIs DEF Book!Init
<1>2. Inv /\ Inv' /\ FillInv /\ DiskInv /\ [Next]_vars => [Book!Next]_(HedgedOn(Process))
  BY StepIsBooked
<1> QED
  BY <1>1, <1>2, InvHolds, FillInvHolds, DiskInvHolds, PTL DEF Spec, BookSpec, Book!Spec
-----------------------------------------------------------------------------
(* Sums.  MapThenSumSet is a function over the subsets of a finite set; there *)
(* is one such function, and it may take the elements in any order.           *)

\* A set of numbers has a least one.
LEMMA LeastOne ==
    ASSUME NEW S \in SUBSET Nat, S # {}
    PROVE  \E i \in S : \A j \in S : i <= j
<1>1. \E i \in S : \A j \in S : ~(<<j, i>> \in OpToRel(<, Nat))
    BY WFMin, NatLessThanWellFounded
<1>2. PICK i \in S : \A j \in S : ~(<<j, i>> \in OpToRel(<, Nat))
    BY <1>1
<1>3. \A j \in S : ~(j < i)
    BY <1>2 DEF OpToRel
<1>4. QED
    BY <1>3

\* Induction over the subsets of a finite set.
LEMMA SubsetInduction ==
    ASSUME NEW S, IsFiniteSet(S), NEW P,
           \A U \in SUBSET S : (\A V \in SUBSET U : V # U => V \in P) => U \in P
    PROVE  \A U \in SUBSET S : U \in P
<1> SUFFICES ASSUME NEW U \in SUBSET S, U \notin P PROVE FALSE
    OBVIOUS
<1> DEFINE Sizes == {Cardinality(V) : V \in {W \in SUBSET S : W \notin P}}
<1>1. \A V \in SUBSET S : IsFiniteSet(V) /\ Cardinality(V) \in Nat
    BY FS_Subset, FS_CardinalityType
<1>2. Sizes \in SUBSET Nat /\ Sizes # {}
    BY <1>1
<1>3. PICK n \in Sizes : \A m \in Sizes : n <= m
    BY <1>2, LeastOne
<1>4. PICK V \in SUBSET S : V \notin P /\ n = Cardinality(V)
    BY <1>3
<1>5. ASSUME NEW W \in SUBSET V, W # V PROVE W \in P
  <2>1. Cardinality(W) < Cardinality(V)
    BY <1>1, <1>5, FS_Subset
  <2>2. W \notin P => n <= Cardinality(W)
    BY <1>3
  <2>3. QED
    BY <1>1, <1>4, <2>1, <2>2
<1>6. QED
    BY <1>4, <1>5

\* g is a table of the sums of f over the subsets of S, each taken one element after another.
Adds(g, f, S) ==
    g = [s \in SUBSET S |-> IF s = {} THEN 0
                            ELSE f[CHOOSE x \in s : TRUE] + g[s \ {CHOOSE x \in s : TRUE}]]

\* What such a table says of a set: zero, or an element's value and the rest.
LEMMA AddsMeans ==
    ASSUME NEW g, NEW f, NEW S, Adds(g, f, S), NEW U \in SUBSET S
    PROVE  /\ U = {} => g[U] = 0
           /\ U # {} => \E x \in U : x = (CHOOSE y \in U : TRUE) /\ g[U] = f[x] + g[U \ {x}]
<1>1. U # {} => (CHOOSE y \in U : TRUE) \in U
    OBVIOUS
<1>2. g[U] = IF U = {} THEN 0 ELSE f[CHOOSE x \in U : TRUE] + g[U \ {CHOOSE x \in U : TRUE}]
    BY Zenon DEF Adds
<1>3. QED
    BY <1>1, <1>2

\* Two tables say the same of a set on whose elements the functions agree.
LEMMA AddsAgree ==
    ASSUME NEW g, NEW f, NEW S, Adds(g, f, S), NEW h, NEW k, NEW T, Adds(h, k, T),
           NEW U \in SUBSET (S \cap T), IsFiniteSet(U), \A x \in U : f[x] = k[x]
    PROVE  g[U] = h[U]
<1> DEFINE P == {V \in SUBSET U : g[V] = h[V]}
<1>1. ASSUME NEW V \in SUBSET U, \A W \in SUBSET V : W # V => W \in P
      PROVE  V \in P
  <2>1. CASE V = {}
    BY <2>1, AddsMeans
  <2>2. CASE V # {}
    <3>1. PICK x \in V : x = (CHOOSE y \in V : TRUE) /\ g[V] = f[x] + g[V \ {x}]
      BY <2>2, AddsMeans
    <3>2. PICK z \in V : z = (CHOOSE y \in V : TRUE) /\ h[V] = k[z] + h[V \ {z}]
      BY <2>2, AddsMeans
    <3>3. x = z /\ f[x] = k[x] /\ V \ {x} \in P
      BY <1>1, <3>1, <3>2
    <3>4. QED
      BY <3>1, <3>2, <3>3
  <2>3. QED
    BY <2>1, <2>2
<1>2. \A V \in SUBSET U : V \in P
  <2> HIDE DEF P
  <2> QED
    BY <1>1, SubsetInduction
<1>3. QED
    BY <1>2

\* There is such a table.
LEMMA AddsExists ==
    ASSUME NEW f, NEW S, IsFiniteSet(S)
    PROVE  \E g : Adds(g, f, S)
<1> DEFINE P == {V \in SUBSET S : \E g : Adds(g, f, V)}
           G(V) == CHOOSE g : Adds(g, f, V)
<1>1. ASSUME NEW U \in SUBSET S, \A V \in SUBSET U : V # U => V \in P
      PROVE  \E g : Adds(g, f, U)
  <2> DEFINE g == [s \in SUBSET U |-> IF s = {} THEN 0
                      ELSE f[CHOOSE x \in s : TRUE]
                           + G(s \ {CHOOSE x \in s : TRUE})[s \ {CHOOSE x \in s : TRUE}]]
  <2>1. ASSUME NEW V \in SUBSET U, V # U PROVE Adds(G(V), f, V) /\ IsFiniteSet(V)
    <3>1. \E q : Adds(q, f, V)
      BY <1>1, <2>1
    <3>2. IsFiniteSet(V)
      BY FS_Subset
    <3>3. QED
      BY <3>1, <3>2
  <2>2. ASSUME NEW V \in SUBSET U, V # U PROVE g[V] = G(V)[V]
    <3>1. CASE V = {}
      <4>1. g[V] = 0
        BY <3>1
      <4>2. G(V)[V] = 0
        BY <2>1, <2>2, <3>1, AddsMeans
      <4>3. QED
        BY <4>1, <4>2
    <3>2. CASE V # {}
      <4>1. PICK x \in V : x = (CHOOSE y \in V : TRUE) /\ G(V)[V] = f[x] + G(V)[V \ {x}]
        <5> HIDE DEF G
        <5> QED BY <2>1, <2>2, <3>2, AddsMeans
      <4>2. g[V] = f[x] + G(V \ {x})[V \ {x}]
        <5> HIDE DEF G
        <5> QED BY <3>2, <4>1
      <4>3. V \ {x} \in SUBSET U /\ V \ {x} # U
        BY <4>1
      <4>4. G(V)[V \ {x}] = G(V \ {x})[V \ {x}]
        <5> HIDE DEF G
        <5> QED BY <2>1, <2>2, <4>3, AddsAgree
      <4>5. QED
        BY <4>1, <4>2, <4>4
    <3>3. QED
      BY <3>1, <3>2
  <2>3. ASSUME NEW s \in SUBSET U, s # {}
        PROVE G(s \ {CHOOSE x \in s : TRUE})[s \ {CHOOSE x \in s : TRUE}] = g[s \ {CHOOSE x \in s : TRUE}]
    <3>1. (CHOOSE x \in s : TRUE) \in s
      BY <2>3
    <3>2. s \ {CHOOSE x \in s : TRUE} \in SUBSET U /\ s \ {CHOOSE x \in s : TRUE} # U
      BY <3>1
    <3>3. QED
      <4> HIDE DEF g, G
      <4> QED BY <2>2, <3>2
  <2>4. Adds(g, f, U)
    <3>1. \A s \in SUBSET U : g[s] = IF s = {} THEN 0
                            ELSE f[CHOOSE x \in s : TRUE] + g[s \ {CHOOSE x \in s : TRUE}]
      <4> SUFFICES ASSUME NEW s \in SUBSET U PROVE g[s] = IF s = {} THEN 0
                            ELSE f[CHOOSE x \in s : TRUE] + g[s \ {CHOOSE x \in s : TRUE}]
        OBVIOUS
      <4>1. g[s] = IF s = {} THEN 0
                      ELSE f[CHOOSE x \in s : TRUE]
                           + G(s \ {CHOOSE x \in s : TRUE})[s \ {CHOOSE x \in s : TRUE}]
        OBVIOUS
      <4> HIDE DEF g, G
      <4> QED BY <4>1, <2>3
    <3>2. g = [s \in SUBSET U |-> g[s]]
      OBVIOUS
    <3>3. QED
      <4> HIDE DEF g
      <4> QED BY <3>1, <3>2, Zenon DEF Adds
  <2>5. QED
    <3> HIDE DEF g
    <3> QED BY <2>4
<1>2. \A V \in SUBSET S : V \in P
  <2>1. \A U \in SUBSET S : (\A V \in SUBSET U : V # U => V \in P) => U \in P
    BY <1>1
  <2> HIDE DEF P
  <2> QED
    BY <2>1, SubsetInduction
<1>3. QED
    BY <1>2

\* Total(f) is what any table of partial sums says.
LEMMA TotalIs ==
    ASSUME NEW f, NEW S, DOMAIN f = S, IsFiniteSet(S)
    PROVE  \E g : Adds(g, f, S) /\ Total(f) = g[S]
<1>1. \E g : Adds(g, f, S)
    BY AddsExists
<1>2. Adds(CHOOSE g : Adds(g, f, S), f, S)
    BY <1>1
<1>3. Total(f) = (CHOOSE g : Adds(g, f, S))[S]
    BY Zenon DEF Total, MapThenSumSet, MapThenFoldSet, Adds
<1>4. QED
    BY <1>2, <1>3

\* Any element of a set may be the last one added.
LEMMA AddsRemove ==
    ASSUME NEW g, NEW f, NEW S, IsFiniteSet(S), Adds(g, f, S), \A x \in S : f[x] \in Int,
           NEW U \in SUBSET S
    PROVE  g[U] \in Int /\ \A x \in U : g[U] = f[x] + g[U \ {x}]
<1> DEFINE P == {V \in SUBSET S : g[V] \in Int /\ \A x \in V : g[V] = f[x] + g[V \ {x}]}
<1>1. ASSUME NEW V \in SUBSET S, \A W \in SUBSET V : W # V => W \in P
      PROVE  V \in P
  <2>1. CASE V = {}
    BY <2>1, AddsMeans
  <2>2. CASE V # {}
    <3>1. PICK c \in V : g[V] = f[c] + g[V \ {c}]
      BY <2>2, AddsMeans
    <3>2. V \ {c} \in P
      BY <1>1, <3>1
    <3>3. ASSUME NEW x \in V, x # c PROVE g[V] = f[x] + g[V \ {x}]
      <4> DEFINE R == (V \ {c}) \ {x}
      <4>1. g[V \ {c}] = f[x] + g[R]
        BY <3>2, <3>3
      <4>2. R = (V \ {x}) \ {c} /\ R \in SUBSET V /\ R # V
        OBVIOUS
      <4>3. V \ {x} \in P
        BY <1>1
      <4>4. g[V \ {x}] = f[c] + g[R]
        BY <3>1, <3>3, <4>2, <4>3
      <4>5. g[R] \in Int
        BY <1>1, <4>2
      <4>6. f[x] \in Int /\ f[c] \in Int
        OBVIOUS
      <4> HIDE DEF R
      <4>7. QED
        BY <3>1, <4>1, <4>4, <4>5, <4>6
    <3>4. g[V] \in Int
      BY <3>1, <3>2
    <3>5. QED
      BY <3>1, <3>3, <3>4
  <2>3. QED
    BY <2>1, <2>2
<1>2. \A V \in SUBSET S : V \in P
  <2> HIDE DEF P
  <2> QED
    BY <1>1, SubsetInduction
<1>3. QED
    BY <1>2

\* The sum of no value, and of one value more.
LEMMA TotalAdd ==
    ASSUME NEW S, IsFiniteSet(S), NEW f \in [S -> Int], NEW x, x \notin S,
           NEW k \in [S \cup {x} -> Int], \A y \in S : k[y] = f[y]
    PROVE  Total(f) \in Int /\ Total(k) = Total(f) + k[x]
<1>1. IsFiniteSet(S \cup {x})
    BY FS_AddElement
<1>2. PICK g : Adds(g, f, S) /\ Total(f) = g[S]
    BY TotalIs
<1>3. PICK h : Adds(h, k, S \cup {x}) /\ Total(k) = h[S \cup {x}]
    BY <1>1, TotalIs
<1>4. g[S] \in Int
    BY <1>2, AddsRemove
<1>5. h[S \cup {x}] = k[x] + h[(S \cup {x}) \ {x}]
  <2>1. \A y \in S \cup {x} : k[y] \in Int
    OBVIOUS
  <2>2. QED
    BY <1>1, <1>3, <2>1, AddsRemove
<1>6. (S \cup {x}) \ {x} = S
    OBVIOUS
<1>7. h[S] = g[S]
    BY <1>2, <1>3, AddsAgree
<1>8. k[x] \in Int
    OBVIOUS
<1>9. Total(k) = k[x] + g[S]
    BY <1>3, <1>5, <1>6, <1>7, Zenon
<1>10. QED
    BY <1>2, <1>4, <1>8, <1>9

\* One value is replaced.
LEMMA TotalChange ==
    ASSUME NEW S, IsFiniteSet(S), NEW f \in [S -> Int], NEW k \in [S -> Int], NEW x \in S,
           \A y \in S \ {x} : k[y] = f[y]
    PROVE  Total(f) \in Int /\ Total(k) = Total(f) - f[x] + k[x]
<1> DEFINE r == [y \in S \ {x} |-> f[y]]
<1>1. IsFiniteSet(S \ {x}) /\ x \notin S \ {x} /\ (S \ {x}) \cup {x} = S
    BY FS_Subset
<1>2. r \in [S \ {x} -> Int] /\ \A y \in S \ {x} : r[y] = f[y] /\ r[y] = k[y]
    OBVIOUS
<1> HIDE DEF r
<1>3. Total(r) \in Int /\ Total(f) = Total(r) + f[x]
    BY <1>1, <1>2, TotalAdd
<1>4. Total(k) = Total(r) + k[x]
    BY <1>1, <1>2, TotalAdd
<1>5. f[x] \in Int /\ k[x] \in Int
    OBVIOUS
<1>6. QED
    BY <1>3, <1>4, <1>5

\* A sum of zeros.
LEMMA TotalZero ==
    ASSUME NEW S, IsFiniteSet(S), NEW f \in [S -> Int], \A y \in S : f[y] = 0
    PROVE  Total(f) = 0
<1>1. PICK g : Adds(g, f, S) /\ Total(f) = g[S]
    BY TotalIs
<1> DEFINE P == {V \in SUBSET S : g[V] = 0}
<1>2. ASSUME NEW V \in SUBSET S, \A W \in SUBSET V : W # V => W \in P
      PROVE  V \in P
  <2>1. CASE V = {}
    BY <1>1, <2>1, AddsMeans
  <2>2. CASE V # {}
    <3>1. PICK c \in V : g[V] = f[c] + g[V \ {c}]
      BY <1>1, <2>2, AddsMeans
    <3>2. V \ {c} \in P
      BY <1>2, <3>1
    <3>3. QED
      BY <3>1, <3>2
  <2>3. QED
    BY <2>1, <2>2
<1>3. \A V \in SUBSET S : V \in P
  <2> HIDE DEF P
  <2> QED
    BY <1>2, SubsetInduction
<1>4. QED
    BY <1>1, <1>3

\* The sum of whole numbers is one.
LEMMA TotalInt ==
    ASSUME NEW S, IsFiniteSet(S), NEW f \in [S -> Int]
    PROVE  Total(f) \in Int
<1>1. CASE S = {}
  <2>1. \A y \in S : f[y] = 0
    BY <1>1
  <2> QED
    BY <2>1, TotalZero
<1>2. CASE S # {}
  <2>1. PICK x \in S : TRUE
    BY <1>2
  <2> QED
    BY <2>1, TotalChange
<1> QED
  BY <1>1, <1>2

-----------------------------------------------------------------------------
(* What the venues hold is what the books say.  The spot of a ticker and its  *)
(* short on each exchange are accounts; a job and an attempt have lots in     *)
(* them.                                                                      *)

\* One process that lives and hears of every fill.
Reliable(v) ==
    /\ Workers = {v} /\ ~LateFills /\ ~CrashesOn
    /\ IsFiniteSet(Callers) /\ IsFiniteSet(Exchanges)

\* e: the exchange of the short, or NoExchange for the spot.
Account == [t: Tickers, e: Exchanges \cup {NoExchange}]

\* Of s spot and f short lots of ticker t on exchange e, those of the account c.
Lots(c, t, e, s, f) ==
    IF c.e = NoExchange THEN Counted(t = c.t, s) ELSE Counted(t = c.t /\ e = c.e, f)

JobLots(c, j) == Lots(c, j.ticker, j.ex, j.legS, j.legF)
CallLots(c, h) ==
    IF req[h] = NoRequest THEN 0 ELSE Lots(c, req[h].t, req[h].ex, att[h].netS, att[h].netF)

InJobs(c, w) == Total([i \in DOMAIN jobs[w] |-> JobLots(c, jobs[w][i])])
InCalls(c) == Total([h \in Callers |-> CallLots(c, h)])
AtVenue(c) == IF c.e = NoExchange THEN SpotAtVenues(c.t) ELSE ShortAtVenue(c.t, c.e)

Balanced(v) == \A c \in Account : InJobs(c, v) + InCalls(c) = AtVenue(c)

\* Lots are whole numbers, and no lots are none in any account.
LEMMA LotsAre ==
    ASSUME NEW c \in Account, NEW t, NEW e, NEW s \in Int, NEW f \in Int
    PROVE  /\ Lots(c, t, e, s, f) \in Int
           /\ s = 0 /\ f = 0 => Lots(c, t, e, s, f) = 0
BY DEF Lots, Counted

\* Lots add up account by account.
LEMMA LotsAdd ==
    ASSUME NEW c \in Account, NEW t, NEW e, NEW s \in Int, NEW f \in Int, NEW d \in Int, NEW g \in Int
    PROVE  Lots(c, t, e, s + d, f + g) = Lots(c, t, e, s, f) + Lots(c, t, e, d, g)
BY DEF Lots, Counted

\* The accounts balance when the legs match.
LEMMA BalancedIs ==
    ASSUME Inv, NEW v, Reliable(v)
    PROVE  LegsMatchVenues <=> Balanced(v)
<1>1. \A h \in Callers : Home[h] = v /\ att[h].netS \in Nat /\ att[h].netF \in Nat
  BY ModelAssumption DEF Reliable, Inv, TypeOK, Attempt
<1>2. ASSUME NEW t \in Tickers
      PROVE  LET c == [t |-> t, e |-> NoExchange] IN
             /\ c \in Account
             /\ InJobs(c, v) + InCalls(c) = AtVenue(c) <=> SpotInBooks(v, t) = SpotAtVenues(t)
  <2> DEFINE c == [t |-> t, e |-> NoExchange]
  <2>1. c \in Account /\ c.t = t /\ c.e = NoExchange
    BY DEF Account
  <2> HIDE DEF c
  <2>2. \A i \in DOMAIN jobs[v] : JobLots(c, jobs[v][i]) = Counted(jobs[v][i].ticker = t, jobs[v][i].legS)
    BY <2>1 DEF JobLots, Lots
  <2>3. \A h \in Callers : CallLots(c, h) = Counted(Mine(h, v, t), att[h].netS)
    BY <1>1, <2>1 DEF CallLots, Lots, Mine, Counted
  <2>4. [i \in DOMAIN jobs[v] |-> JobLots(c, jobs[v][i])]
          = [i \in DOMAIN jobs[v] |-> Counted(jobs[v][i].ticker = t, jobs[v][i].legS)]
    BY <2>2
  <2>5. [h \in Callers |-> CallLots(c, h)] = [h \in Callers |-> Counted(Mine(h, v, t), att[h].netS)]
    BY <2>3
  <2>6. InJobs(c, v) + InCalls(c) = SpotInBooks(v, t)
    BY <2>4, <2>5, Zenon DEF InJobs, InCalls, SpotInBooks
  <2>7. AtVenue(c) = SpotAtVenues(t)
    BY <2>1 DEF AtVenue
  <2> QED
    BY <2>1, <2>6, <2>7 DEF c
<1>3. ASSUME NEW t \in Tickers, NEW e \in Exchanges
      PROVE  LET c == [t |-> t, e |-> e] IN
             /\ c \in Account
             /\ InJobs(c, v) + InCalls(c) = AtVenue(c) <=> ShortInBooks(v, t, e) = ShortAtVenue(t, e)
  <2> DEFINE c == [t |-> t, e |-> e]
  <2>1. c \in Account /\ c.t = t /\ c.e = e /\ c.e # NoExchange
    BY ModelAssumption DEF Account
  <2> HIDE DEF c
  <2>2. \A i \in DOMAIN jobs[v] :
           JobLots(c, jobs[v][i]) = Counted(jobs[v][i].ticker = t /\ jobs[v][i].ex = e, jobs[v][i].legF)
    BY <2>1 DEF JobLots, Lots, Counted
  <2>3. \A h \in Callers : CallLots(c, h) = Counted(Mine(h, v, t) /\ req[h].ex = e, att[h].netF)
    BY <1>1, <2>1 DEF CallLots, Lots, Mine, Counted
  <2>4. [i \in DOMAIN jobs[v] |-> JobLots(c, jobs[v][i])]
          = [i \in DOMAIN jobs[v] |->
                Counted(jobs[v][i].ticker = t /\ jobs[v][i].ex = e, jobs[v][i].legF)]
    BY <2>2
  <2>5. [h \in Callers |-> CallLots(c, h)]
          = [h \in Callers |-> Counted(Mine(h, v, t) /\ req[h].ex = e, att[h].netF)]
    BY <2>3
  <2>6. InJobs(c, v) + InCalls(c) = ShortInBooks(v, t, e)
    BY <2>4, <2>5, Zenon DEF InJobs, InCalls, ShortInBooks
  <2>7. AtVenue(c) = ShortAtVenue(t, e)
    BY <2>1 DEF AtVenue
  <2> QED
    BY <2>1, <2>6, <2>7 DEF c
<1>4. \A c \in Account : /\ c = [t |-> c.t, e |-> c.e] /\ c.t \in Tickers
                         /\ c.e = NoExchange \/ c.e \in Exchanges
  BY DEF Account
<1>5. LegsMatchVenues <=> \A t \in Tickers : /\ SpotInBooks(v, t) = SpotAtVenues(t)
                                             /\ \A e \in Exchanges : ShortInBooks(v, t, e) = ShortAtVenue(t, e)
  BY DEF LegsMatchVenues, Reliable
<1>6. ASSUME Balanced(v) PROVE LegsMatchVenues
  BY <1>2, <1>3, <1>5, <1>6 DEF Balanced
<1>7. ASSUME LegsMatchVenues PROVE Balanced(v)
  <2> SUFFICES ASSUME NEW c \in Account PROVE InJobs(c, v) + InCalls(c) = AtVenue(c)
    BY DEF Balanced
  <2> DEFINE t == c.t
             e == c.e
  <2>1. c = [t |-> t, e |-> e] /\ t \in Tickers /\ (e = NoExchange \/ e \in Exchanges)
    BY <1>4
  <2> HIDE DEF t, e
  <2>2. CASE e = NoExchange
    BY <1>2, <1>5, <1>7, <2>1, <2>2
  <2>3. CASE e \in Exchanges
    BY <1>3, <1>5, <1>7, <2>1, <2>3
  <2> QED
    BY <2>1, <2>2, <2>3
<1> QED
  BY <1>6, <1>7

\* What one coroutine has in the books changes.
LEMMA CallsChange ==
    ASSUME Inv, Inv', NEW v, Reliable(v), NEW c \in Account, NEW h \in Callers,
           \A g \in Callers \ {h} : CallLots(c, g)' = CallLots(c, g)
    PROVE  /\ InCalls(c) \in Int /\ CallLots(c, h) \in Int /\ CallLots(c, h)' \in Int
           /\ InCalls(c)' = InCalls(c) - CallLots(c, h) + CallLots(c, h)'
<1> DEFINE f == [g \in Callers |-> CallLots(c, g)]
           k == [g \in Callers |-> CallLots(c, g)']
<1>1. ASSUME NEW g \in Callers PROVE CallLots(c, g) \in Int /\ CallLots(c, g)' \in Int
  <2>1. att[g] \in Attempt /\ att'[g] \in Attempt
    BY DEF Inv, TypeOK
  <2>2. /\ att[g].netS \in Int /\ att[g].netF \in Int
        /\ att'[g].netS \in Int /\ att'[g].netF \in Int
    BY <2>1 DEF Attempt
  <2>3. CallLots(c, g) \in Int
    BY <2>2 DEF CallLots, Lots, Counted
  <2>4. CallLots(c, g)' \in Int
    BY <2>2 DEF CallLots, Lots, Counted
  <2> QED
    BY <2>3, <2>4
<1>2. f \in [Callers -> Int] /\ k \in [Callers -> Int]
  BY <1>1
<1>3. \A g \in Callers \ {h} : k[g] = f[g]
  OBVIOUS
<1>4. f[h] = CallLots(c, h) /\ k[h] = CallLots(c, h)'
  OBVIOUS
<1>5. InCalls(c) = Total(f) /\ InCalls(c)' = Total(k)
  BY DEF InCalls
<1> HIDE DEF f, k
<1>6. Total(f) \in Int /\ Total(k) = Total(f) - f[h] + k[h]
  BY <1>2, <1>3, TotalChange DEF Reliable
<1> QED
  BY <1>1, <1>4, <1>5, <1>6

\* What the jobs have of an account, as the list of jobs changes.
LEMMA JobsChange ==
    ASSUME Inv, NEW v, Reliable(v), NEW c \in Account
    PROVE  /\ InJobs(c, v) \in Int
           /\ jobs' = jobs => InJobs(c, v)' = InJobs(c, v)
           /\ \A j \in Job : CreateJob(v, j) => InJobs(c, v)' = InJobs(c, v) + JobLots(c, j)
           /\ \A i \in DOMAIN jobs[v], j \in Job :
                 UpdateJob(v, i, j) =>
                    InJobs(c, v)' = InJobs(c, v) - JobLots(c, jobs[v][i]) + JobLots(c, j)
<1> DEFINE S == DOMAIN jobs[v]
           f == [i \in S |-> JobLots(c, jobs[v][i])]
<1>1. v \in Workers /\ jobs[v] \in Seq(Job) /\ jobs \in [Workers -> Seq(Job)] /\ file \in Seq(Job)
  BY DEF Reliable, Inv, TypeOK
<1>2. S = 1..Len(jobs[v]) /\ Len(jobs[v]) \in Nat
  BY <1>1
<1>3. IsFiniteSet(S)
  BY <1>2, FS_Interval
<1>4. \A j \in Job : JobLots(c, j) \in Int
  BY LotsAre DEF JobLots, Job
<1>5. f \in [S -> Int]
  BY <1>1, <1>4
<1>6. InJobs(c, v) = Total(f)
  BY DEF InJobs
<1>7. \A j \in Job : JobLots(c, Normalize(j)) = JobLots(c, j)
  BY DEF Normalize, JobLots, Job
<1>8. jobs' = jobs => InJobs(c, v)' = InJobs(c, v)
  BY DEF InJobs
<1>9. Total(f) \in Int
  BY <1>3, <1>5, TotalInt
<1>10. ASSUME NEW j \in Job, CreateJob(v, j)
       PROVE  InJobs(c, v)' = InJobs(c, v) + JobLots(c, j)
  <2> DEFINE x == Len(jobs[v]) + 1
             k == [i \in S \cup {x} |-> JobLots(c, jobs'[v][i])]
  <2>1. /\ jobs' \in [Workers -> Seq(Job)] /\ DOMAIN jobs'[v] = S \cup {x}
        /\ \A i \in S : jobs'[v][i] = jobs[v][i]
        /\ jobs'[v][x] = Normalize(j)
    BY <1>1, <1>10, CreateLemma
  <2>2. x \notin S
    BY <1>2
  <2>3. k \in [S \cup {x} -> Int] /\ k[x] = JobLots(c, j) /\ \A i \in S : k[i] = f[i]
    BY <1>1, <1>4, <1>7, <2>1
  <2>4. InJobs(c, v)' = Total(k)
    BY <2>1 DEF InJobs
  <2> HIDE DEF S, f, k, x
  <2> QED
    BY <1>3, <1>5, <1>6, <2>2, <2>3, <2>4, TotalAdd
<1>11. ASSUME NEW x \in S, NEW j \in Job, UpdateJob(v, x, j)
       PROVE  InJobs(c, v)' = InJobs(c, v) - JobLots(c, jobs[v][x]) + JobLots(c, j)
  <2> DEFINE k == [i \in S |-> JobLots(c, jobs'[v][i])]
  <2>1. /\ jobs' \in [Workers -> Seq(Job)] /\ DOMAIN jobs'[v] = S
        /\ \A i \in S \ {x} : jobs'[v][i] = jobs[v][i]
        /\ jobs'[v][x] = Normalize(j)
    BY <1>1, <1>11, UpdateLemma
  <2>2. k \in [S -> Int] /\ k[x] = JobLots(c, j) /\ \A i \in S \ {x} : k[i] = f[i]
    BY <1>1, <1>4, <1>7, <2>1
  <2>3. InJobs(c, v)' = Total(k)
    BY <2>1 DEF InJobs
  <2>4. f[x] = JobLots(c, jobs[v][x])
    OBVIOUS
  <2> HIDE DEF S, f, k
  <2> QED
    BY <1>3, <1>5, <1>6, <2>2, <2>3, <2>4, TotalChange
<1> QED
  BY <1>6, <1>8, <1>9, <1>10, <1>11

\* An attempt without legs has no lots.
LEMMA NoLots ==
    ASSUME Inv, NEW c \in Account, NEW h \in Callers, att[h].netS = 0, att[h].netF = 0
    PROVE  CallLots(c, h) = 0
BY LotsAre DEF CallLots, Lots, Counted

\* What a step adds to an account, in a job or in a coroutine's attempt, it adds at the
\* venue.
LEMMA Posting ==
    ASSUME Inv, Inv', NEW v, Reliable(v), Balanced(v), NEW h \in Callers,
           \A g \in Callers \ {h} : req'[g] = req[g] /\ att'[g] = att[g],
           \A c \in Account : \E dj, dc \in Int :
              /\ InJobs(c, v)' = InJobs(c, v) + dj
              /\ CallLots(c, h)' = CallLots(c, h) + dc
              /\ AtVenue(c)' = AtVenue(c) + dj + dc
    PROVE  Balanced(v)'
<1> SUFFICES ASSUME NEW c \in Account
             PROVE  InJobs(c, v)' + InCalls(c)' = AtVenue(c)'
  BY DEF Balanced
<1>1. PICK dj \in Int, dc \in Int :
              /\ InJobs(c, v)' = InJobs(c, v) + dj
              /\ CallLots(c, h)' = CallLots(c, h) + dc
              /\ AtVenue(c)' = AtVenue(c) + dj + dc
  OBVIOUS
<1>2. \A g \in Callers \ {h} : CallLots(c, g)' = CallLots(c, g)
  BY DEF CallLots
<1>3. /\ InCalls(c) \in Int /\ CallLots(c, h) \in Int
      /\ InCalls(c)' = InCalls(c) - CallLots(c, h) + CallLots(c, h)'
  BY <1>2, CallsChange
<1>4. InJobs(c, v) \in Int
  BY JobsChange
<1>5. AtVenue(c) = InJobs(c, v) + InCalls(c)
  BY DEF Balanced
<1> QED
  BY <1>1, <1>3, <1>4, <1>5

\* Nothing moves.
LEMMA NothingPosted ==
    ASSUME Inv, Inv', NEW v, Reliable(v), Balanced(v), NEW h \in Callers,
           \A g \in Callers \ {h} : req'[g] = req[g] /\ att'[g] = att[g],
           \A c \in Account : /\ InJobs(c, v)' = InJobs(c, v)
                              /\ CallLots(c, h)' = CallLots(c, h)
                              /\ AtVenue(c)' = AtVenue(c)
    PROVE  Balanced(v)'
<1> SUFFICES ASSUME NEW c \in Account
             PROVE  InJobs(c, v)' + InCalls(c)' = AtVenue(c)'
  BY DEF Balanced
<1>1. \A g \in Callers : CallLots(c, g)' = CallLots(c, g)
  BY DEF CallLots
<1>2. InCalls(c)' = InCalls(c)
  BY <1>1, CallsChange
<1> QED
  BY <1>2 DEF Balanced

\* What the venues hold are whole numbers.
LEMMA VenueInt ==
    ASSUME Inv, NEW v, Reliable(v), NEW t \in Tickers
    PROVE  /\ mkt[t] \in Market
           /\ mkt[t].coin \in Int /\ mkt[t].coinClosed \in Int /\ Total(mkt[t].moved) \in Int
           /\ \A e \in Exchanges : mkt[t].short[e] \in Int /\ mkt[t].closed[e] \in Int
           /\ \A c \in Account : AtVenue(c) \in Int
<1>1. \A x \in Tickers :
         /\ mkt[x] \in Market
         /\ mkt[x].coin \in Int /\ mkt[x].coinClosed \in Int /\ mkt[x].moved \in [Exchanges -> Int]
         /\ \A e \in Exchanges : mkt[x].short[e] \in Int /\ mkt[x].closed[e] \in Int
  BY DEF Inv, TypeOK, Market
<1>2. \A x \in Tickers : Total(mkt[x].moved) \in Int
  BY <1>1, TotalInt DEF Reliable
<1>3. \A c \in Account : AtVenue(c) \in Int
  BY <1>1, <1>2 DEF AtVenue, SpotAtVenues, ShortAtVenue, Account
<1> QED
  BY <1>1, <1>2, <1>3

\* The venues as they were.
LEMMA VenueSame ==
    ASSUME mkt' = mkt, NEW c
    PROVE  AtVenue(c)' = AtVenue(c)
BY DEF AtVenue, SpotAtVenues, ShortAtVenue

\* s lots of spot of the ticker t, and f of its short on e, come to the venues.
Comes(t, e, s, f) ==
    /\ \A u \in Tickers \ {t} : mkt'[u] = mkt[u]
    /\ mkt'[t].coin \in Int /\ mkt'[t].coinClosed \in Int
    /\ mkt'[t].coin + mkt'[t].coinClosed = mkt[t].coin + mkt[t].coinClosed + s
    /\ mkt'[t].moved = mkt[t].moved
    /\ mkt'[t].short[e] + mkt'[t].closed[e] = mkt[t].short[e] + mkt[t].closed[e] + f
    /\ \A x \in Exchanges \ {e} :
          mkt'[t].short[x] = mkt[t].short[x] /\ mkt'[t].closed[x] = mkt[t].closed[x]

LEMMA VenueMoves ==
    ASSUME Inv, NEW v, Reliable(v), NEW t \in Tickers, NEW e \in Exchanges,
           NEW s \in Int, NEW f \in Int, Comes(t, e, s, f)
    PROVE  \A c \in Account : AtVenue(c)' = AtVenue(c) + Lots(c, t, e, s, f)
<1> SUFFICES ASSUME NEW c \in Account
             PROVE  AtVenue(c)' = AtVenue(c) + Lots(c, t, e, s, f)
  OBVIOUS
<1> DEFINE m == mkt'[t]
<1>1. mkt'[t] = m /\ \A u \in Tickers \ {t} : mkt'[u] = mkt[u]
  BY DEF Comes
<1>2. c.t \in Tickers /\ (c.e = NoExchange \/ c.e \in Exchanges) /\ AtVenue(c) \in Int
  BY VenueInt DEF Account
<1>3. CASE c.t # t
  <2>1. Lots(c, t, e, s, f) = 0
    BY <1>3 DEF Lots, Counted
  <2>2. AtVenue(c)' = AtVenue(c)
    BY <1>1, <1>2, <1>3 DEF AtVenue, SpotAtVenues, ShortAtVenue
  <2> QED
    BY <1>2, <2>1, <2>2
<1>4. CASE c.t = t /\ c.e = NoExchange
  <2>1. Lots(c, t, e, s, f) = s
    BY <1>4 DEF Lots, Counted
  <2>2. AtVenue(c) = mkt[t].coin + mkt[t].coinClosed + Total(mkt[t].moved)
    BY <1>4 DEF AtVenue, SpotAtVenues
  <2>3. AtVenue(c)' = m.coin + m.coinClosed + Total(m.moved)
    BY <1>4 DEF AtVenue, SpotAtVenues
  <2> QED
    BY <2>1, <2>2, <2>3, VenueInt DEF Comes
<1>5. CASE c.t = t /\ c.e # NoExchange /\ c.e # e
  <2>1. Lots(c, t, e, s, f) = 0
    BY <1>5 DEF Lots, Counted
  <2>2. AtVenue(c)' = AtVenue(c)
    BY <1>1, <1>2, <1>5 DEF AtVenue, ShortAtVenue, Comes
  <2> QED
    BY <1>2, <2>1, <2>2
<1>6. CASE c.t = t /\ c.e # NoExchange /\ c.e = e
  <2>1. Lots(c, t, e, s, f) = f
    BY <1>6 DEF Lots, Counted
  <2>2. AtVenue(c) = mkt[t].short[e] + mkt[t].closed[e]
    BY <1>6 DEF AtVenue, ShortAtVenue
  <2>3. AtVenue(c)' = m.short[e] + m.closed[e]
    BY <1>6 DEF AtVenue, ShortAtVenue
  <2> QED
    BY <2>1, <2>2, <2>3 DEF Comes
<1> QED
  BY <1>3, <1>4, <1>5, <1>6

\* Nothing at the venues belongs to the service but what the operator moves about.
LEMMA OperatorMoves ==
    ASSUME Inv, NEW v, Reliable(v), NEW u \in Tickers, NEW e \in OperatorAt, Operator(u, e),
           NEW c \in Account
    PROVE  AtVenue(c)' = AtVenue(c)
<1>1. /\ e \in Exchanges /\ c.t \in Tickers /\ (c.e = NoExchange \/ c.e \in Exchanges)
      /\ mkt[u] \in Market /\ mkt[u].moved \in [Exchanges -> Int] /\ mkt \in [Tickers -> Market]
      /\ mkt[u].coin \in Int /\ mkt[u].coinClosed \in Int
      /\ mkt[u].short \in [Exchanges -> Int] /\ mkt[u].closed \in [Exchanges -> Int]
  <2>1. e \in Exchanges /\ c.t \in Tickers /\ (c.e = NoExchange \/ c.e \in Exchanges)
    BY ModelAssumption DEF Account
  <2>2. mkt[u] \in Market /\ mkt \in [Tickers -> Market]
    BY DEF Inv, TypeOK
  <2> QED
    BY <2>1, <2>2 DEF Market
<1>2. CASE Withdraw(u, e)
  <2>0. PICK n \in 1..mkt[u].coin : mkt' = [mkt EXCEPT ![u].coin = @ - n, ![u].moved[e] = @ + n]
    BY <1>2, Zenon DEF Withdraw
  <2>1. n \in Int
    BY <1>1
  <2>2. /\ \A x \in Tickers \ {u} : mkt'[x] = mkt[x]
        /\ mkt'[u].coin = mkt[u].coin - n /\ mkt'[u].coinClosed = mkt[u].coinClosed
        /\ mkt'[u].moved = [mkt[u].moved EXCEPT ![e] = @ + n]
        /\ mkt'[u].short = mkt[u].short /\ mkt'[u].closed = mkt[u].closed
    BY <1>1, <2>0, <2>1 DEF Market
  <2>3. Total(mkt'[u].moved) = Total(mkt[u].moved) + n
    <3> DEFINE k == mkt'[u].moved
    <3>1. k \in [Exchanges -> Int] /\ k[e] = mkt[u].moved[e] + n /\ mkt[u].moved[e] \in Int
          /\ \A x \in Exchanges \ {e} : k[x] = mkt[u].moved[x]
      BY <1>1, <2>0, <2>1, <2>2
    <3> HIDE DEF k
    <3>2. /\ Total(mkt[u].moved) \in Int
          /\ Total(k) = Total(mkt[u].moved) - mkt[u].moved[e] + k[e]
      BY <1>1, <3>1, TotalChange DEF Reliable
    <3>3. Total(k) = Total(mkt[u].moved) + n
      BY <2>1, <3>1, <3>2
    <3> QED
      BY <3>3 DEF k
  <2>4. SpotAtVenues(u)' = SpotAtVenues(u)
    <3>1. /\ SpotAtVenues(u) = mkt[u].coin + mkt[u].coinClosed + Total(mkt[u].moved)
          /\ SpotAtVenues(u)' = mkt'[u].coin + mkt'[u].coinClosed + Total(mkt'[u].moved)
      BY DEF SpotAtVenues
    <3> QED
      BY <1>1, <2>1, <2>2, <2>3, <3>1, VenueInt
  <2> QED
    BY <1>1, <2>2, <2>4 DEF AtVenue, SpotAtVenues, ShortAtVenue
<1>3. CASE SellSpot(u, e)
  <2>1. PICK n : mkt' = [mkt EXCEPT ![u].sold[e] = @ + n]
    BY <1>3 DEF SellSpot
  <2>2. \A x \in Tickers : /\ mkt'[x].coin = mkt[x].coin /\ mkt'[x].coinClosed = mkt[x].coinClosed
                           /\ mkt'[x].moved = mkt[x].moved
                           /\ mkt'[x].short = mkt[x].short /\ mkt'[x].closed = mkt[x].closed
    BY <1>1, <2>1 DEF Market
  <2> QED
    BY <1>1, <2>2 DEF AtVenue, SpotAtVenues, ShortAtVenue
<1>4. CASE BuyBack(u, e)
  <2>0. PICK n \in 1..mkt[u].short[e] :
           mkt' = [mkt EXCEPT ![u].short[e] = @ - n, ![u].buys[e] = @ + n, ![u].closed[e] = @ + n]
    BY <1>4, Zenon DEF BuyBack
  <2>1. n \in Int
    BY <1>1
  <2>2. /\ \A x \in Tickers \ {u} : mkt'[x] = mkt[x]
        /\ mkt'[u].coin = mkt[u].coin /\ mkt'[u].coinClosed = mkt[u].coinClosed
        /\ mkt'[u].moved = mkt[u].moved
        /\ mkt'[u].short = [mkt[u].short EXCEPT ![e] = @ - n]
        /\ mkt'[u].closed = [mkt[u].closed EXCEPT ![e] = @ + n]
    BY <1>1, <2>0, <2>1 DEF Market
  <2>3. \A x \in Exchanges : mkt'[u].short[x] + mkt'[u].closed[x] = mkt[u].short[x] + mkt[u].closed[x]
    BY <1>1, <2>1, <2>2
  <2> QED
    BY <1>1, <2>2, <2>3 DEF AtVenue, SpotAtVenues, ShortAtVenue
<1> QED
  BY <1>2, <1>3, <1>4 DEF Operator

\* A fill that an attempt notes is posted.
LEMMA FillPosts ==
    ASSUME Inv, Inv', NEW v, Reliable(v), Balanced(v), NEW h \in Callers, req[h] \in Request,
           jobs' = jobs, req' = req, \A g \in Callers \ {h} : att'[g] = att[g],
           NEW s \in Int, NEW f \in Int,
           att'[h].netS = att[h].netS + s, att'[h].netF = att[h].netF + f,
           \A c \in Account : AtVenue(c)' = AtVenue(c) + Lots(c, req[h].t, req[h].ex, s, f)
    PROVE  Balanced(v)'
<1>1. att[h].netS \in Int /\ att[h].netF \in Int
  BY DEF Inv, TypeOK, Attempt
<1>2. req[h] # NoRequest
  BY DEF Request, NoRequest
<1>3. ASSUME NEW c \in Account
      PROVE  \E dj, dc \in Int :
              /\ InJobs(c, v)' = InJobs(c, v) + dj
              /\ CallLots(c, h)' = CallLots(c, h) + dc
              /\ AtVenue(c)' = AtVenue(c) + dj + dc
  <2> DEFINE d == Lots(c, req[h].t, req[h].ex, s, f)
  <2>1. d \in Int
    BY LotsAre
  <2>2. CallLots(c, h) = Lots(c, req[h].t, req[h].ex, att[h].netS, att[h].netF)
    BY <1>2 DEF CallLots
  <2>3. CallLots(c, h)' = Lots(c, req[h].t, req[h].ex, att[h].netS + s, att[h].netF + f)
    <3>1. CallLots(c, h)' = Lots(c, req'[h].t, req'[h].ex, att'[h].netS, att'[h].netF)
      BY <1>2 DEF CallLots, Lots
    <3> QED
      BY <3>1
  <2>4. CallLots(c, h)' = CallLots(c, h) + d
    BY <1>1, <2>2, <2>3, LotsAdd
  <2>5. InJobs(c, v)' = InJobs(c, v) + 0 /\ AtVenue(c)' = AtVenue(c) + 0 + d
    <3>1. InJobs(c, v)' = InJobs(c, v) /\ InJobs(c, v) \in Int
      BY JobsChange
    <3>2. AtVenue(c) \in Int
      BY VenueInt DEF Account
    <3>3. AtVenue(c)' = AtVenue(c) + d
      OBVIOUS
    <3> HIDE DEF d
    <3> QED
      BY <2>1, <3>1, <3>2, <3>3
  <2> HIDE DEF d
  <2> QED
    BY <2>1, <2>4, <2>5
<1> QED
  BY <1>3, Posting

\* Every fill is reported.
LEMMA AllReported ==
    ASSUME NEW v, Reliable(v), NEW n \in Nat, NEW seen \in Reported(n)
    PROVE  seen = n
BY DEF Reported, Reliable

\* The Bithumb buy of an entry.
LEMMA FillSpotBuyLegs ==
    ASSUME Inv, Inv', FillInv, NEW v, Reliable(v), Balanced(v), NEW h \in Callers, LegsOf(h),
           FillSpotBuy(h)
    PROVE  LegsOf(h)' /\ Balanced(v)'
<1> DEFINE b(seen) == [att[h] EXCEPT !.spot = seen, !.netS = seen]
<1>1. PICK o \in att[h].flight :
         /\ o.leg = "spot" /\ o.side = "buy"
         /\ \E filled \in 0..(o.qty + Slip) : \E seen \in Reported(filled) :
               mkt' = [mkt EXCEPT ![req[h].t].coin = @ + filled] /\ Answered(h, o, b(seen))
  BY DEF FillSpotBuy
<1>2. PICK filled \in 0..(o.qty + Slip) : \E seen \in Reported(filled) :
               mkt' = [mkt EXCEPT ![req[h].t].coin = @ + filled] /\ Answered(h, o, b(seen))
  BY <1>1
<1>3. PICK seen \in Reported(filled) :
               mkt' = [mkt EXCEPT ![req[h].t].coin = @ + filled] /\ Answered(h, o, b(seen))
  BY <1>2
<1>4. /\ o.qty \in Nat /\ att[h] \in Attempt /\ pc[h] \in Attempting \cup {"closing"}
      /\ req[h].t \in Tickers
  BY InFlight
<1>5. filled \in Nat /\ seen = filled
  <2>1. filled \in Nat
    BY <1>4, ModelAssumption
  <2> QED
    BY <2>1, AllReported
<1>6. pc[h] = "entering"
  BY <1>1, <1>4 DEF FillInv, Figures, LegsOf, Attempting
<1>7. /\ b(seen) \in Attempt /\ b(seen).flight = att[h].flight /\ b(seen).job = att[h].job
      /\ b(seen).fresh = att[h].fresh /\ b(seen).netS = seen /\ b(seen).netF = att[h].netF
  BY <1>4, <1>5, AttemptFields DEF Attempt
<1>8. req' = req /\ Answered(h, o, b(seen))
  BY <1>3 DEF Answered
<1> HIDE DEF b
<1>9. /\ att'[h].flight = att[h].flight \ {o} /\ att'[h].netS = seen /\ att'[h].netF = att[h].netF
      /\ att'[h].job = att[h].job /\ att'[h].fresh = att[h].fresh
      /\ pc' = pc /\ jobs' = jobs /\ \A g \in Callers \ {h} : att'[g] = att[g]
  BY <1>7, <1>8, AnswerMeans
<1>10. att[h].netS = 0 /\ \A p \in att[h].flight : p.leg = "spot" => p = o
  BY <1>1, <1>6 DEF LegsOf
<1>11. LegsOf(h)'
  BY <1>6, <1>9, <1>10 DEF LegsOf, Attempting
<1>12. req[h] \in Request /\ req[h].ex \in Exchanges
  BY <1>6 DEF Inv, Asked, Locked
<1>13. \A c \in Account : AtVenue(c)' = AtVenue(c) + Lots(c, req[h].t, req[h].ex, filled, 0)
  <2>1. PICK t \in Tickers, e \in Exchanges : t = req[h].t /\ e = req[h].ex
    BY <1>4, <1>12
  <2>2. mkt' = [mkt EXCEPT ![t].coin = @ + filled]
    BY <1>3, <2>1
  <2>3. /\ mkt \in [Tickers -> Market]
        /\ mkt[t] \in Market /\ mkt[t].coin \in Int /\ mkt[t].coinClosed \in Int
        /\ \A x \in Exchanges : mkt[t].short[x] \in Int /\ mkt[t].closed[x] \in Int
    BY VenueInt DEF Inv, TypeOK
  <2>4. /\ \A u \in Tickers \ {t} : mkt'[u] = mkt[u]
        /\ mkt'[t].coin = mkt[t].coin + filled /\ mkt'[t].coinClosed = mkt[t].coinClosed
        /\ mkt'[t].moved = mkt[t].moved
        /\ mkt'[t].short = mkt[t].short /\ mkt'[t].closed = mkt[t].closed
    BY <2>2, <2>3 DEF Market
  <2>5. Comes(t, e, filled, 0)
    BY <1>5, <2>3, <2>4 DEF Comes
  <2> QED
    BY <1>5, <2>1, <2>5, VenueMoves
<1>14. att'[h].netS = att[h].netS + filled /\ att'[h].netF = att[h].netF + 0
  BY <1>4, <1>5, <1>9, <1>10 DEF Attempt
<1>15. Balanced(v)'
  BY <1>5, <1>8, <1>9, <1>12, <1>13, <1>14, FillPosts
<1> QED
  BY <1>11, <1>15

\* A fill of a close leaves the accounts as they are: what was sold or bought back to
\* close is still counted.
LEMMA ClosingFill ==
    ASSUME Inv, Inv', NEW v, Reliable(v), Balanced(v), NEW h \in Callers, LegsOf(h),
           pc[h] = "closing", NEW o \in att[h].flight, Answered(h, o, att[h]),
           NEW t \in Tickers, NEW e \in Exchanges, Comes(t, e, 0, 0)
    PROVE  LegsOf(h)' /\ Balanced(v)'
<1>1. att[h] \in Attempt
  BY InFlight
<1>2. /\ att'[h].flight = att[h].flight \ {o} /\ att'[h].netS = att[h].netS
      /\ att'[h].netF = att[h].netF /\ att'[h].job = att[h].job /\ att'[h].fresh = att[h].fresh
      /\ pc' = pc /\ jobs' = jobs /\ \A g \in Callers \ {h} : att'[g] = att[g]
  BY <1>1, AnswerMeans
<1>3. req' = req
  BY DEF Answered
<1>4. LegsOf(h)'
  BY <1>2 DEF LegsOf, Attempting
<1>5. ASSUME NEW c \in Account
      PROVE  /\ InJobs(c, v)' = InJobs(c, v) /\ CallLots(c, h)' = CallLots(c, h)
             /\ AtVenue(c)' = AtVenue(c)
  <2>1. AtVenue(c)' = AtVenue(c) + Lots(c, t, e, 0, 0)
    BY VenueMoves
  <2>2. AtVenue(c) \in Int /\ Lots(c, t, e, 0, 0) = 0
    BY VenueInt, LotsAre DEF Account
  <2>3. CallLots(c, h)' = CallLots(c, h)
    BY <1>2, <1>3 DEF CallLots
  <2> QED
    BY <1>2, <2>1, <2>2, <2>3, JobsChange
<1>6. Balanced(v)'
  BY <1>2, <1>3, <1>5, NothingPosted
<1> QED
  BY <1>4, <1>6

\* The Bithumb sell: a rollback, or the spot leg of close_job.
LEMMA FillSpotSellLegs ==
    ASSUME Inv, Inv', FillInv, NEW v, Reliable(v), Balanced(v), NEW h \in Callers, LegsOf(h),
           FillSpotSell(h)
    PROVE  LegsOf(h)' /\ Balanced(v)'
<1>0. att[h].flight # {}
  BY DEF FillSpotSell
<1>1. PICK t \in Tickers : t = req[h].t
  BY <1>0, InFlight
<1> DEFINE b(seen) == [att[h] EXCEPT !.undone = seen, !.netS = NetAfter(@, seen)]
           most(o) == Least(o.qty, AtLeast0(mkt[t].coin))
           sold(n) == mkt' = [mkt EXCEPT ![t].coin = @ - n,
                                         ![t].coinClosed = IF pc[h] = "closing" THEN @ + n ELSE @]
           after(seen) == IF pc[h] = "closing" THEN att[h] ELSE b(seen)
<1>2. PICK o \in att[h].flight :
         /\ o.leg = "spot" /\ o.side = "sell"
         /\ \E filled \in 0..most(o) : \E seen \in Reported(filled) :
               sold(filled) /\ Answered(h, o, after(seen))
  BY <1>1 DEF FillSpotSell
<1>3. PICK filled \in 0..most(o) : \E seen \in Reported(filled) :
               sold(filled) /\ Answered(h, o, after(seen))
  BY <1>2
<1>4. PICK seen \in Reported(filled) : sold(filled) /\ Answered(h, o, after(seen))
  BY <1>3
<1>5. /\ o.qty \in Nat /\ att[h] \in Attempt /\ pc[h] \in Attempting \cup {"closing"}
      /\ mkt \in [Tickers -> Market]
      /\ mkt[t] \in Market /\ mkt[t].coin \in Int /\ mkt[t].coinClosed \in Int
      /\ \A x \in Exchanges : mkt[t].short[x] \in Int /\ mkt[t].closed[x] \in Int
  BY InFlight, VenueInt DEF Inv, TypeOK
<1>6. filled \in Nat /\ filled <= o.qty /\ seen = filled
  <2>1. filled \in Nat /\ filled <= o.qty
    BY <1>5 DEF Least, AtLeast0
  <2> QED
    BY <2>1, AllReported
<1>7. pc[h] \notin {"entering", "adjusting"}
  BY <1>2 DEF FillInv, Figures
<1>8. CASE pc[h] = "undoing"
  <2>1. /\ b(seen) \in Attempt /\ b(seen).flight = att[h].flight /\ b(seen).job = att[h].job
        /\ b(seen).fresh = att[h].fresh /\ b(seen).netS = NetAfter(att[h].netS, seen)
        /\ b(seen).netF = att[h].netF
    BY <1>5, <1>6, AttemptFields DEF Attempt
  <2>2. Answered(h, o, b(seen)) /\ req' = req
    BY <1>4, <1>8 DEF Answered
  <2> HIDE DEF b
  <2>3. /\ att'[h].flight = att[h].flight \ {o} /\ att'[h].netS = NetAfter(att[h].netS, seen)
        /\ att'[h].netF = att[h].netF /\ att'[h].job = att[h].job /\ att'[h].fresh = att[h].fresh
        /\ pc' = pc /\ jobs' = jobs /\ \A g \in Callers \ {h} : att'[g] = att[g]
    BY <2>1, <2>2, AnswerMeans
  <2>4. att[h].flight = {o} /\ o.qty <= att[h].netS
    BY <1>2, <1>8 DEF FillInv, Figures, LegsOf
  <2>5. LegsOf(h)'
    BY <1>8, <2>3, <2>4 DEF LegsOf, Attempting
  <2>6. req[h] \in Request /\ req[h].ex \in Exchanges
    BY <1>8 DEF Inv, Asked, Locked, Attempting
  <2>7. PICK s \in Int : s = 0 - filled
    BY <1>6
  <2>8. att'[h].netS = att[h].netS + s /\ att'[h].netF = att[h].netF + 0
    BY <1>5, <1>6, <2>3, <2>4, <2>7 DEF NetAfter, Least, Attempt
  <2>9. /\ \A u \in Tickers \ {t} : mkt'[u] = mkt[u]
        /\ mkt'[t].coin = mkt[t].coin - filled /\ mkt'[t].coinClosed = mkt[t].coinClosed
        /\ mkt'[t].moved = mkt[t].moved
        /\ mkt'[t].short = mkt[t].short /\ mkt'[t].closed = mkt[t].closed
    BY <1>4, <1>5, <1>8 DEF Market
  <2>10. PICK e \in Exchanges : e = req[h].ex
    BY <2>6
  <2>11. Comes(t, e, s, 0)
    BY <1>5, <1>6, <2>7, <2>9 DEF Comes
  <2>12. \A c \in Account : AtVenue(c)' = AtVenue(c) + Lots(c, req[h].t, req[h].ex, s, 0)
    BY <1>1, <2>10, <2>11, VenueMoves
  <2>13. Balanced(v)'
    BY <2>2, <2>3, <2>6, <2>8, <2>12, FillPosts
  <2> QED
    BY <2>5, <2>13
<1>9. CASE pc[h] = "closing"
  <2>1. Answered(h, o, att[h])
    BY <1>4, <1>9
  <2>2. mkt' = [mkt EXCEPT ![t].coin = @ - filled, ![t].coinClosed = @ + filled]
    BY <1>4, <1>9
  <2>3. /\ \A u \in Tickers \ {t} : mkt'[u] = mkt[u]
        /\ mkt'[t].coin = mkt[t].coin - filled /\ mkt'[t].coinClosed = mkt[t].coinClosed + filled
        /\ mkt'[t].moved = mkt[t].moved
        /\ mkt'[t].short = mkt[t].short /\ mkt'[t].closed = mkt[t].closed
    BY <1>5, <2>2 DEF Market
  <2>4. PICK e \in Exchanges : TRUE
    BY <1>9, HeldOpen DEF Job
  <2>5. Comes(t, e, 0, 0)
    BY <1>5, <1>6, <2>3 DEF Comes
  <2> QED
    BY <1>9, <2>1, <2>5, ClosingFill
<1> QED
  BY <1>5, <1>7, <1>8, <1>9 DEF Attempting

\* A futures sell: the entry's short, or its enlargement.
LEMMA FillFuturesSellLegs ==
    ASSUME Inv, Inv', FillInv, NEW v, Reliable(v), Balanced(v), NEW h \in Callers, LegsOf(h),
           FillFuturesSell(h)
    PROVE  LegsOf(h)' /\ Balanced(v)'
<1> DEFINE after(seen) == IF pc[h] = "entering"
                          THEN [att[h] EXCEPT !.fut = seen, !.netF = seen]
                          ELSE [att[h] EXCEPT !.netF = @ + seen]
<1>1. PICK o \in att[h].flight :
         /\ o.leg = "futures" /\ o.side = "sell"
         /\ \E filled \in 0..o.qty : \E seen \in Reported(filled) :
               /\ mkt' = [mkt EXCEPT ![req[h].t].short[req[h].ex] = @ + filled]
               /\ Answered(h, o, after(seen))
  BY DEF FillFuturesSell
<1>2. PICK filled \in 0..o.qty : \E seen \in Reported(filled) :
               /\ mkt' = [mkt EXCEPT ![req[h].t].short[req[h].ex] = @ + filled]
               /\ Answered(h, o, after(seen))
  BY <1>1
<1>3. PICK seen \in Reported(filled) :
               /\ mkt' = [mkt EXCEPT ![req[h].t].short[req[h].ex] = @ + filled]
               /\ Answered(h, o, after(seen))
  BY <1>2
<1>4. /\ o.qty \in Nat /\ att[h] \in Attempt /\ pc[h] \in Attempting /\ req[h].t \in Tickers
      /\ att[h].netS \in Nat /\ att[h].netF \in Nat
  BY <1>1, InFlight DEF Inv, Asked, Attempt
<1>5. filled \in Nat /\ seen = filled
  BY <1>4, AllReported
<1>6. req[h] \in Request /\ req[h].ex \in Exchanges
  BY <1>4 DEF Inv, Asked, Locked, Attempting
<1>7. pc[h] # "undoing"
  BY <1>1 DEF FillInv, Figures
<1>8. pc[h] = "entering" =>
         att[h].netF = 0 /\ \A p \in att[h].flight : p.leg # "spot" => p = o
  BY <1>1 DEF LegsOf, FillInv, Figures
<1>9. /\ after(seen) \in Attempt /\ after(seen).flight = att[h].flight /\ after(seen).job = att[h].job
      /\ after(seen).fresh = att[h].fresh /\ after(seen).netS = att[h].netS
      /\ after(seen).netF = att[h].netF + filled
  <2>1. CASE pc[h] = "entering"
    <3>1. after(seen) = [att[h] EXCEPT !.fut = filled, !.netF = filled]
      BY <1>5, <2>1
    <3>2. after(seen) \in Attempt
      BY <1>4, <1>5, <3>1, AttemptFields
    <3>3. att[h].netF + filled = filled
      BY <1>5, <1>8, <2>1
    <3> HIDE DEF after
    <3> QED
      BY <1>4, <1>5, <3>1, <3>2, <3>3 DEF Attempt
  <2>2. CASE pc[h] # "entering"
    BY <1>4, <1>5, <2>2, AttemptFields DEF Attempt
  <2> QED
    BY <2>1, <2>2
<1>10. Answered(h, o, after(seen)) /\ req' = req
  BY <1>3 DEF Answered
<1> HIDE DEF after
<1>11. /\ att'[h].flight = att[h].flight \ {o} /\ att'[h].netS = att[h].netS
       /\ att'[h].netF = att[h].netF + filled
       /\ att'[h].job = att[h].job /\ att'[h].fresh = att[h].fresh
       /\ pc' = pc /\ jobs' = jobs /\ \A g \in Callers \ {h} : att'[g] = att[g]
  BY <1>9, <1>10, AnswerMeans
<1>12. LegsOf(h)'
  <2>1. CASE pc[h] = "entering"
    BY <1>1, <1>8, <1>11, <2>1 DEF LegsOf, Attempting
  <2>2. CASE pc[h] = "adjusting"
    BY <1>11, <2>2 DEF LegsOf, Attempting
  <2> QED
    BY <1>4, <1>7, <2>1, <2>2 DEF Attempting
<1>13. att'[h].netS = att[h].netS + 0 /\ att'[h].netF = att[h].netF + filled
  BY <1>4, <1>11
<1>14. PICK t \in Tickers, e \in Exchanges : t = req[h].t /\ e = req[h].ex
  BY <1>4, <1>6
<1>15. mkt' = [mkt EXCEPT ![t].short[e] = @ + filled]
  BY <1>3, <1>14
<1>16. /\ mkt \in [Tickers -> Market]
       /\ mkt[t] \in Market /\ mkt[t].coin \in Int /\ mkt[t].coinClosed \in Int
       /\ mkt[t].short \in [Exchanges -> Int]
       /\ \A x \in Exchanges : mkt[t].short[x] \in Int /\ mkt[t].closed[x] \in Int
  BY VenueInt DEF Inv, TypeOK, Market
<1>17. /\ \A u \in Tickers \ {t} : mkt'[u] = mkt[u]
       /\ mkt'[t].coin = mkt[t].coin /\ mkt'[t].coinClosed = mkt[t].coinClosed
       /\ mkt'[t].moved = mkt[t].moved /\ mkt'[t].closed = mkt[t].closed
       /\ mkt'[t].short = [mkt[t].short EXCEPT ![e] = @ + filled]
  BY <1>15, <1>16 DEF Market
<1>18. Comes(t, e, 0, filled)
  BY <1>5, <1>16, <1>17 DEF Comes
<1>19. \A c \in Account : AtVenue(c)' = AtVenue(c) + Lots(c, req[h].t, req[h].ex, 0, filled)
  BY <1>5, <1>14, <1>18, VenueMoves
<1>20. Balanced(v)'
  BY <1>5, <1>6, <1>10, <1>11, <1>13, <1>19, FillPosts
<1> QED
  BY <1>12, <1>20

\* A futures buy: the rollback of the short, or its reduction.
LEMMA FillFuturesBuyLegs ==
    ASSUME Inv, Inv', FillInv, NEW v, Reliable(v), Balanced(v), NEW h \in Callers, LegsOf(h),
           FillFuturesBuy(h)
    PROVE  LegsOf(h)' /\ Balanced(v)'
<1> DEFINE after(seen) == [att[h] EXCEPT !.undone = seen, !.netF = NetAfter(@, seen)]
           bought(n) == mkt' = [mkt EXCEPT ![req[h].t].short[req[h].ex] = @ - n,
                                           ![req[h].t].buys[req[h].ex] = @ + n]
<1>1. PICK o \in att[h].flight :
         /\ o.leg = "futures" /\ o.side = "buy"
         /\ \E filled \in 0..o.qty : \E seen \in Reported(filled) :
               bought(filled) /\ Answered(h, o, after(seen))
  BY DEF FillFuturesBuy
<1>2. PICK filled \in 0..o.qty : \E seen \in Reported(filled) :
               bought(filled) /\ Answered(h, o, after(seen))
  BY <1>1
<1>3. PICK seen \in Reported(filled) : bought(filled) /\ Answered(h, o, after(seen))
  BY <1>2
<1>4. /\ o.qty \in Nat /\ att[h] \in Attempt /\ pc[h] \in Attempting /\ req[h].t \in Tickers
      /\ att[h].netS \in Nat /\ att[h].netF \in Nat
  BY InFlight DEF FillFuturesBuy, Attempt
<1>5. filled \in Nat /\ filled <= o.qty /\ seen = filled
  BY <1>4, AllReported
<1>6. req[h] \in Request /\ req[h].ex \in Exchanges
  BY <1>4 DEF Inv, Asked, Locked, Attempting
<1>7. pc[h] # "entering" /\ att[h].flight = {o} /\ o.qty <= att[h].netF
  <2>1. pc[h] # "entering"
    BY <1>1 DEF FillInv, Figures
  <2>2. CASE pc[h] = "undoing"
    BY <1>1, <2>1, <2>2 DEF FillInv, Figures, LegsOf
  <2>3. CASE pc[h] = "adjusting"
    <3>1. att[h].flight = {o} /\ att[h].netF > o.qty
      BY <1>1, <2>3 DEF FillInv, Figures
    <3> QED
      BY <1>4, <2>1, <3>1
  <2> QED
    BY <1>4, <2>1, <2>2, <2>3 DEF Attempting
<1>8. PICK f \in Int : f = 0 - filled
  BY <1>5
<1>9. NetAfter(att[h].netF, seen) = att[h].netF + f
  BY <1>4, <1>5, <1>7, <1>8 DEF NetAfter, Least
<1>10. /\ after(seen) \in Attempt /\ after(seen).flight = att[h].flight /\ after(seen).job = att[h].job
       /\ after(seen).fresh = att[h].fresh /\ after(seen).netS = att[h].netS
       /\ after(seen).netF = att[h].netF + f
  BY <1>4, <1>5, <1>9, AttemptFields DEF Attempt
<1>11. Answered(h, o, after(seen)) /\ req' = req
  BY <1>3 DEF Answered
<1> HIDE DEF after
<1>12. /\ att'[h].flight = att[h].flight \ {o} /\ att'[h].netS = att[h].netS
       /\ att'[h].netF = att[h].netF + f
       /\ att'[h].job = att[h].job /\ att'[h].fresh = att[h].fresh
       /\ pc' = pc /\ jobs' = jobs /\ \A g \in Callers \ {h} : att'[g] = att[g]
  BY <1>10, <1>11, AnswerMeans
<1>13. LegsOf(h)'
  <2>1. CASE pc[h] = "undoing"
    BY <1>7, <1>12, <2>1 DEF LegsOf, Attempting
  <2>2. CASE pc[h] = "adjusting"
    BY <1>12, <2>2 DEF LegsOf, Attempting
  <2> QED
    BY <1>4, <1>7, <2>1, <2>2 DEF Attempting
<1>14. att'[h].netS = att[h].netS + 0 /\ att'[h].netF = att[h].netF + f
  BY <1>4, <1>12
<1>15. PICK t \in Tickers, e \in Exchanges : t = req[h].t /\ e = req[h].ex
  BY <1>4, <1>6
<1>16. mkt' = [mkt EXCEPT ![t].short[e] = @ - filled, ![t].buys[e] = @ + filled]
  BY <1>3, <1>15
<1>17. /\ mkt \in [Tickers -> Market]
       /\ mkt[t] \in Market /\ mkt[t].coin \in Int /\ mkt[t].coinClosed \in Int
       /\ mkt[t].short \in [Exchanges -> Int]
       /\ \A x \in Exchanges : mkt[t].short[x] \in Int /\ mkt[t].closed[x] \in Int
  BY VenueInt DEF Inv, TypeOK, Market
<1>18. /\ \A u \in Tickers \ {t} : mkt'[u] = mkt[u]
       /\ mkt'[t].coin = mkt[t].coin /\ mkt'[t].coinClosed = mkt[t].coinClosed
       /\ mkt'[t].moved = mkt[t].moved /\ mkt'[t].closed = mkt[t].closed
       /\ mkt'[t].short = [mkt[t].short EXCEPT ![e] = @ - filled]
  BY <1>16, <1>17 DEF Market
<1>19. Comes(t, e, 0, f)
  BY <1>5, <1>8, <1>17, <1>18 DEF Comes
<1>20. \A c \in Account : AtVenue(c)' = AtVenue(c) + Lots(c, req[h].t, req[h].ex, 0, f)
  <2>1. \A c \in Account : AtVenue(c)' = AtVenue(c) + Lots(c, t, e, 0, f)
    BY <1>19, VenueMoves
  <2> QED
    BY <1>15, <2>1
<1>21. Balanced(v)'
  BY <1>6, <1>11, <1>12, <1>14, <1>20, FillPosts
<1> QED
  BY <1>13, <1>21

\* The futures leg of close_job.
LEMMA FillFuturesCloseLegs ==
    ASSUME Inv, Inv', NEW v, Reliable(v), Balanced(v), NEW h \in Callers, LegsOf(h),
           FillFuturesClose(h)
    PROVE  LegsOf(h)' /\ Balanced(v)'
<1>1. pc[h] = "closing" /\ att[h].flight # {}
  BY DEF FillFuturesClose
<1>2. PICK t \in Tickers, e \in Exchanges : t = req[h].t /\ e = jobs[Home[h]][att[h].job].ex
  BY <1>1, HeldOpen DEF Job
<1> DEFINE bought(n) == mkt' = [mkt EXCEPT ![t].short[e] = @ - n, ![t].buys[e] = @ + n,
                                           ![t].closed[e] = @ + n]
<1>3. PICK o \in att[h].flight :
         /\ \E filled \in 0..Least(o.qty, AtLeast0(mkt[t].short[e])) : bought(filled)
         /\ Answered(h, o, att[h])
  BY <1>2 DEF FillFuturesClose
<1>4. PICK filled \in 0..Least(o.qty, AtLeast0(mkt[t].short[e])) : bought(filled)
  BY <1>3
<1>5. /\ mkt \in [Tickers -> Market] /\ o.qty \in Nat
      /\ mkt[t] \in Market /\ mkt[t].coin \in Int /\ mkt[t].coinClosed \in Int
      /\ mkt[t].short \in [Exchanges -> Int] /\ mkt[t].closed \in [Exchanges -> Int]
  BY InFlight, VenueInt DEF Inv, TypeOK, Market
<1>6. filled \in Int
  BY <1>5 DEF Least, AtLeast0
<1>7. /\ \A u \in Tickers \ {t} : mkt'[u] = mkt[u]
      /\ mkt'[t].coin = mkt[t].coin /\ mkt'[t].coinClosed = mkt[t].coinClosed
      /\ mkt'[t].moved = mkt[t].moved
      /\ mkt'[t].closed = [mkt[t].closed EXCEPT ![e] = @ + filled]
      /\ mkt'[t].short = [mkt[t].short EXCEPT ![e] = @ - filled]
  BY <1>4, <1>5 DEF Market
<1>8. Comes(t, e, 0, 0)
  BY <1>5, <1>6, <1>7 DEF Comes
<1> QED
  BY <1>1, <1>3, <1>8, ClosingFill

\* A coroutine that is not between the prices and the end of an attempt has no legs of
\* its own.
LEMMA NoLegs ==
    ASSUME NEW h \in Callers, pc'[h] \notin Attempting \cup {"closing"},
           att'[h].netS = 0, att'[h].netF = 0
    PROVE  LegsOf(h)'
BY DEF LegsOf, Attempting

\* A write of a job and what the coroutine keeps add up to what both had.
LEMMA RecordPosts ==
    ASSUME Inv, Inv', NEW v, Reliable(v), Balanced(v), NEW h \in Callers, mkt' = mkt,
           \A g \in Callers \ {h} : req'[g] = req[g] /\ att'[g] = att[g],
           NEW i \in DOMAIN jobs[v], NEW j \in Job, UpdateJob(v, i, j),
           \A c \in Account : JobLots(c, j) + CallLots(c, h)' = JobLots(c, jobs[v][i]) + CallLots(c, h)
    PROVE  Balanced(v)'
<1> SUFFICES ASSUME NEW c \in Account
             PROVE  InJobs(c, v)' + InCalls(c)' = AtVenue(c)'
  BY DEF Balanced
<1>1. \A g \in Callers \ {h} : CallLots(c, g)' = CallLots(c, g)
  BY DEF CallLots
<1>2. /\ InCalls(c) \in Int /\ CallLots(c, h) \in Int /\ CallLots(c, h)' \in Int
      /\ InCalls(c)' = InCalls(c) - CallLots(c, h) + CallLots(c, h)'
  BY <1>1, CallsChange
<1>3. /\ InJobs(c, v) \in Int
      /\ InJobs(c, v)' = InJobs(c, v) - JobLots(c, jobs[v][i]) + JobLots(c, j)
  BY JobsChange
<1>4. JobLots(c, j) \in Int /\ JobLots(c, jobs[v][i]) \in Int
  <2>1. jobs[v][i] \in Job
    BY DEF Inv, TypeOK, Reliable
  <2> QED
    BY <2>1, LotsAre DEF JobLots, Job
<1>5. AtVenue(c)' = AtVenue(c) /\ AtVenue(c) = InJobs(c, v) + InCalls(c)
  BY VenueSame DEF Balanced
<1>6. JobLots(c, j) + CallLots(c, h)' = JobLots(c, jobs[v][i]) + CallLots(c, h)
  OBVIOUS
<1> QED
  BY <1>2, <1>3, <1>4, <1>5, <1>6

\* The end of an attempt moves its legs to its job.
LEMMA AttemptPosts ==
    ASSUME Inv, Inv', NEW v, Reliable(v), Balanced(v), NEW h \in Callers, mkt' = mkt,
           AttemptOver(h), NEW j \in Job, UpdateJob(v, att[h].job, j), NEW answer, Return(h, answer),
           j.ticker = jobs[v][att[h].job].ticker, j.ex = jobs[v][att[h].job].ex,
           j.legS = jobs[v][att[h].job].legS + att[h].netS,
           j.legF = jobs[v][att[h].job].legF + att[h].netF
    PROVE  LegsOf(h)' /\ Balanced(v)'
<1> DEFINE i == att[h].job
<1>1. /\ i \in DOMAIN jobs[v] /\ jobs[v][i] \in Job /\ jobs[v][i].ticker = req[h].t
      /\ jobs[v][i].ex = req[h].ex /\ att[h] \in Attempt /\ req[h] \in Request
      /\ pc[h] \in Attempting
  <2>1. Home[h] = v
    BY ModelAssumption DEF Reliable
  <2>2. pc[h] \in Attempting /\ pc[h] \in Locked
    BY OverLemma DEF Attempting, Locked
  <2> QED
    BY <2>1, <2>2, OverLemma DEF Inv, Work, Asked
<1>2. /\ pc'[h] = "done" /\ att'[h] = NoAttempt /\ req' = req
      /\ \A g \in Callers \ {h} : att'[g] = att[g]
  BY DEF Return, Inv, TypeOK
<1>3. att'[h].netS = 0 /\ att'[h].netF = 0
  BY <1>2 DEF NoAttempt
<1>4. LegsOf(h)'
  BY <1>2, <1>3, NoLegs DEF Attempting
<1>5. ASSUME NEW c \in Account
      PROVE  JobLots(c, j) + CallLots(c, h)' = JobLots(c, jobs[v][i]) + CallLots(c, h)
  <2>1. CallLots(c, h)' = 0
    BY <1>3, LotsAre DEF CallLots, Lots, Counted
  <2>2. req[h] # NoRequest
    BY <1>1 DEF Request, NoRequest
  <2>3. CallLots(c, h) = Lots(c, req[h].t, req[h].ex, att[h].netS, att[h].netF)
    BY <2>2 DEF CallLots
  <2>4. JobLots(c, j) = JobLots(c, jobs[v][i]) + CallLots(c, h)
    <3>1. /\ jobs[v][i].legS \in Int /\ jobs[v][i].legF \in Int
          /\ att[h].netS \in Int /\ att[h].netF \in Int
      BY <1>1 DEF Job, Attempt
    <3>2. JobLots(c, j) = Lots(c, req[h].t, req[h].ex, jobs[v][i].legS + att[h].netS,
                               jobs[v][i].legF + att[h].netF)
      BY <1>1 DEF JobLots
    <3>3. JobLots(c, jobs[v][i]) = Lots(c, req[h].t, req[h].ex, jobs[v][i].legS, jobs[v][i].legF)
      BY <1>1 DEF JobLots
    <3>4. Lots(c, req[h].t, req[h].ex, jobs[v][i].legS + att[h].netS, jobs[v][i].legF + att[h].netF)
             = Lots(c, req[h].t, req[h].ex, jobs[v][i].legS, jobs[v][i].legF)
               + Lots(c, req[h].t, req[h].ex, att[h].netS, att[h].netF)
      BY <3>1 DEF Lots, Counted
    <3> QED
      BY <2>3, <3>2, <3>3, <3>4
  <2>5. JobLots(c, j) \in Int
    BY LotsAre DEF JobLots, Job
  <2> QED
    BY <2>1, <2>4, <2>5
<1>6. Balanced(v)'
  BY <1>1, <1>2, <1>5, RecordPosts
<1> QED
  BY <1>4, <1>6

\* A new entry's legs are recorded, in any case.
LEMMA FinalizeNewLegs ==
    ASSUME Inv, Inv', NEW v, Reliable(v), Balanced(v), NEW h \in Callers, LegsOf(h), FinalizeNew(h)
    PROVE  LegsOf(h)' /\ Balanced(v)'
<1> DEFINE a == att[h]
           i == a.job
           ok == BothFilled(a)
           qS == IF ok THEN a.netS ELSE 0
           qF == IF ok THEN a.netF ELSE 0
           final == [jobs[v][i] EXCEPT
                        !.status = AttemptStatus(a), !.qtyS = qS, !.qtyF = qF,
                        !.legS = a.netS, !.legF = a.netF, !.exit = req[h].ex]
<1>1. Home[h] = v
  BY ModelAssumption DEF Reliable
<1>2. a.fresh /\ AttemptOver(h) /\ UpdateJob(v, i, final) /\ mkt' = mkt
  BY <1>1 DEF FinalizeNew
<1>3. \E answer : Return(h, answer)
  BY DEF FinalizeNew
<1>4. /\ i \in DOMAIN jobs[v] /\ jobs[v][i] \in Job /\ a \in Attempt /\ req[h].ex \in Exchanges
      /\ pc[h] \in Attempting
  BY <1>1, <1>2, OverLemma
<1>5. AttemptStatus(a) \in Status
  BY <1>4, AttemptLemma
<1>6. a.netS \in Nat /\ a.netF \in Nat /\ qS \in Nat /\ qF \in Nat
  BY <1>4 DEF Attempt
<1> HIDE DEF qS, qF
<1>7. /\ final \in Job /\ final.ticker = jobs[v][i].ticker /\ final.ex = jobs[v][i].ex
      /\ final.legS = a.netS /\ final.legF = a.netF
  BY <1>4, <1>5, <1>6 DEF Job
<1> HIDE DEF final
<1>8. jobs[v][i].legS = 0 /\ jobs[v][i].legF = 0
  BY <1>1, <1>2, <1>4 DEF LegsOf
<1>9. final.legS = jobs[v][i].legS + a.netS /\ final.legF = jobs[v][i].legF + a.netF
  BY <1>6, <1>7, <1>8
<1> QED
  BY <1>2, <1>3, <1>7, <1>9, AttemptPosts

\* A scale-in adds its legs to those of the hedge.
LEMMA FinalizeScaleInLegs ==
    ASSUME Inv, Inv', NEW v, Reliable(v), Balanced(v), NEW h \in Callers, FinalizeScaleIn(h)
    PROVE  LegsOf(h)' /\ Balanced(v)'
<1> DEFINE a == att[h]
           i == a.job
           old == jobs[v][i]
           s == old.legS + a.netS
           f == old.legF + a.netF
           final == [old EXCEPT !.ex = req[h].ex, !.status = Classify(s, f),
                                !.qtyS = s, !.qtyF = f, !.legS = s, !.legF = f]
<1>1. Home[h] = v
  BY ModelAssumption DEF Reliable
<1>2. ~a.fresh /\ AttemptOver(h) /\ UpdateJob(v, i, final) /\ mkt' = mkt
  BY <1>1 DEF FinalizeScaleIn
<1>3. \E answer : Return(h, answer)
  BY DEF FinalizeScaleIn
<1>4. /\ i \in DOMAIN jobs[v] /\ old \in Job /\ a \in Attempt /\ req[h].ex \in Exchanges
      /\ pc[h] \in Attempting
  BY <1>1, <1>2, OverLemma
<1>5. old.ex = req[h].ex
  BY <1>1, <1>4 DEF Inv, Work
<1>6. s \in Nat /\ f \in Nat
  BY <1>4 DEF Attempt, Job
<1>7. Classify(s, f) \in Status
  BY DEF Classify, Status, OpenStatus
<1> HIDE DEF s, f
<1>8. /\ final \in Job /\ final.ticker = old.ticker /\ final.ex = old.ex
      /\ final.legS = s /\ final.legF = f
  BY <1>4, <1>5, <1>6, <1>7 DEF Job
<1> HIDE DEF final
<1>9. final.legS = old.legS + a.netS /\ final.legF = old.legF + a.netF
  BY <1>8 DEF s, f
<1> QED
  BY <1>2, <1>3, <1>8, <1>9, AttemptPosts

\* A close is noted, and a refresh written, without touching the legs.
LEMMA RefreshLegs ==
    ASSUME Inv, Inv', NEW v, Reliable(v), Balanced(v), NEW h \in Callers, LegsOf(h),
           CloseNoted(h) \/ RefreshDone(h)
    PROVE  LegsOf(h)' /\ Balanced(v)'
<1> DEFINE i == att[h].job
           old == jobs[v][i]
           e == ExitSpot(h, old)
<1>1. pc[h] \in {"closing", "refreshing"} /\ Home[h] = v /\ mkt' = mkt
  BY ModelAssumption DEF CloseNoted, RefreshDone, Reliable
<1>2. i \in DOMAIN jobs[v] /\ req[h] \in Request /\ old \in Job
  BY <1>1, HeldOpen
<1>3. att[h].netS = 0 /\ att[h].netF = 0
  BY <1>1 DEF LegsOf, Attempting
<1>4. /\ pc'[h] \notin Attempting \cup {"closing"} /\ att'[h].netS = 0 /\ att'[h].netF = 0
      /\ req' = req /\ \A g \in Callers \ {h} : att'[g] = att[g]
  <2>1. CASE CloseNoted(h)
    BY <1>3, <2>1 DEF CloseNoted, Attempting, Inv, TypeOK
  <2>2. CASE RefreshDone(h)
    <3>1. \E answer : Return(h, answer)
      BY <2>2 DEF RefreshDone
    <3>2. pc'[h] = "done" /\ att'[h] = NoAttempt /\ req' = req /\ \A g \in Callers \ {h} : att'[g] = att[g]
      BY <3>1 DEF Return, Inv, TypeOK
    <3> QED
      BY <3>2 DEF NoAttempt, Attempting
  <2> QED
    BY <2>1, <2>2
<1>5. PICK j \in Job : /\ UpdateJob(v, i, j) /\ j.ticker = old.ticker /\ j.ex = old.ex
                       /\ j.legS = old.legS /\ j.legF = old.legF
  <2>1. CASE CloseNoted(h)
    BY <1>1, <1>2, <2>1 DEF CloseNoted
  <2>2. CASE RefreshDone(h)
    <3>1. PICK new \in {Refreshed(old, e), Unread(old, e)} : UpdateJob(v, i, new)
      BY <1>1, <2>2 DEF RefreshDone
    <3>2. e \in Exchanges
      BY <1>2 DEF ExitSpot, Request, Job
    <3> HIDE DEF e
    <3>3. new \in Job
      BY <1>2, <3>2, RefreshedLemma
    <3>4. PICK st : new = [old EXCEPT !.exit = e, !.status = st]
      BY DEF Refreshed, Unread
    <3>5. new.ticker = old.ticker /\ new.ex = old.ex /\ new.legS = old.legS /\ new.legF = old.legF
      BY <1>2, <3>4 DEF Job
    <3> QED
      BY <3>1, <3>3, <3>5
  <2> QED
    BY <1>1, <2>1, <2>2
<1>6. LegsOf(h)'
  BY <1>4, NoLegs
<1>7. \A c \in Account : JobLots(c, j) + CallLots(c, h)' = JobLots(c, jobs[v][i]) + CallLots(c, h)
  <2> SUFFICES ASSUME NEW c \in Account
               PROVE  JobLots(c, j) + CallLots(c, h)' = JobLots(c, jobs[v][i]) + CallLots(c, h)
    OBVIOUS
  <2>1. CallLots(c, h) = 0
    BY <1>3, NoLots
  <2>2. CallLots(c, h)' = 0
    BY <1>4 DEF CallLots, Lots, Counted
  <2>3. JobLots(c, j) = JobLots(c, jobs[v][i])
    BY <1>5 DEF JobLots
  <2> QED
    BY <2>1, <2>2, <2>3
<1>8. Balanced(v)'
  BY <1>1, <1>2, <1>4, <1>5, <1>7, RecordPosts
<1> QED
  BY <1>6, <1>8

\* The job is created with no legs, and nothing is filled yet.
LEMMA SubmitLegs ==
    ASSUME Inv, Inv', FillInv, NEW v, Reliable(v), Balanced(v), NEW h \in Callers, LegsOf(h),
           EnterSubmit(h)
    PROVE  LegsOf(h)' /\ Balanced(v)'
<1> DEFINE k == Len(jobs[v]) + 1
           new == NewJob(req[h].t, req[h].ex)
           sent(q) == {SpotOrder("buy", q), FuturesOrder("sell", q)}
<1>1. /\ pc[h] = "pricing" /\ pc' = [pc EXCEPT ![h] = "entering"] /\ req' = req /\ mkt' = mkt
      /\ Home[h] = v
  BY ModelAssumption DEF EnterSubmit, Reliable
<1>2. PICK q \in 1..MaxLot :
         IF att[h].job # 0
         THEN att' = [att EXCEPT ![h].flight = sent(q)] /\ UNCHANGED storeVars
         ELSE /\ CreateJob(v, new)
              /\ att' = [att EXCEPT ![h].flight = sent(q), ![h].fresh = TRUE, ![h].job = k]
  BY <1>1 DEF EnterSubmit
<1>3. /\ \A o \in sent(q) : o.leg \in {"spot", "futures"}
      /\ \A o, p \in sent(q) : o.leg = p.leg => o = p
  BY DEF SpotOrder, FuturesOrder
<1> HIDE DEF sent
<1>4. att[h] \in Attempt /\ ~att[h].fresh /\ att[h].netS = 0 /\ att[h].netF = 0
  BY <1>1 DEF Inv, TypeOK, Work, LegsOf, Attempting
<1>5. /\ att'[h].flight = sent(q) /\ att'[h].netS = 0 /\ att'[h].netF = 0
      /\ IF att[h].job # 0 THEN ~att'[h].fresh ELSE att'[h].job = k
      /\ \A g \in Callers \ {h} : att'[g] = att[g]
  BY <1>2, <1>4 DEF Inv, TypeOK, Attempt
<1>6. pc'[h] = "entering"
  BY <1>1 DEF Inv, TypeOK
<1>7. /\ v \in Workers /\ req[h].t \in Tickers /\ req[h].ex \in Exchanges
      /\ jobs \in [Workers -> Seq(Job)] /\ file \in Seq(Job)
  BY <1>1 DEF Inv, TypeOK, Asked, Locked, Request, Reliable
<1>8. new \in Job /\ new.legS = 0 /\ new.legF = 0
  BY <1>7, NewJobLemma DEF NewJob
<1> HIDE DEF new
<1>9. CASE att[h].job # 0
  <2>1. LegsOf(h)'
    BY <1>3, <1>5, <1>6, <1>9 DEF LegsOf, Attempting
  <2>2. jobs' = jobs
    BY <1>2, <1>9 DEF storeVars
  <2>3. \A c \in Account : InJobs(c, v)' = InJobs(c, v) /\ CallLots(c, h)' = CallLots(c, h)
                           /\ AtVenue(c)' = AtVenue(c)
    BY <1>1, <1>4, <1>5, <2>2, JobsChange, VenueSame DEF CallLots, Lots
  <2>4. Balanced(v)'
    BY <1>1, <1>5, <2>3, NothingPosted
  <2> QED
    BY <2>1, <2>4
<1>10. CASE att[h].job = 0
  <2>1. CreateJob(v, new)
    BY <1>2, <1>10
  <2>2. jobs'[v][k] = Normalize(new)
    BY <1>7, <1>8, <2>1, CreateLemma
  <2>3. jobs'[v][k].legS = 0 /\ jobs'[v][k].legF = 0
    BY <1>8, <2>2 DEF Normalize, Job
  <2>4. LegsOf(h)'
    BY <1>1, <1>3, <1>5, <1>6, <1>10, <2>3 DEF LegsOf, Attempting
  <2>5. ASSUME NEW c \in Account
        PROVE  InJobs(c, v)' = InJobs(c, v) /\ CallLots(c, h)' = CallLots(c, h) /\ AtVenue(c)' = AtVenue(c)
    <3>1. JobLots(c, new) = 0
      BY <1>8, LotsAre DEF JobLots
    <3>2. InJobs(c, v)' = InJobs(c, v)
      BY <1>8, <2>1, <3>1, JobsChange
    <3>3. CallLots(c, h)' = CallLots(c, h)
      BY <1>1, <1>4, <1>5 DEF CallLots, Lots
    <3> QED
      BY <1>1, <3>2, <3>3, VenueSame
  <2>6. Balanced(v)'
    BY <1>1, <1>5, <2>5, NothingPosted
  <2> QED
    BY <2>4, <2>6
<1> QED
  BY <1>4, <1>9, <1>10

\* A rollback is of what the leg has.
LEMMA FollowUpLegs ==
    ASSUME Inv, Inv', FillInv, NEW v, Reliable(v), Balanced(v), NEW h \in Callers, LegsOf(h),
           EnterFollowUp(h)
    PROVE  LegsOf(h)' /\ Balanced(v)'
<1> DEFINE a == att[h]
           next == IF a.spot > 0 /\ a.fut > 0 THEN "adjusting" ELSE "undoing"
<1>1. /\ pc[h] = "entering" /\ pc' = [pc EXCEPT ![h] = next] /\ req' = req /\ mkt' = mkt
      /\ att' = [att EXCEPT ![h] = [att[h] EXCEPT !.flight = FollowUp(a)]] /\ jobs' = jobs
  BY DEF EnterFollowUp, storeVars
<1>2. /\ a \in Attempt /\ a.spot \in Nat /\ a.fut \in Nat /\ pc'[h] = next
      /\ a.netS = a.spot /\ a.netF = a.fut
  BY <1>1 DEF Inv, TypeOK, Attempt, FillInv, Figures
<1>3. /\ att'[h].flight = FollowUp(a) /\ att'[h].netS = a.netS /\ att'[h].netF = a.netF
      /\ att'[h].job = a.job /\ att'[h].fresh = a.fresh
      /\ \A g \in Callers \ {h} : att'[g] = att[g]
  BY <1>1, <1>2 DEF Inv, TypeOK, Attempt
<1>4. next = "undoing" =>
         \A o \in FollowUp(a) : o.qty <= IF o.leg = "spot" THEN a.netS ELSE a.netF
  <2>1. CASE a.spot > 0 /\ a.fut = 0
    <3>1. FollowUp(a) = {SpotOrder("sell", a.spot)}
      BY <1>2, <2>1 DEF FollowUp, Orders, SpotOrder
    <3> QED
      BY <1>2, <3>1 DEF SpotOrder
  <2>2. CASE a.fut > 0 /\ a.spot = 0
    <3>1. FollowUp(a) \subseteq {FuturesOrder("buy", NormalizeFutures(a.fut))}
      BY <1>2, <2>2 DEF FollowUp, Orders
    <3>2. NormalizeFutures(a.fut) <= a.fut
      BY <1>2 DEF NormalizeFutures
    <3> QED
      BY <1>2, <3>1, <3>2 DEF FuturesOrder
  <2>3. CASE a.spot = 0 /\ a.fut = 0
    <3>1. FollowUp(a) = {}
      BY <2>3 DEF FollowUp
    <3> QED
      BY <3>1
  <2> QED
    BY <1>2, <2>1, <2>2, <2>3
<1>5. LegsOf(h)'
  BY <1>1, <1>2, <1>3, <1>4 DEF LegsOf, Attempting
<1>6. \A c \in Account : InJobs(c, v)' = InJobs(c, v) /\ CallLots(c, h)' = CallLots(c, h)
                         /\ AtVenue(c)' = AtVenue(c)
  BY <1>1, <1>3, JobsChange, VenueSame DEF CallLots, Lots
<1>7. Balanced(v)'
  BY <1>1, <1>3, <1>6, NothingPosted
<1> QED
  BY <1>5, <1>7

\* Taking and leaving the lock, and what else touches no legs.
LEMMA OutsideLegs ==
    ASSUME Inv, Inv', NEW v, Reliable(v), Balanced(v), NEW h \in Callers, LegsOf(h),
           \/ Ask(h) \/ Take(h) \/ EnterRefused(h) \/ EnterStart(h) \/ EnterUnavailable(h)
           \/ NoOpenJob(h) \/ RefreshStart(h) \/ CloseStart(h)
    PROVE  LegsOf(h)' /\ Balanced(v)'
<1>1. mkt' = mkt
  BY VenuesLeft
<1>2. jobs' = jobs /\ \A g \in Callers \ {h} : req'[g] = req[g]
  BY DEF Ask, Call, Take, EnterRefused, Refuse, EnterStart, Lock, EnterUnavailable, Return,
     NoOpenJob, RefreshStart, CloseStart, storeVars, Inv, TypeOK
<1>3. pc[h] \notin Attempting /\ att[h].netS = 0 /\ att[h].netF = 0
  <2>1. pc[h] \in {"idle", "done", "waiting", "pricing"}
    BY DEF Ask, Call, Take, EnterRefused, MayLock, EnterStart, EnterUnavailable, NoOpenJob,
       RefreshStart, CloseStart
  <2> QED
    BY <2>1 DEF LegsOf, Attempting
<1>4. /\ pc'[h] \notin Attempting /\ att'[h].netS = 0 /\ att'[h].netF = 0
      /\ pc'[h] = "closing" => \A o \in att'[h].flight : o.leg = "spot" => o.side = "sell"
      /\ \A g \in Callers \ {h} : att'[g] = att[g]
  <2>1. CASE Ask(h) \/ Take(h) \/ EnterRefused(h) \/ NoOpenJob(h)
    <3>1. /\ pc' = [pc EXCEPT ![h] = "waiting"] \/ pc' = [pc EXCEPT ![h] = "done"] \/ pc' = [pc EXCEPT ![h] = "idle"]
          /\ att' = att
      BY <2>1 DEF Ask, Call, Take, EnterRefused, Refuse, NoOpenJob
    <3>2. pc'[h] \in {"waiting", "done", "idle"}
      BY <3>1 DEF Inv, TypeOK
    <3> QED
      BY <1>3, <3>1, <3>2 DEF Attempting
  <2>2. CASE EnterUnavailable(h)
    <3>1. pc'[h] = "done" /\ att'[h] = NoAttempt /\ \A g \in Callers \ {h} : att'[g] = att[g]
      BY <2>2 DEF EnterUnavailable, Return, Inv, TypeOK
    <3> QED
      BY <3>1 DEF NoAttempt, Attempting
  <2>3. CASE EnterStart(h) \/ RefreshStart(h)
    <3>1. PICK i : /\ att' = [att EXCEPT ![h] = [NoAttempt EXCEPT !.job = i]]
                   /\ pc' = [pc EXCEPT ![h] = "pricing"] \/ pc' = [pc EXCEPT ![h] = "refreshing"]
      BY <2>3 DEF EnterStart, RefreshStart, Lock
    <3>2. /\ pc'[h] \in {"pricing", "refreshing"} /\ att'[h] = [NoAttempt EXCEPT !.job = i]
          /\ \A g \in Callers \ {h} : att'[g] = att[g]
      BY <3>1 DEF Inv, TypeOK
    <3> QED
      BY <3>2 DEF NoAttempt, Attempting
  <2>4. CASE CloseStart(h)
    <3>1. PICK i, n, m :
             /\ att' = [att EXCEPT ![h] = [NoAttempt EXCEPT !.job = i,
                                              !.flight = {SpotOrder("sell", n), FuturesOrder("buy", m)}]]
             /\ pc' = [pc EXCEPT ![h] = "closing"]
      BY <2>4 DEF CloseStart, Lock
    <3>2. /\ pc'[h] = "closing"
          /\ att'[h] = [NoAttempt EXCEPT !.job = i,
                                         !.flight = {SpotOrder("sell", n), FuturesOrder("buy", m)}]
          /\ \A g \in Callers \ {h} : att'[g] = att[g]
      BY <3>1 DEF Inv, TypeOK
    <3> QED
      BY <3>2 DEF NoAttempt, Attempting, SpotOrder, FuturesOrder
  <2> QED
    BY <2>1, <2>2, <2>3, <2>4
<1>5. LegsOf(h)'
  BY <1>4 DEF LegsOf, Attempting
<1>6. ASSUME NEW c \in Account
      PROVE  InJobs(c, v)' = InJobs(c, v) /\ CallLots(c, h)' = CallLots(c, h) /\ AtVenue(c)' = AtVenue(c)
  <2>1. CallLots(c, h) = 0
    BY <1>3, NoLots
  <2>2. CallLots(c, h)' = 0
    BY <1>4 DEF CallLots, Lots, Counted
  <2> QED
    BY <1>1, <1>2, <2>1, <2>2, JobsChange, VenueSame
<1>7. Balanced(v)'
  BY <1>2, <1>4, <1>6, NothingPosted
<1> QED
  BY <1>5, <1>7

\* A coroutine's legs are its own.
LEMMA SameLegs ==
    ASSUME NEW g \in Callers, LegsOf(g), pc'[g] = pc[g], att'[g] = att[g],
           pc[g] \in Attempting => jobs'[Home[g]] = jobs[Home[g]]
    PROVE  LegsOf(g)'
BY DEF LegsOf

\* A step of one coroutine changes the locals of no other.
LEMMA OthersLeft ==
    ASSUME Inv, NEW h \in Callers, Ask(h) \/ Step(h) \/ Take(h), NEW g \in Callers \ {h}
    PROVE  pc'[g] = pc[g] /\ att'[g] = att[g]
<1>1. CASE Ask(h) \/ Take(h) \/ EnterRefused(h) \/ EnterUnavailable(h) \/ FinalizeNew(h)
           \/ FinalizeScaleIn(h) \/ NoOpenJob(h) \/ RefreshDone(h)
  <2>1. /\ \E x : pc' = [pc EXCEPT ![h] = x]
        /\ att' = att \/ att' = [att EXCEPT ![h] = NoAttempt]
    BY <1>1, Zenon DEF Ask, Call, Take, EnterRefused, Refuse, EnterUnavailable, Return, FinalizeNew,
       FinalizeScaleIn, NoOpenJob, RefreshDone
  <2> QED
    BY <2>1 DEF Inv, TypeOK
<1>2. CASE EnterStart(h) \/ RefreshStart(h) \/ CloseStart(h)
  <2>1. \E x, a : Lock(h, x, a)
    BY <1>2, Zenon DEF EnterStart, RefreshStart, CloseStart
  <2> QED
    BY <2>1 DEF Lock, Inv, TypeOK
<1>3. CASE FillSpotBuy(h) \/ FillFuturesSell(h) \/ FillFuturesBuy(h) \/ FillSpotSell(h)
  BY <1>3, FillKeepsJob
<1>4. CASE FillFuturesClose(h)
  <2>1. \E o, a : Answered(h, o, a)
    BY <1>4, Zenon DEF FillFuturesClose
  <2> QED
    BY <2>1 DEF Answered, Inv, TypeOK
<1>5. CASE EnterSubmit(h)
  BY <1>5 DEF EnterSubmit, Inv, TypeOK
<1>6. CASE EnterFollowUp(h)
  BY <1>6 DEF EnterFollowUp, Inv, TypeOK
<1>7. CASE CloseNoted(h)
  BY <1>7 DEF CloseNoted, Inv, TypeOK
<1> QED
  BY <1>1, <1>2, <1>3, <1>4, <1>5, <1>6, <1>7 DEF Step, EnterStep, CloseStep

\* Whatever a coroutine does, the accounts balance.
LEMMA StepLegs ==
    ASSUME Inv, Inv', FillInv, NEW v, Reliable(v), Balanced(v), NEW h \in Callers,
           \A g \in Callers : LegsOf(g), Ask(h) \/ Step(h) \/ Take(h)
    PROVE  Balanced(v)' /\ \A g \in Callers : LegsOf(g)'
<1>1. LegsOf(h)' /\ Balanced(v)'
  <2>1. CASE \/ Ask(h) \/ Take(h) \/ EnterRefused(h) \/ EnterStart(h) \/ EnterUnavailable(h)
             \/ NoOpenJob(h) \/ RefreshStart(h) \/ CloseStart(h)
    BY <2>1, OutsideLegs
  <2>2. CASE EnterSubmit(h)
    BY <2>2, SubmitLegs
  <2>3. CASE EnterFollowUp(h)
    BY <2>3, FollowUpLegs
  <2>4. CASE FillSpotBuy(h)
    BY <2>4, FillSpotBuyLegs
  <2>5. CASE FillSpotSell(h)
    BY <2>5, FillSpotSellLegs
  <2>6. CASE FillFuturesSell(h)
    BY <2>6, FillFuturesSellLegs
  <2>7. CASE FillFuturesBuy(h)
    BY <2>7, FillFuturesBuyLegs
  <2>8. CASE FillFuturesClose(h)
    BY <2>8, FillFuturesCloseLegs
  <2>9. CASE FinalizeNew(h)
    BY <2>9, FinalizeNewLegs
  <2>10. CASE FinalizeScaleIn(h)
    BY <2>10, FinalizeScaleInLegs
  <2>11. CASE CloseNoted(h) \/ RefreshDone(h)
    BY <2>11, RefreshLegs
  <2> QED
    BY <2>1, <2>2, <2>3, <2>4, <2>5, <2>6, <2>7, <2>8, <2>9, <2>10, <2>11
    DEF Step, EnterStep, CloseStep
<1>2. \A g \in Callers \ {h} : LegsOf(g)'
  BY OthersStore, OthersLeft, SameLegs
<1> QED
  BY <1>1, <1>2

\* Nothing is in the books and nothing at the venues.
LEMMA InitLegs ==
    ASSUME NEW v, Reliable(v), Init
    PROVE  LegsInv
<1>1. \A h \in Callers : LegsOf(h)
  BY DEF Init, LegsOf, Attempting, NoAttempt
<1>2. \A w \in Workers : up[w]
  BY DEF Init
<1>3. Balanced(v)
  <2> SUFFICES ASSUME NEW c \in Account PROVE InJobs(c, v) + InCalls(c) = AtVenue(c)
    BY DEF Balanced
  <2>1. jobs[v] = <<>>
    BY DEF Init, Reliable
  <2>2. InJobs(c, v) = 0
    <3> DEFINE f == [i \in DOMAIN jobs[v] |-> JobLots(c, jobs[v][i])]
    <3>1. f \in [{} -> Int] /\ InJobs(c, v) = Total(f) /\ IsFiniteSet({})
      BY <2>1, FS_EmptySet DEF InJobs
    <3> HIDE DEF f
    <3> QED
      BY <3>1, TotalZero
  <2>3. InCalls(c) = 0
    <3> DEFINE f == [h \in Callers |-> CallLots(c, h)]
    <3>1. \A h \in Callers : CallLots(c, h) = 0
      BY DEF Init, CallLots
    <3>2. f \in [Callers -> Int] /\ InCalls(c) = Total(f) /\ \A h \in Callers : f[h] = 0
      BY <3>1 DEF InCalls
    <3> HIDE DEF f
    <3> QED
      BY <3>2, TotalZero DEF Reliable
  <2>4. AtVenue(c) = 0
    <3>1. Zero \in [Exchanges -> Int] /\ \A e \in Exchanges : Zero[e] = 0
      BY DEF Zero
    <3>2. Total(Zero) = 0
      BY <3>1, TotalZero DEF Reliable
    <3>3. c.t \in Tickers /\ (c.e = NoExchange \/ c.e \in Exchanges)
      BY DEF Account
    <3>4. /\ mkt[c.t].coin = 0 /\ mkt[c.t].coinClosed = 0 /\ mkt[c.t].moved = Zero
          /\ mkt[c.t].short = Zero /\ mkt[c.t].closed = Zero
      BY <3>3 DEF Init
    <3> QED
      BY <3>1, <3>2, <3>3, <3>4 DEF AtVenue, SpotAtVenues, ShortAtVenue
  <2> QED
    BY <2>2, <2>3, <2>4
<1> QED
  BY <1>1, <1>2, <1>3, InitInv, BalancedIs DEF LegsInv

\* Every step keeps the books.
LEMMA NextLegs ==
    ASSUME NEW v, Reliable(v), Inv, FillInv, LegsInv, [Next]_vars
    PROVE  LegsInv'
<1>1. Inv' /\ Balanced(v) /\ \A h \in Callers : LegsOf(h)
  BY NextInv, BalancedIs DEF LegsInv
<1>2. \A w \in Workers : up[w]
  BY DEF LegsInv
<1>3. SUFFICES up' = up /\ Balanced(v)' /\ \A h \in Callers : LegsOf(h)'
  <2>1. ASSUME Balanced(v)' PROVE LegsMatchVenues'
    BY <1>1, <2>1, BalancedIs, PTL
  <2> QED
    BY <1>2, <2>1 DEF LegsInv
<1>4. ASSUME NEW h \in Callers, Ask(h) \/ Step(h) \/ Take(h)
      PROVE  up' = up /\ Balanced(v)' /\ \A g \in Callers : LegsOf(g)'
  BY <1>1, <1>4, StepLegs, StoreMoves
<1>5. ASSUME jobs' = jobs, att' = att, pc' = pc, req' = req, up' = up,
             \A c \in Account : AtVenue(c)' = AtVenue(c)
      PROVE  up' = up /\ Balanced(v)' /\ \A h \in Callers : LegsOf(h)'
  <2>1. \A h \in Callers : LegsOf(h)'
    BY <1>1, <1>5, SameLegs
  <2>2. \A c \in Account : InJobs(c, v)' = InJobs(c, v) /\ InCalls(c)' = InCalls(c)
    BY <1>5 DEF InJobs, InCalls, CallLots, JobLots
  <2> QED
    BY <1>1, <1>5, <2>1, <2>2 DEF Balanced
<1>6. ASSUME NEW t \in Tickers, NEW e \in OperatorAt, Operator(t, e)
      PROVE  up' = up /\ Balanced(v)' /\ \A h \in Callers : LegsOf(h)'
  <2>1. jobs' = jobs /\ att' = att /\ pc' = pc /\ req' = req /\ up' = up
    BY <1>6 DEF Operator, Withdraw, SellSpot, BuyBack, storeVars
  <2> QED
    BY <1>5, <1>6, <2>1, OperatorMoves
<1>7. \A w \in Workers : ~Crash(w) /\ ~Restart(w)
  BY <1>2 DEF Crash, Restart, Reliable
<1>8. CASE UNCHANGED vars
  BY <1>5, <1>8, VenueSame DEF vars
<1> QED
  BY <1>4, <1>6, <1>7, <1>8 DEF Next

\* What LegsMatchVenues rests on holds while the process lives and hears of every fill.
THEOREM LegsInvHolds ==
    ASSUME NEW v, Reliable(v)
    PROVE  Spec => []LegsInv
<1>1. Init => LegsInv
  BY InitLegs
<1>2. Inv /\ FillInv /\ LegsInv /\ [Next]_vars => LegsInv'
  BY NextLegs
<1> QED
  BY <1>1, <1>2, InvHolds, FillInvHolds, PTL DEF Spec

\* The legs of the jobs and of the attempts under way add up to what the venues hold,
\* and what was sold or bought back to close: no fill of an entry, a rollback or an
\* adjustment is lost, for any callers, tickers, exchanges and orders.
THEOREM LegsMatchVenuesHolds ==
    ASSUME NEW v, Reliable(v)
    PROVE  Spec => []LegsMatchVenues
<1>1. LegsInv => LegsMatchVenues
  BY DEF LegsInv
<1> QED
  BY <1>1, LegsInvHolds, PTL

=============================================================================
