--------------------------- MODULE Traders_proofs ---------------------------
(***************************************************************************)
(* The two loops that trade by themselves.                                 *)
(*                                                                         *)
(* AutoHedge: the cap and the cooldown of the safety gate hold for every   *)
(* number of tickers, callers and exchanges and every cap and cooldown:    *)
(* AutoInv is inductive, and an entry is recorded in a state where it      *)
(* still holds.                                                            *)
(*                                                                         *)
(* PairTrader: between two cycles the venue holds the trader's entries and *)
(* nothing else, for every level of the PnL, number of entries and of      *)
(* attempts, unless one of the named failures has happened: PairInv        *)
(* follows each leg through its order, the exits that still rest and what  *)
(* the host has saved.                                                     *)
(***************************************************************************)
EXTENDS AutoHedge, PairTrader, FiniteSetTheorems, TLAPS

(***************************************************************************)
(* AutoHedge                                                               *)
(***************************************************************************)

\* The constants are numbers.
LEMMA Figures ==
    /\ Nominal \in Nat /\ Cap \in Nat /\ Cooldown \in Nat
    /\ MaxTime \in Nat /\ MaxDay \in Nat /\ MaxOpened \in Nat
BY AutoAssumption

\* The loops start with an empty account and nothing under way.
LEMMA InitAuto == Init => AutoInv
<1> SUFFICES ASSUME Init PROVE AutoInv
  OBVIOUS
<1> USE AutoAssumption DEF Init
<1>1. 0 \in Days /\ <<>> \in Seq(Requests) /\ -Cooldown \in Int
  BY DEF Days
<1>2. TypeOK
  BY <1>1 DEF TypeOK, Never, NoHedge
<1>3. AccountInv
  BY <1>1 DEF AccountInv, Days
<1> QED
  BY <1>2, <1>3 DEF AutoInv, EntryInv

-----------------------------------------------------------------------------
(* The account of the gate.                                                *)

\* What is spent today is what was entered today, whether or not the account has
\* been rolled over since midnight.
LEMMA SpentToday ==
    ASSUME AutoInv
    PROVE  Spent = entered[day] /\ Spent \in Nat /\ Spent <= spent
BY AutoAssumption DEF AutoInv, TypeOK, AccountInv, Spent, Days

\* What the rollover at midnight leaves of the account.
LEMMA RolledOver ==
    ASSUME AutoInv, NEW new \in Nat, Rollover(spent, new)
    PROVE  resetDay' = day /\ spent' = Spent + new
BY AutoAssumption DEF AutoInv, TypeOK, AccountInv, Spent, Days, Rollover

\* A look at the account changes nothing of it but the day it is of.
LEMMA LookKeepsAccount ==
    ASSUME AutoInv, Rollover(spent, 0), UNCHANGED <<clockVars, lastEntry, entered>>
    PROVE  /\ AccountInv' /\ spent' \in Nat /\ resetDay' \in Days
           /\ spent' = Spent /\ spent' <= spent
<1> USE AutoAssumption
<1>1. resetDay' = day /\ spent' = Spent
  BY RolledOver, SpentToday
<1>2. day' = day /\ entered' = entered
  BY DEF clockVars
<1>3. AccountInv'
  BY <1>1, <1>2, SpentToday DEF AutoInv, TypeOK, AccountInv, Days
<1> QED
  BY <1>1, <1>3, SpentToday DEF AutoInv, TypeOK

\* An entry that the account has room for leaves it within the cap.
LEMMA RecordKeepsAccount ==
    ASSUME AutoInv, NEW t \in Tickers, RecordEntry(t), spent + Nominal <= Cap,
           UNCHANGED clockVars
    PROVE  /\ AccountInv' /\ spent' \in Nat /\ resetDay' \in Days
           /\ lastEntry' \in [Tickers -> Int] /\ entered' \in [Days -> Nat]
<1> USE AutoAssumption
<1>1. resetDay' = day /\ spent' = Spent + Nominal
  BY RolledOver DEF RecordEntry
<1>2. Spent + Nominal <= Cap /\ Spent + Nominal \in Nat
  BY SpentToday, Figures DEF AutoInv, TypeOK
<1>3. /\ day \in Days /\ day' = day
      /\ entered \in [Days -> Nat] /\ entered' = [entered EXCEPT ![day] = @ + Nominal]
      /\ entered[day] = Spent
  BY SpentToday DEF AutoInv, TypeOK, clockVars, RecordEntry
<1>4. entered'[day] = Spent + Nominal /\ \A d \in Days \ {day} : entered'[d] = entered[d]
  BY <1>3
<1>5. AccountInv'
  <2>1. entered'[resetDay'] = spent' /\ resetDay' <= day'
    BY <1>1, <1>3, <1>4, Figures DEF Days
  <2>2. ASSUME NEW d \in Days PROVE entered'[d] <= Cap /\ (d > resetDay' => entered'[d] = 0)
    <3>1. entered[d] <= Cap /\ (d > resetDay => entered[d] = 0) /\ resetDay <= day
      BY DEF AutoInv, AccountInv
    <3> QED
      BY <1>1, <1>2, <1>3, <1>4, <3>1, Figures DEF AutoInv, TypeOK, Days
  <2> QED
    BY <2>1, <2>2 DEF AccountInv, Days
<1>6. lastEntry' \in [Tickers -> Int]
  BY DEF AutoInv, TypeOK, RecordEntry
<1> QED
  BY <1>1, <1>2, <1>3, <1>5, <1>6

-----------------------------------------------------------------------------
(* The queue of the lock.                                                  *)

\* A queue of calls is longer by the one that is appended.
LEMMA AppendLemma ==
    ASSUME NEW S, NEW q \in Seq(S), NEW c \in S
    PROVE  /\ Append(q, c) \in Seq(S)
           /\ DOMAIN Append(q, c) = DOMAIN q \cup {Len(q) + 1}
           /\ \A i \in DOMAIN q : Append(q, c)[i] = q[i]
           /\ Append(q, c)[Len(q) + 1] = c
           /\ Len(q) + 1 \notin DOMAIN q
OBVIOUS

\* Of a queue of calls the first is taken.
LEMMA TailLemma ==
    ASSUME NEW S, NEW q \in Seq(S), q # <<>>
    PROVE  /\ Tail(q) \in Seq(S) /\ Head(q) = q[1] /\ q[1] \in S /\ 1 \in DOMAIN q
           /\ \A i \in DOMAIN Tail(q) :
                 i + 1 \in DOMAIN q /\ i + 1 # 1 /\ Tail(q)[i] = q[i + 1]
OBVIOUS

\* A call that the trigger does not make disturbs nothing of what it waits for.
LEMMA OthersCall ==
    ASSUME AutoInv, NEW c \in Requests, c.by # "trigger", Enqueue(c),
           UNCHANGED <<now, trig, gateVars>>
    PROVE  queue' \in Seq(Requests) /\ EntryInv'
<1>1. queue \in Seq(Requests) /\ queue' = Append(queue, c)
  BY DEF AutoInv, TypeOK, Enqueue
<1>2. /\ queue' \in Seq(Requests)
      /\ \A i \in DOMAIN queue' : queue'[i].by = "trigger" =>
            i \in DOMAIN queue /\ queue'[i] = queue[i]
  BY <1>1, AppendLemma
<1>3. EntryInv'
  BY <1>2 DEF AutoInv, EntryInv, gateVars
<1> QED
  BY <1>2, <1>3

\* The trigger calls while no call of its own is in the queue, and after a look at
\* the gate.
LEMMA TriggerCalls ==
    ASSUME AutoInv, NEW t \in Tickers, TriggerEnters(t)
    PROVE  queue' \in Seq(Requests) /\ EntryInv'
<1> USE AutoAssumption
<1> DEFINE c == Call("trigger", "enter", t, Configured)
<1>1. /\ trig = "looking" /\ trig' = "entering" /\ CanEnter(t) /\ Rollover(spent, 0)
      /\ queue' = Append(queue, c) /\ now' = now /\ lastEntry' = lastEntry
      /\ UNCHANGED <<clockVars, lastEntry, entered>>
  BY DEF TriggerEnters, Triggers, Enqueue, clockVars
<1>2. c \in Requests /\ c.by = "trigger" /\ c.op = "enter" /\ c.t = t
  BY DEF Call, Requests
<1>3. queue \in Seq(Requests) /\ \A i \in DOMAIN queue : queue[i].by # "trigger"
  BY <1>1 DEF AutoInv, TypeOK, EntryInv
<1> HIDE DEF c
<1>4. /\ queue' \in Seq(Requests)
      /\ \A i \in DOMAIN queue' : queue'[i].by = "trigger" =>
            i = Len(queue) + 1 /\ queue'[i] = c
  BY <1>1, <1>2, <1>3, AppendLemma
<1>5. spent' + Nominal <= Cap
  BY <1>1, LookKeepsAccount DEF CanEnter
<1>6. now' - lastEntry'[t] >= Cooldown
  BY <1>1 DEF CanEnter
<1>7. EntryInv'
  BY <1>1, <1>2, <1>4, <1>5, <1>6 DEF EntryInv
<1> QED
  BY <1>4, <1>7

\* When the first call is answered the others are where they were; and if it was the
\* trigger's, no other of its calls is left.
LEMMA Answered ==
    ASSUME AutoInv, queue # <<>>, NEW answer, Answer(answer),
           active' \in [Tickers -> Exchanges \cup {NoExchange}],
           opened' \in [Tickers -> Nat]
    PROVE  AutoInv'
<1> USE AutoAssumption
<1>1. /\ queue \in Seq(Requests) /\ queue' = Tail(queue) /\ trading' = FALSE
      /\ First = queue[1] /\ First \in Requests /\ 1 \in DOMAIN queue
      /\ queue' \in Seq(Requests)
      /\ \A i \in DOMAIN queue' :
            i + 1 \in DOMAIN queue /\ i + 1 # 1 /\ queue'[i] = queue[i + 1]
  BY TailLemma DEF AutoInv, TypeOK, Answer, Release, First
<1>2. /\ now' = now /\ day' = day /\ UNCHANGED <<clockVars, cfgVars, todo, wide, left, judged>>
  BY DEF Answer, clockVars
<1>3. exit' \in {"asleep", "looking", "closing", "refreshing", "closed", "failed", "warning"}
  BY DEF AutoInv, TypeOK, Answer, ExitReturns
<1>4. CASE First.by = "trigger"
  <2>1. /\ trig' = "notifying" /\ spent + Nominal <= Cap /\ First.t \in Tickers
        /\ RecordEntry(First.t) \/ UNCHANGED gateVars
    BY <1>1, <1>4 DEF Answer, TriggerReturns, AutoInv, EntryInv, Requests
  <2>2. \A i \in DOMAIN queue' : queue'[i].by # "trigger"
    BY <1>1, <1>4 DEF AutoInv, EntryInv
  <2>3. /\ AccountInv' /\ spent' \in Nat /\ resetDay' \in Days
        /\ lastEntry' \in [Tickers -> Int] /\ entered' \in [Days -> Nat]
    <3>1. CASE RecordEntry(First.t)
      BY <1>2, <2>1, <3>1, RecordKeepsAccount
    <3>2. CASE UNCHANGED gateVars
      BY <1>2, <3>2 DEF AutoInv, TypeOK, AccountInv, gateVars
    <3> QED
      BY <2>1, <3>1, <3>2
  <2>4. EntryInv'
    BY <2>2 DEF EntryInv
  <2>5. TypeOK'
    BY <1>1, <1>2, <1>3, <2>1, <2>3 DEF AutoInv, TypeOK, clockVars, cfgVars
  <2> QED
    BY <2>3, <2>4, <2>5 DEF AutoInv
<1>5. CASE First.by # "trigger"
  <2>1. UNCHANGED <<trig, gateVars>>
    BY <1>5 DEF Answer
  <2>2. AccountInv'
    BY <1>2, <2>1 DEF AutoInv, AccountInv, gateVars
  <2>3. EntryInv'
    BY <1>1, <1>2, <2>1 DEF AutoInv, EntryInv, gateVars
  <2>4. TypeOK'
    BY <1>1, <1>2, <1>3, <2>1 DEF AutoInv, TypeOK, clockVars, cfgVars, gateVars
  <2> QED
    BY <2>2, <2>3, <2>4 DEF AutoInv
<1> QED
  BY <1>4, <1>5

-----------------------------------------------------------------------------
(* The steps.                                                              *)

\* Time, operators and restarts keep the invariant.
LEMMA WorldInv == ASSUME AutoInv, World PROVE AutoInv'
<1> USE AutoAssumption
<1>1. CASE Tick
  <2>1. now' = now + 1 /\ UNCHANGED <<day, cfgVars, gateVars, trigVars, exitVars, callVars, bookVars>>
    BY <1>1 DEF Tick
  <2>2. TypeOK'
    BY <2>1, now + 1 \in Nat
       DEF AutoInv, TypeOK, cfgVars, gateVars, trigVars, exitVars, callVars, bookVars
  <2>3. AccountInv'
    BY <2>1 DEF AutoInv, AccountInv, gateVars
  <2>4. EntryInv'
    <3>1. now \in Nat /\ lastEntry \in [Tickers -> Int] /\ queue \in Seq(Requests)
      BY DEF AutoInv, TypeOK
    <3>2. ASSUME NEW i \in DOMAIN queue PROVE queue[i].t \in Tickers
      <4>1. queue[i] \in Requests
        BY <3>1
      <4> QED
        BY <4>1 DEF Requests
    <3>3. ASSUME NEW i \in DOMAIN queue, queue[i].by = "trigger"
          PROVE  now' - lastEntry[queue[i].t] >= Cooldown
      <4>1. lastEntry[queue[i].t] \in Int /\ now - lastEntry[queue[i].t] >= Cooldown
        BY <3>1, <3>2, <3>3 DEF AutoInv, EntryInv
      <4> QED
        BY <2>1, <3>1, <4>1, Figures
    <3> QED
      BY <2>1, <3>3 DEF AutoInv, EntryInv, gateVars, trigVars, callVars
  <2> QED
    BY <2>2, <2>3, <2>4 DEF AutoInv
<1>2. CASE Midnight
  <2>1. /\ day < MaxDay /\ day' = day + 1
        /\ UNCHANGED <<now, cfgVars, gateVars, trigVars, exitVars, callVars, bookVars>>
    BY <1>2 DEF Midnight
  <2>2. day \in Days /\ day' \in Days /\ day' = day + 1
    BY <2>1, Figures DEF AutoInv, TypeOK, Days
  <2>3. TypeOK'
    BY <2>1, <2>2 DEF AutoInv, TypeOK, cfgVars, gateVars, trigVars, exitVars, callVars, bookVars
  <2>4. AccountInv'
    BY <2>1, <2>2 DEF AutoInv, TypeOK, AccountInv, Days, gateVars
  <2>5. EntryInv'
    BY <2>1 DEF AutoInv, EntryInv, gateVars, trigVars, callVars
  <2> QED
    BY <2>3, <2>4, <2>5 DEF AutoInv
<1>3. CASE Switch
  <2>1. /\ allowed' \in BOOLEAN /\ dryRun' \in BOOLEAN
        /\ UNCHANGED <<clockVars, gateVars, trigVars, exitVars, callVars, bookVars>>
    BY <1>3 DEF Switch
  <2>2. TypeOK'
    BY <2>1 DEF AutoInv, TypeOK, clockVars, gateVars, trigVars, exitVars, callVars, bookVars
  <2>3. AccountInv' /\ EntryInv'
    BY <2>1 DEF AutoInv, AccountInv, EntryInv, clockVars, gateVars, trigVars, callVars
  <2> QED
    BY <2>2, <2>3 DEF AutoInv
<1>4. CASE Status
  <2>1. /\ Rollover(spent, 0)
        /\ UNCHANGED <<clockVars, cfgVars, lastEntry, entered, trigVars, exitVars, callVars, bookVars>>
    BY <1>4 DEF Status
  <2>2. /\ AccountInv' /\ spent' \in Nat /\ resetDay' \in Days /\ spent' <= spent
    BY <2>1, LookKeepsAccount DEF clockVars
  <2>3. TypeOK'
    BY <2>1, <2>2 DEF AutoInv, TypeOK, clockVars, cfgVars, trigVars, exitVars, callVars, bookVars
  <2>4. EntryInv'
    BY <2>1, <2>2, SMTT(30) DEF AutoInv, TypeOK, EntryInv, clockVars, trigVars, callVars
  <2> QED
    BY <2>2, <2>3, <2>4 DEF AutoInv
<1>5. CASE Restart
  <2>1. /\ spent' = 0 /\ resetDay' = day /\ day' = day /\ now' = now
        /\ lastEntry' = [t \in Tickers |-> Never] /\ entered' = [d \in Days |-> 0]
        /\ queue' = <<>> /\ UNCHANGED <<clockVars, bookVars>>
    BY <1>5 DEF Restart, clockVars
  <2>2. /\ trig' = "asleep" /\ todo' = {} /\ wide' = FALSE /\ trading' = FALSE
        /\ exit' = "asleep" /\ left' = {} /\ judged' = NoHedge
        /\ allowed' \in BOOLEAN /\ dryRun' \in BOOLEAN
    BY <1>5 DEF Restart
  <2>3. TypeOK'
    <3>1. -Cooldown \in Int /\ <<>> \in Seq(Requests)
      BY Figures
    <3> QED
      BY <2>1, <2>2, <3>1 DEF AutoInv, TypeOK, Never, clockVars, bookVars
  <2>4. AccountInv' /\ EntryInv'
    BY <2>1, Figures DEF AutoInv, TypeOK, AccountInv, EntryInv, Days
  <2> QED
    BY <2>3, <2>4 DEF AutoInv
<1>6. ASSUME NEW u \in Users, UserCalls(u) PROVE AutoInv'
  <2>1. PICK c \in Requests : c.by # "trigger" /\ Enqueue(c)
    <3>1. PICK t \in Tickers :
             \/ \E e \in Exchanges : Enqueue(Call(u, "enter", t, e))
             \/ \E op \in {"close", "refresh"} : Enqueue(Call(u, op, t, NoExchange))
      BY <1>6 DEF UserCalls
    <3>2. u # "trigger"
      OBVIOUS
    <3>3. ASSUME NEW e \in Exchanges, Enqueue(Call(u, "enter", t, e))
          PROVE  \E c \in Requests : c.by # "trigger" /\ Enqueue(c)
      <4>1. Call(u, "enter", t, e) \in Requests /\ Call(u, "enter", t, e).by # "trigger"
        BY <3>2 DEF Call, Requests
      <4> QED
        BY <3>3, <4>1
    <3>4. ASSUME NEW op \in {"close", "refresh"}, Enqueue(Call(u, op, t, NoExchange))
          PROVE  \E c \in Requests : c.by # "trigger" /\ Enqueue(c)
      <4>1. Call(u, op, t, NoExchange) \in Requests /\ Call(u, op, t, NoExchange).by # "trigger"
        BY <3>2 DEF Call, Requests
      <4> QED
        BY <3>4, <4>1
    <3> QED
      BY <3>1, <3>3, <3>4
  <2>2. UNCHANGED <<clockVars, cfgVars, gateVars, trigVars, exitVars, trading, bookVars>>
    BY <1>6 DEF UserCalls
  <2>3. queue' \in Seq(Requests) /\ EntryInv'
    BY <2>1, <2>2, OthersCall DEF clockVars, trigVars
  <2>4. TypeOK'
    BY <2>2, <2>3 DEF AutoInv, TypeOK, clockVars, cfgVars, gateVars, trigVars, exitVars, bookVars
  <2>5. AccountInv'
    BY <2>2 DEF AutoInv, AccountInv, clockVars, gateVars
  <2> QED
    BY <2>3, <2>4, <2>5 DEF AutoInv
<1> QED
  BY <1>1, <1>2, <1>3, <1>4, <1>5, <1>6 DEF World

\* A step of the trigger's loop that calls nothing.
LEMMA TriggerQuiet ==
    ASSUME AutoInv, trig # "entering", trig' \in {"asleep", "looking", "notifying"},
           todo' \subseteq Tickers, wide' \in BOOLEAN, AccountInv',
           spent' \in Nat, resetDay' \in Days,
           UNCHANGED <<clockVars, cfgVars, lastEntry, entered, exitVars, callVars, bookVars>>
    PROVE  AutoInv'
<1>1. TypeOK'
  BY DEF AutoInv, TypeOK, clockVars, cfgVars, exitVars, callVars, bookVars
<1>2. EntryInv'
  BY DEF AutoInv, EntryInv, callVars
<1> QED
  BY <1>1, <1>2 DEF AutoInv

\* The trigger keeps it.
LEMMA TriggerInv == ASSUME AutoInv, TriggerWakes \/ Trigger PROVE AutoInv'
<1> USE AutoAssumption
<1> DEFINE GateKept == AccountInv' /\ spent' \in Nat /\ resetDay' \in Days
<1>1. UNCHANGED <<clockVars, gateVars>> => GateKept /\ UNCHANGED <<lastEntry, entered>>
  BY DEF AutoInv, TypeOK, AccountInv, clockVars, gateVars
<1>2. CASE TriggerWakes
  BY <1>1, <1>2, TriggerQuiet DEF TriggerWakes
<1>3. CASE TriggerScans
  BY <1>1, <1>3, TriggerQuiet DEF TriggerScans
<1>4. CASE TriggerSleeps
  BY <1>1, <1>4, TriggerQuiet DEF TriggerSleeps, AutoInv, TypeOK
<1>5. CASE TriggerNotified
  BY <1>1, <1>5, TriggerQuiet DEF TriggerNotified, AutoInv, TypeOK
<1>6. ASSUME NEW t \in Tickers, Triggers(t)
      PROVE  GateKept /\ todo' \subseteq Tickers /\ wide' \in BOOLEAN
  <2>1. Rollover(spent, 0) /\ UNCHANGED <<clockVars, lastEntry, entered>>
    BY <1>6 DEF Triggers
  <2>2. GateKept
    BY <2>1, LookKeepsAccount
  <2> QED
    BY <1>6, <2>2 DEF Triggers, AutoInv, TypeOK
<1>7. ASSUME NEW t \in Tickers, TriggerReports(t) PROVE AutoInv'
  BY <1>6, <1>7, TriggerQuiet DEF TriggerReports, Triggers
<1>8. ASSUME NEW t \in Tickers, TriggerEnters(t) PROVE AutoInv'
  <2>1. GateKept /\ todo' \subseteq Tickers /\ wide' \in BOOLEAN
    BY <1>6, <1>8 DEF TriggerEnters
  <2>2. queue' \in Seq(Requests) /\ EntryInv'
    BY <1>8, TriggerCalls
  <2>3. /\ UNCHANGED <<clockVars, cfgVars, lastEntry, entered, exitVars, bookVars, trading>>
        /\ trig' = "entering"
    BY <1>8 DEF TriggerEnters, Triggers
  <2>4. TypeOK'
    BY <2>1, <2>2, <2>3 DEF AutoInv, TypeOK, clockVars, cfgVars, exitVars, bookVars
  <2> QED
    BY <2>1, <2>2, <2>4 DEF AutoInv
<1> QED
  BY <1>2, <1>3, <1>4, <1>5, <1>7, <1>8 DEF Trigger

\* The auto exit keeps it.
LEMMA ExitInv == ASSUME AutoInv, ExitWakes \/ Exit PROVE AutoInv'
<1> USE AutoAssumption
<1> DEFINE Stages == {"asleep", "looking", "closing", "refreshing", "closed", "failed", "warning"}
           ExitTyped == exit' \in Stages /\ left' \subseteq Tickers \X Nat
                        /\ judged' \in (Tickers \X Nat) \cup {NoHedge}
           Others == UNCHANGED <<clockVars, cfgVars, gateVars, trigVars, bookVars>>
<1>1. ASSUME ExitTyped, Others, UNCHANGED callVars PROVE AutoInv'
  <2>1. TypeOK'
    BY <1>1 DEF AutoInv, TypeOK, clockVars, cfgVars, gateVars, trigVars, callVars, bookVars
  <2>2. AccountInv' /\ EntryInv'
    BY <1>1 DEF AutoInv, AccountInv, EntryInv, clockVars, gateVars, trigVars, callVars
  <2> QED
    BY <2>1, <2>2 DEF AutoInv
<1>2. CASE ExitWakes
  <2>1. opened \in [Tickers -> Nat] /\ exit' = "looking"
        /\ left' = {<<t, opened[t]>> : t \in {u \in Tickers : active[u] # NoExchange}}
    BY <1>2 DEF ExitWakes, AutoInv, TypeOK
  <2>2. left' \subseteq Tickers \X Nat
    BY <2>1
  <2>3. Others /\ UNCHANGED callVars /\ judged' \in (Tickers \X Nat) \cup {NoHedge}
    BY <1>2 DEF ExitWakes, exitVars, AutoInv, TypeOK
  <2> QED
    BY <1>1, <2>1, <2>2, <2>3
<1>3. CASE ExitSleeps
  BY <1>1, <1>3 DEF ExitSleeps, AutoInv, TypeOK
<1>4. CASE ExitNotified
  BY <1>1, <1>4 DEF ExitNotified, AutoInv, TypeOK
<1>5. ASSUME NEW j \in Tickers \X Nat, ExitPasses(j) PROVE AutoInv'
  BY <1>1, <1>5 DEF ExitPasses, AutoInv, TypeOK
<1>6. ASSUME NEW j \in Tickers \X Nat, ExitChecks(j) PROVE AutoInv'
  <2>1. ExitTyped /\ Others /\ trading' = trading
    BY <1>6 DEF ExitChecks, AutoInv, TypeOK
  <2>2. PICK op \in {"close", "refresh"} : Enqueue(Call("exit", op, j[1], NoExchange))
    BY <1>6 DEF ExitChecks
  <2> DEFINE c == Call("exit", op, j[1], NoExchange)
  <2>3. c \in Requests /\ c.by # "trigger"
    BY DEF Call, Requests
  <2> HIDE DEF c
  <2>4. queue' \in Seq(Requests) /\ EntryInv'
    <3>1. Enqueue(c)
      BY <2>2 DEF c
    <3> QED
      BY <2>1, <2>3, <3>1, OthersCall DEF clockVars, trigVars
  <2>5. TypeOK'
    BY <2>1, <2>4 DEF AutoInv, TypeOK, clockVars, cfgVars, gateVars, trigVars, bookVars
  <2>6. AccountInv'
    BY <2>1 DEF AutoInv, AccountInv, clockVars, gateVars
  <2> QED
    BY <2>4, <2>5, <2>6 DEF AutoInv
<1>7. \A t \in Tickers, n \in 1..MaxOpened : <<t, n>> \in Tickers \X Nat
  OBVIOUS
<1> QED
  BY <1>2, <1>3, <1>4, <1>5, <1>6, <1>7 DEF Exit

\* The hedge service keeps it.
LEMMA ServiceInv == ASSUME AutoInv, Service PROVE AutoInv'
<1> USE AutoAssumption
<1> DEFINE BookTyped == /\ active' \in [Tickers -> Exchanges \cup {NoExchange}]
                        /\ opened' \in [Tickers -> Nat]
<1>1. UNCHANGED bookVars => BookTyped
  BY DEF AutoInv, TypeOK, bookVars
<1>2. queue # <<>> => First \in Requests
  BY TailLemma DEF AutoInv, TypeOK, First
<1>3. CASE Begin
  <2>1. /\ trading' = TRUE
        /\ UNCHANGED <<clockVars, cfgVars, gateVars, trigVars, exitVars, queue, bookVars>>
    BY <1>3 DEF Begin
  <2>2. TypeOK'
    BY <2>1 DEF AutoInv, TypeOK, clockVars, cfgVars, gateVars, trigVars, exitVars, bookVars
  <2>3. AccountInv' /\ EntryInv'
    BY <2>1 DEF AutoInv, AccountInv, EntryInv, clockVars, gateVars, trigVars
  <2> QED
    BY <2>2, <2>3 DEF AutoInv
<1>4. CASE Refuse
  BY <1>1, <1>4, Answered DEF Refuse
<1>5. CASE EnterFilled
  <2>1. First.t \in Tickers
    BY <1>2, <1>5 DEF EnterFilled, Requests
  <2>2. CASE active[First.t] = NoExchange
    <3>1. /\ First.e \in Exchanges \cup {NoExchange}
          /\ active' = [active EXCEPT ![First.t] = First.e]
          /\ opened' = [opened EXCEPT ![First.t] = @ + 1]
      BY <1>2, <1>5, <2>2 DEF EnterFilled, Book!Open, Requests
    <3>2. BookTyped
      BY <2>1, <3>1 DEF AutoInv, TypeOK
    <3> QED
      BY <1>5, <3>2, Answered DEF EnterFilled
  <2>3. CASE active[First.t] # NoExchange
    BY <1>1, <1>5, <2>3, Answered DEF EnterFilled
  <2> QED
    BY <2>2, <2>3
<1>6. CASE EnterFailed
  BY <1>1, <1>6, Answered DEF EnterFailed
<1>7. CASE ClosedSeen
  <2>1. /\ First.t \in Tickers /\ opened' = opened
        /\ active' = [active EXCEPT ![First.t] = NoExchange]
    BY <1>2, <1>7 DEF ClosedSeen, Book!Close, Requests
  <2>2. BookTyped
    BY <2>1 DEF AutoInv, TypeOK
  <2> QED
    BY <1>7, <2>2, Answered DEF ClosedSeen
<1>8. CASE StillOpen
  BY <1>1, <1>8, Answered DEF StillOpen
<1>9. CASE CallRaises
  BY <1>1, <1>9, Answered DEF CallRaises
<1> QED
  BY <1>3, <1>4, <1>5, <1>6, <1>7, <1>8, <1>9 DEF Service

\* Every step keeps it.
LEMMA NextInv == ASSUME AutoInv, [Next]_vars PROVE AutoInv'
<1>1. CASE UNCHANGED vars
  <2>1. TypeOK'
    BY <1>1 DEF AutoInv, TypeOK, vars,
                clockVars, cfgVars, gateVars, trigVars, exitVars, callVars, bookVars
  <2>2. AccountInv' /\ EntryInv'
    BY <1>1 DEF AutoInv, AccountInv, EntryInv, vars, clockVars, gateVars, trigVars, callVars
  <2> QED
    BY <2>1, <2>2 DEF AutoInv
<1> QED
  BY <1>1, WorldInv, TriggerInv, ExitInv, ServiceInv DEF Next

-----------------------------------------------------------------------------
(* The theorems.                                                           *)

\* AutoInv holds in every state: the gate's account is the day's, and an entry under
\* way still has its room in the cap and its cooldown behind it.
THEOREM AutoInvHolds == Spec => []AutoInv
BY InitAuto, NextInv, PTL DEF Spec

\* CapHolds: no calendar day's entries come to more than the cap, between two
\* restarts of the process.
THEOREM CapIsKept == Spec => []CapHolds
<1>1. AutoInv => CapHolds
  BY DEF AutoInv, AccountInv, CapHolds
<1> QED
  BY <1>1, AutoInvHolds, PTL

\* CooldownHolds: an entry is recorded only when the cooldown of its ticker has
\* passed, however long the service took to answer.
THEOREM CooldownIsKept == Spec => CooldownHolds
<1> DEFINE Kept == entered'[day] > entered[day] => now - lastEntry[First.t] >= Cooldown
<1>1. ASSUME AutoInv, Next PROVE Kept
  <2>1. ASSUME entered'[day] > entered[day], ~Service PROVE FALSE
    <3>1. entered \in [Days -> Nat] /\ day \in Days
      BY <1>1 DEF AutoInv, TypeOK
    <3>2. CASE UNCHANGED entered
      BY <2>1, <3>1, <3>2
    <3>3. CASE Restart
      BY <2>1, <3>1, <3>3 DEF Restart
    <3>4. UNCHANGED entered \/ Restart
      BY <1>1, <2>1 DEF Next, World, Tick, Midnight, Switch, Status, UserCalls,
         TriggerWakes, Trigger, TriggerScans, TriggerSleeps, TriggerNotified, TriggerReports,
         TriggerEnters, Triggers, ExitWakes, Exit, ExitSleeps, ExitNotified, ExitChecks,
         ExitPasses, gateVars
    <3> QED
      BY <3>2, <3>3, <3>4
  <2>2. ASSUME Service, entered'[day] > entered[day]
        PROVE  queue # <<>> /\ First.by = "trigger"
    <3>1. entered \in [Days -> Nat] /\ day \in Days
      BY <1>1 DEF AutoInv, TypeOK
    <3>2. entered' # entered
      BY <2>2, <3>1
    <3>3. queue # <<>> /\ \E answer : Answer(answer)
      BY <2>2, <3>2 DEF Service, Begin, Refuse, EnterFilled, EnterFailed, ClosedSeen,
                        StillOpen, CallRaises, gateVars
    <3> QED
      BY <3>2, <3>3 DEF Answer, gateVars
  <2>3. ASSUME queue # <<>>, First.by = "trigger" PROVE now - lastEntry[First.t] >= Cooldown
    <3>1. First = queue[1] /\ 1 \in DOMAIN queue
      BY <1>1, <2>3, TailLemma DEF AutoInv, TypeOK, First
    <3> QED
      BY <1>1, <2>3, <3>1 DEF AutoInv, EntryInv
  <2> QED
    BY <2>1, <2>2, <2>3
<1>2. ASSUME AutoInv, [Next]_vars PROVE [Kept]_vars
  BY <1>1, <1>2
<1> QED
  BY <1>2, AutoInvHolds, PTL DEF Spec, CooldownHolds

-----------------------------------------------------------------------------
(***************************************************************************)
(* PairTrader                                                              *)
(***************************************************************************)

\* The constants are numbers, of which some are not zero.
LEMMA Numbers ==
    /\ LimitCount \in Nat /\ LimitCount > 0 /\ MaxRetries \in Nat /\ MaxRetries > 0
    /\ MaxLosses \in Nat /\ MaxLosses > 0 /\ EntryTrigger \in Nat /\ CloseTrigger \in Nat
    /\ Callback \in Nat /\ PosCap \in Nat /\ MaxUnits \in Nat /\ Grace \in Nat
    /\ MaxFaults \in Nat /\ MaxCrashes \in Nat /\ StopLoss \in Nat /\ Activation \in Nat
BY PairAssumption

\* A task is a record: what becomes of it when one field changes.
LEMMA TaskAt ==
    ASSUME NEW t \in Tasks, NEW a \in LoopStages
    PROVE  LET u == [t EXCEPT !.at = a]
           IN  /\ u \in Tasks /\ u.at = a /\ u.leg = t.leg /\ u.tries = t.tries /\ u.priced = t.priced
               /\ u.done = t.done /\ u.why = t.why
BY DEF Tasks

\* The same, when the leg changes.
LEMMA TaskLeg ==
    ASSUME NEW t \in Tasks, NEW l \in {0} \cup Coins
    PROVE  LET u == [t EXCEPT !.leg = l]
           IN  /\ u \in Tasks /\ u.at = t.at /\ u.leg = l /\ u.tries = t.tries /\ u.priced = t.priced
               /\ u.done = t.done /\ u.why = t.why
BY DEF Tasks

\* The same, when the order has been placed.
LEMMA TaskPriced ==
    ASSUME NEW t \in Tasks, NEW a \in LoopStages, NEW p \in BOOLEAN
    PROVE  LET u == [t EXCEPT !.at = a, !.priced = p]
           IN  /\ u \in Tasks /\ u.at = a /\ u.leg = t.leg /\ u.tries = t.tries /\ u.priced = p
               /\ u.done = t.done /\ u.why = t.why
BY DEF Tasks

\* The same, when an attempt has been used up.
LEMMA TaskTries ==
    ASSUME NEW t \in Tasks, t.tries < MaxRetries
    PROVE  LET u == [t EXCEPT !.tries = @ + 1]
           IN  /\ u \in Tasks /\ u.at = t.at /\ u.leg = t.leg /\ u.tries = t.tries + 1 /\ u.priced = t.priced
               /\ u.done = t.done /\ u.why = t.why
BY Numbers DEF Tasks

\* The tasks of a loop between two cycles, and of one that is gone.
LEMMA IdleIs ==
    /\ Idle \in Tasks /\ Idle.at = "idle" /\ Idle.leg = 0 /\ Idle.tries = 0 /\ ~Idle.priced
    /\ Idle.done = {} /\ Idle.why = ""
BY Numbers DEF Idle, Tasks, LoopStages, Reasons

\* A process that is gone has nothing under way.
LEMMA DownIs ==
    /\ Down \in Tasks /\ Down.at = "down" /\ Down.leg = 0 /\ Down.tries = 0 /\ ~Down.priced
    /\ Down.done = {} /\ Down.why = ""
BY IdleIs, TaskAt DEF Down, LoopStages

\* Without entries the PnL is a level.
LEMMA NoLevel == 0 \in Levels
BY Numbers DEF Levels

\* Without a trade there are no entries and no direction.
LEMMA NoTradeIs == NoTrade \in Trades /\ NoTrade.count = 0 /\ NoTrade.dir = 0
BY Numbers DEF NoTrade, Trades

\* The host may have kept nothing.
LEMMA NoStateIs ==
    /\ NoState \in [trade : Trades, observe : BOOLEAN] /\ NoState.trade.count = 0
    /\ NoState.trade.dir = 0 /\ ~NoState.observe
BY NoTradeIs DEF NoState

\* What the entries of a trade come to, in each coin.
LEMMA Worth ==
    ASSUME NEW t \in Trades
    PROVE  /\ Entries(t, 1) \in Int /\ Entries(t, 2) \in Int
           /\ t.dir = 1 => Entries(t, 1) = t.count /\ Entries(t, 2) = -t.count
           /\ t.dir = -1 => Entries(t, 1) = -t.count /\ Entries(t, 2) = t.count
           /\ t.dir = 0 \/ t.count = 0 => Entries(t, 1) = 0 /\ Entries(t, 2) = 0
<1>1. t.count \in Nat /\ t.dir \in {-1, 0, 1}
  BY Numbers DEF Trades
<1>2. CASE t.dir = 1
  BY <1>1, <1>2 DEF Entries
<1>3. CASE t.dir = -1
  BY <1>1, <1>3 DEF Entries
<1>4. CASE t.dir = 0
  BY <1>1, <1>4 DEF Entries
<1> QED
  BY <1>1, <1>2, <1>3, <1>4

\* _record_entry adds one unit of each coin to what the trade comes to.
LEMMA RecordedIs ==
    ASSUME trade \in Trades, trade.count < LimitCount
    PROVE  /\ Recorded \in Trades /\ Recorded.count = trade.count + 1 /\ Recorded.dir = trade.dir
           /\ \A c \in Coins : Entries(Recorded, c) = Entries(trade, c) + Side(c)
<1>1. Recorded \in Trades /\ Recorded.count = trade.count + 1 /\ Recorded.dir = trade.dir
  BY Numbers DEF Recorded, Trades
<1>2. trade.count \in Nat /\ trade.dir \in {-1, 0, 1}
  BY Numbers DEF Trades
<1> QED
  BY <1>1, <1>2, Worth DEF Side, Coins

\* A market order moves one coin by one unit, to the trade's side.
LEMMA BoughtIs ==
    ASSUME PairTypeOK, NEW c \in Coins
    PROVE  /\ Bought(c) \in [Coins -> Int] /\ Side(c) \in {-1, 0, 1}
           /\ \A x \in Coins : Bought(c)[x] = IF x = c THEN pos[x] + Side(c) ELSE pos[x]
BY DEF PairTypeOK, Trades, Bought, Side, Coins

\* An order rests on one side of the book or on the other.
LEMMA RestIs ==
    ASSUME PairTypeOK, NEW c \in Coins
    PROVE  /\ rest[c][1] \in Nat /\ rest[c][-1] \in Nat
           /\ Resting(c) <=> rest[c][1] > 0 \/ rest[c][-1] > 0
BY DEF PairTypeOK, Resting, Empty

\* A leg's own order is one unit on the trade's side.
LEMMA OrderedIs ==
    ASSUME NEW c \in Coins, Side(c) \in {-1, 1}
    PROVE  /\ Ordered(c) \in [{-1, 1} -> Nat] /\ Ordered(c)[Side(c)] = 1 /\ Ordered(c)[-Side(c)] = 0
           /\ Empty[1] = 0 /\ Empty[-1] = 0 /\ Empty \in [{-1, 1} -> Nat] /\ Ordered(c) # Empty
BY DEF Ordered, Empty

\* What holds as long as nothing has slipped.
Books == CycleInv /\ LimitInv /\ ObserveInv

\* Even positions with nothing resting lie on the side of their trade.
LEMMA EvenIsCovered ==
    ASSUME PairTypeOK', ~AnyResting', \A c \in Coins : Even(c)'
    PROVE  \A c \in Coins : Covered(c)'
<1> SUFFICES ASSUME NEW c \in Coins PROVE Covered(c)'
  OBVIOUS
<1>1. rest'[c][1] = 0 /\ rest'[c][-1] = 0
  BY DEF AnyResting, Resting, Empty
<1>2. trade' \in Trades /\ trade'.count \in Nat /\ trade'.dir \in {-1, 0, 1}
  BY Numbers DEF PairTypeOK, Trades
<1> QED
  BY <1>1, <1>2, Worth DEF Covered, Even, Side, Coins

\* With nothing under way, nothing resting and even positions all is in order.
LEMMA Squared ==
    ASSUME PairTypeOK', task'.at \in {"idle", "delay"}, task'.done = {}, ~AnyResting',
           \A c \in Coins : Even(c)'
    PROVE  Books'
BY EvenIsCovered DEF Books, CycleInv, LimitInv, ObserveInv, Standing

\* What is said of the loop does not depend on prices, cooldowns and counters.
LEMMA Unmoved ==
    ASSUME PairInv, UNCHANGED <<plan, pos, rest, trade, observe, task, saved, slipped>>, PairTypeOK'
    PROVE  PairInv'
BY DEF PairInv, LoopInv, CycleInv, LimitInv, ObserveInv, AnyResting, Resting, Covered, Standing,
   Even, Ahead, Side, Offered, Ordered

\* The trader starts flat.
LEMMA PairStarts == PairInit => PairInv
<1> SUFFICES ASSUME PairInit PROVE PairInv
  OBVIOUS
<1>1. pos \in [Coins -> Int] /\ rest \in [Coins -> [{-1, 1} -> Nat]]
  BY DEF PairInit, Empty
<1>2. PairTypeOK
  <2>1. trade \in Trades /\ trade.count = 0
    BY NoTradeIs DEF PairInit
  <2>2. saved \in [trade : Trades, observe : BOOLEAN] /\ saved.trade.count = 0
    BY NoStateIs DEF PairInit
  <2>3. task \in Tasks /\ pnl \in Levels
    BY IdleIs, NoLevel DEF PairInit
  <2>4. losses \in 0..MaxLosses /\ faults \in 0..MaxFaults /\ crashes \in 0..MaxCrashes
    BY Numbers DEF PairInit
  <2>5. /\ plan \in Plans /\ observe \in BOOLEAN /\ breaker \in BOOLEAN /\ cooling \in BOOLEAN
        /\ slipped \in BOOLEAN
    BY DEF PairInit
  <2> QED
    BY <1>1, <2>1, <2>2, <2>3, <2>4, <2>5, Numbers DEF PairTypeOK
<1>3. ~AnyResting /\ \A c \in Coins : Even(c)
  BY NoTradeIs, Worth DEF PairInit, AnyResting, Resting, Even, Coins
<1>4. LoopInv
  <2>1. task.at = "idle" /\ task.done = {} /\ trade.count = 0 /\ ~observe /\ saved = NoState
    BY NoTradeIs, IdleIs DEF PairInit
  <2> QED
    BY <1>3, <2>1, NoStateIs DEF LoopInv, Legged, InEntry
<1>5. task.at = "idle" /\ task.done = {} /\ trade.dir = 0
  BY NoTradeIs, IdleIs DEF PairInit
<1>6. \A c \in Coins : Covered(c)
  BY <1>3, <1>5 DEF PairInit, Covered, Side, Empty, Coins
<1> QED
  BY <1>2, <1>3, <1>4, <1>5, <1>6 DEF PairInv, CycleInv, LimitInv, ObserveInv, Standing

-----------------------------------------------------------------------------
(* The world *)

\* Prices move and cooldowns run out.
LEMMA QuietSteps ==
    ASSUME PairInv, Moves \/ Expires \/ UNCHANGED pairVars
    PROVE  PairInv'
<1>1. PairTypeOK
  BY DEF PairInv
<1>2. CASE Moves
  BY <1>1, <1>2, Unmoved DEF Moves, PairTypeOK, venueVars, brakeVars, boundVars
<1>3. CASE Expires
  BY <1>1, <1>3, Unmoved DEF Expires, PairTypeOK, venueVars, boundVars
<1>4. CASE UNCHANGED pairVars
  BY <1>1, <1>4, Unmoved DEF pairVars, PairTypeOK, venueVars, brakeVars, boundVars
<1> QED
  BY <1>2, <1>3, <1>4

\* The operator switches observe mode.
LEMMA ToggleSteps ==
    ASSUME PairInv, Toggles
    PROVE  PairInv'
<1>1. PairTypeOK'
  BY DEF PairInv, Toggles, PairTypeOK, venueVars, brakeVars, boundVars
<1> QED
  BY <1>1 DEF Toggles, PairInv, LoopInv, CycleInv, LimitInv, ObserveInv, AnyResting, Resting,
     Covered, Standing, Even, Ahead, Side, Offered, Ordered, venueVars, brakeVars, boundVars

\* The host keeps the state: between two cycles it is what the venue holds.
LEMMA SaveSteps ==
    ASSUME PairInv, Saves
    PROVE  PairInv'
<1>1. State \in [trade : Trades, observe : BOOLEAN] /\ (MaxUnits > 0 => State.trade.count <= MaxUnits)
  BY Numbers, NoStateIs DEF PairInv, PairTypeOK, State
<1>2. State = NoState \/ (State.trade.count > 0 /\ State.trade.dir # 0)
  <2>1. trade.count \in Nat
    BY Numbers DEF PairInv, PairTypeOK, Trades
  <2> QED
    BY <2>1 DEF PairInv, LoopInv, State
<1>3. PairTypeOK'
  BY <1>1 DEF PairInv, Saves, PairTypeOK, venueVars, brakeVars, boundVars
<1>4. plan = "market" => ~State.observe
  BY NoStateIs DEF PairInv, LoopInv, State
<1>5. LoopInv'
  BY <1>2, <1>4 DEF Saves, PairInv, LoopInv, AnyResting, Resting, venueVars
<1>6. ASSUME ~slipped' PROVE Books'
  BY <1>6 DEF Saves, PairInv, Books, CycleInv, LimitInv, ObserveInv, AnyResting, Resting,
     Covered, Standing, Even, Ahead, Side, Offered, Ordered, venueVars
<1> QED
  BY <1>3, <1>5, <1>6 DEF PairInv, Books

\* The process is lost: unless that is a slip, what was saved is what the venue holds.
LEMMA CrashSteps ==
    ASSUME PairInv, Crashes
    PROVE  PairInv'
<1>1. PairTypeOK /\ LoopInv
  BY DEF PairInv
<1>2. PairTypeOK'
  <2>0. trade' = NoTrade /\ task' = Down /\ pnl' = 0 /\ losses' = 0
    BY DEF Crashes
  <2>1. trade' \in Trades /\ trade'.count = 0 /\ task' \in Tasks /\ pnl' \in Levels
    BY <2>0, NoTradeIs, DownIs, NoLevel
  <2>4. MaxUnits > 0 => trade'.count <= MaxUnits
    BY <2>1, Numbers
  <2>2. /\ plan' = plan /\ pos' = pos /\ rest' = rest /\ saved' = saved /\ faults' = faults
        /\ slipped' \in BOOLEAN /\ observe' \in BOOLEAN
        /\ breaker' \in BOOLEAN /\ cooling' \in BOOLEAN
    BY <1>1 DEF Crashes, PairTypeOK, venueVars
  <2>9. losses' \in 0..MaxLosses /\ crashes' \in 0..MaxCrashes
    <3>1. crashes < MaxCrashes /\ crashes' = crashes + 1 /\ crashes \in 0..MaxCrashes
      BY <1>1 DEF Crashes, PairTypeOK
    <3> QED
      BY <2>0, <3>1, Numbers
  <2> QED
    BY <1>1, <2>1, <2>2, <2>4, <2>9 DEF PairTypeOK
<1>3. ~AnyResting /\ ~AnyResting'
  BY <1>1 DEF Crashes, LoopInv, AnyResting, Resting, venueVars
<1>4. LoopInv'
  <2>1. task'.at = "down" /\ task'.done = {} /\ trade'.count = 0
    BY NoTradeIs, DownIs DEF Crashes
  <2> QED
    BY <1>1, <1>3, <2>1 DEF Crashes, LoopInv, Legged, InEntry
<1>5. ASSUME ~slipped' PROVE Books'
  <2>1. ~slipped /\ task.at \in {"idle", "delay"} /\ Held(saved) = Held(State)
    BY <1>5 DEF Crashes
  <2>2. \A c \in Coins : Even(c)
    BY <1>1, <1>3, <2>1 DEF PairInv, CycleInv, LoopInv, Standing
  <2>3. trade.count \in Nat /\ trade \in Trades /\ saved.trade \in Trades /\ saved.trade.count \in Nat
    BY <1>1, Numbers DEF PairTypeOK, Trades
  <2>4. ASSUME saved # NoState
        PROVE  saved.trade.count = trade.count /\ saved.trade.dir = trade.dir
    <3>1. saved.trade.count > 0
      BY <1>1, <2>4 DEF LoopInv
    <3>2. State.trade.count = saved.trade.count /\ State.trade.dir = saved.trade.dir
      BY <2>1 DEF Held
    <3>3. trade.count # 0
      BY <3>1, <3>2, NoStateIs DEF State
    <3> QED
      BY <3>2, <3>3 DEF State
  <2>5. ASSUME saved # NoState PROVE \A c \in Coins : pos[c] = Entries(saved.trade, c)
    BY <2>2, <2>4, <2>5 DEF Even, Entries
  <2> QED
    BY <2>5, DownIs DEF Crashes, Books, CycleInv, LimitInv, ObserveInv, venueVars
<1> QED
  BY <1>2, <1>4, <1>5 DEF PairInv, Books

\* _close_coin_positions leaves nothing where no call raises.
LEMMA ClosedIs ==
    ASSUME PairTypeOK, NEW r \in Raised
    PROVE  /\ Closed(r) \in [Coins -> Int] /\ faults + Cardinality(r) \in 0..MaxFaults
           /\ r = {} => \A c \in Coins : Closed(r)[c] = 0
<1>1. faults + Cardinality(r) \in 0..MaxFaults
  <2>1. Cardinality(r) \in Nat
    <3>1. IsFiniteSet(Coins)
      <4>1. Coins = ({} \cup {1}) \cup {2}
        BY DEF Coins
      <4> QED
        BY <4>1, FS_EmptySet, FS_AddElement
    <3> QED
      BY <3>1, FS_Subset, FS_CardinalityType DEF Raised
  <2> QED
    BY <2>1, Numbers DEF Raised, PairTypeOK
<1> QED
  BY <1>1 DEF Closed, PairTypeOK

\* shutdown closes what there is.
LEMMA ShutSteps ==
    ASSUME PairInv, ShutsDown
    PROVE  PairInv'
<1>1. PairTypeOK /\ LoopInv
  BY DEF PairInv
<1>2. PICK r \in Raised : /\ pos' = Closed(r) /\ faults' = faults + Cardinality(r)
                          /\ slipped' = (r # {} \/ AnyResting)
  BY DEF ShutsDown
<1>3. saved' \in [trade : Trades, observe : BOOLEAN] /\ (MaxUnits > 0 => saved'.trade.count <= MaxUnits)
  BY <1>1, Numbers, NoStateIs DEF ShutsDown, PairTypeOK
<1>4. PairTypeOK'
  <2>0. trade' = NoTrade /\ task' = Down /\ pnl' = 0 /\ losses' = 0
    BY DEF ShutsDown
  <2>1. trade' \in Trades /\ trade'.count = 0 /\ task' \in Tasks /\ pnl' \in Levels
    BY <2>0, NoTradeIs, DownIs, NoLevel
  <2>4. MaxUnits > 0 => trade'.count <= MaxUnits
    BY <2>1, Numbers
  <2>2. pos' \in [Coins -> Int] /\ faults' \in 0..MaxFaults /\ slipped' \in BOOLEAN
    BY <1>1, <1>2, ClosedIs
  <2>3. plan' = plan /\ rest' = rest
    BY DEF ShutsDown
  <2>5. observe' \in BOOLEAN /\ breaker' \in BOOLEAN /\ cooling' \in BOOLEAN
    BY DEF ShutsDown
  <2>9. losses' \in 0..MaxLosses /\ crashes' \in 0..MaxCrashes
    <3>1. crashes < MaxCrashes /\ crashes' = crashes + 1 /\ crashes \in 0..MaxCrashes
      BY <1>1 DEF ShutsDown, PairTypeOK
    <3> QED
      BY <2>0, <3>1, Numbers
  <2> QED
    BY <1>1, <1>3, <2>1, <2>2, <2>3, <2>4, <2>5, <2>9 DEF PairTypeOK
<1>5. ~AnyResting'
  BY <1>1 DEF ShutsDown, LoopInv, AnyResting, Resting
<1>6. LoopInv'
  <2>1. task'.at = "down" /\ task'.done = {} /\ trade'.count = 0 /\ saved' \in {saved, NoState}
    BY NoTradeIs, DownIs DEF ShutsDown
  <2> QED
    BY <1>1, <1>5, <2>1, NoStateIs DEF ShutsDown, LoopInv, Legged, InEntry
<1>7. ASSUME ~slipped' PROVE Books'
  <2>1. \A c \in Coins : pos'[c] = 0
    BY <1>1, <1>2, <1>7, ClosedIs
  <2> QED
    BY <2>1, DownIs DEF ShutsDown, Books, CycleInv, LimitInv, ObserveInv
<1> QED
  BY <1>4, <1>6, <1>7 DEF PairInv, Books

\* run restores what was saved, or closes what it finds.
LEMMA RestartSteps ==
    ASSUME PairInv, Restarts
    PROVE  PairInv'
<1>1. PairTypeOK /\ LoopInv
  BY DEF PairInv
<1>2. task' = Idle /\ rest' = rest /\ plan' = plan /\ saved' = saved /\ plan = "market"
  BY <1>1 DEF Restarts, LoopInv
<1>3. ~AnyResting /\ ~AnyResting'
  BY <1>1, <1>2 DEF LoopInv, AnyResting, Resting
<1>4. task'.at = "idle" /\ task'.done = {} /\ task' \in Tasks
  BY <1>2, IdleIs
<1>5. CASE saved # NoState /\ \E c \in Coins : pos[c] # 0
  <2>1. trade' = saved.trade /\ observe' = saved.observe /\ UNCHANGED <<pos, faults, slipped>>
    BY <1>5 DEF Restarts
  <2>2. trade' \in Trades /\ observe' \in BOOLEAN
    BY <1>1, <2>1 DEF PairTypeOK
  <2>3. PairTypeOK'
    BY <1>1, <1>4, <2>1, <2>2 DEF Restarts, PairTypeOK, brakeVars
  <2>4. ~observe'
    BY <1>1, <1>2, <2>1 DEF LoopInv
  <2>5. LoopInv'
    BY <1>1, <1>2, <1>3, <1>4, <1>5, <2>1, <2>4 DEF LoopInv, Legged, InEntry
  <2>6. ASSUME ~slipped' PROVE \A c \in Coins : Even(c)'
    BY <1>5, <2>1, <2>6 DEF PairInv, CycleInv, Restarts, Even
  <2> QED
    BY <1>3, <1>4, <2>3, <2>5, <2>6, Squared DEF PairInv, Books
<1>6. CASE ~(saved # NoState /\ \E c \in Coins : pos[c] # 0)
  <2>1. PICK r \in Raised : /\ pos' = Closed(r) /\ faults' = faults + Cardinality(r)
                            /\ slipped' = (r # {} \/ AnyResting)
    BY <1>6 DEF Restarts
  <2>2. UNCHANGED <<trade, observe>> /\ trade.count = 0
    BY <1>1, <1>6 DEF Restarts, LoopInv
  <2>3. pos' \in [Coins -> Int] /\ faults' \in 0..MaxFaults /\ slipped' \in BOOLEAN
    BY <1>1, <2>1, ClosedIs
  <2>4. PairTypeOK'
    BY <1>1, <1>4, <2>2, <2>3 DEF Restarts, PairTypeOK, brakeVars
  <2>5. LoopInv'
    BY <1>1, <1>2, <1>3, <1>4, <2>2 DEF LoopInv, Legged, InEntry
  <2>6. ASSUME ~slipped' PROVE \A c \in Coins : Even(c)'
    BY <1>1, <2>1, <2>2, <2>6, ClosedIs, Worth DEF Even, PairTypeOK, Coins
  <2> QED
    BY <1>3, <1>4, <2>4, <2>5, <2>6, Squared DEF PairInv, Books
<1> QED
  BY <1>5, <1>6

\* An order fills: of the leg that is waited for, or of observe mode's exit; otherwise
\* it slips.
LEMMA FillSteps ==
    ASSUME PairInv, NEW c \in Coins, NEW s \in {-1, 1}, Fills(c, s)
    PROVE  PairInv'
<1>1. PairTypeOK /\ LoopInv
  BY DEF PairInv
<1>2. /\ rest[c][s] > 0 /\ rest' = [rest EXCEPT ![c][s] = @ - 1]
      /\ pos' = [pos EXCEPT ![c] = @ + s] /\ slipped' = (slipped \/ ~Watched(c))
      /\ UNCHANGED <<plan, trade, observe, task, saved>>
  BY DEF Fills
<1>3. \A x \in Coins : rest[x][1] \in Nat /\ rest[x][-1] \in Nat /\ pos[x] \in Int
  BY <1>1 DEF PairTypeOK
<1>4. PairTypeOK'
  BY <1>1, <1>2 DEF Fills, PairTypeOK, brakeVars, boundVars
<1>5. Resting(c)
  BY <1>2 DEF Resting, Empty
<1>6. LoopInv'
  BY <1>1, <1>2, <1>5 DEF LoopInv, AnyResting
<1>7. /\ pos'[c] = pos[c] + s /\ rest'[c][s] = rest[c][s] - 1 /\ rest'[c][-s] = rest[c][-s]
      /\ \A x \in Coins \ {c} : pos'[x] = pos[x] /\ rest'[x] = rest[x]
  BY <1>1, <1>2 DEF PairTypeOK
<1>8. ASSUME ~slipped' PROVE Books'
  <2>1. ~slipped /\ Watched(c)
    BY <1>2, <1>8
  <2>2. CASE task.at = "wait"
    <3>1. task.leg = c
      BY <2>1, <2>2 DEF Watched
    <3>2. CASE c = 1 /\ Resting(2)
      <4>1. Resting(2)'
        BY <1>7, <3>2 DEF Resting, Coins
      <4> QED
        BY <1>2, <2>2, <3>1, <3>2, <4>1 DEF Books, CycleInv, LimitInv, ObserveInv
    <3>3. CASE ~(c = 1 /\ Resting(2))
      <4>1. /\ ~Resting(3 - c) /\ IF 3 - c \in task.done THEN Ahead(3 - c) ELSE Even(3 - c)
            /\ rest[c] = Ordered(c) /\ Even(c)
        BY <1>5, <2>1, <2>2, <3>1, <3>3 DEF PairInv, LimitInv, Resting
      <4>2. 3 - c \in Coins \ {c}
        BY DEF Coins
      <4>3. /\ ~Resting(3 - c)'
            /\ (IF 3 - c \in task.done THEN Ahead(3 - c) ELSE Even(3 - c))'
        BY <1>2, <1>7, <4>1, <4>2 DEF Resting, Ahead, Even, Side
      <4>4. Side(c) \in {-1, 1}
        BY <1>1, <2>2 DEF LoopInv, InEntry, PairTypeOK, Trades, Side
      <4>5. s = Side(c)
        BY <1>2, <4>1, <4>4, OrderedIs
      <4>6. rest'[c] = Empty
        <5>1. rest'[c] \in [{-1, 1} -> Nat]
          BY <1>4 DEF PairTypeOK
        <5>2. rest'[c][1] = 0 /\ rest'[c][-1] = 0
          BY <1>3, <1>7, <4>1, <4>4, <4>5, OrderedIs
        <5> QED
          BY <5>1, <5>2 DEF Empty
      <4>7. Ahead(c)'
        BY <1>2, <1>7, <4>1, <4>5 DEF Ahead, Even, Side
      <4> QED
        BY <1>2, <2>2, <3>1, <4>3, <4>6, <4>7 DEF Books, CycleInv, LimitInv, ObserveInv
    <3> QED
      BY <3>2, <3>3
  <2>3. CASE task.at \in {"quote", "settle"}
    <3>1. \A x \in Coins : Covered(x)
      BY <2>1, <2>3 DEF PairInv, ObserveInv
    <3>2. Side(c) \in {-1, 0, 1}
      BY <1>1 DEF PairTypeOK, Trades, Side
    <3>3. Covered(c)'
      BY <1>2, <1>3, <1>7, <3>1, <3>2 DEF Covered, Side
    <3>4. \A x \in Coins \ {c} : Covered(x)'
      BY <1>2, <1>7, <3>1 DEF Covered, Side
    <3>5. Offered(c) => Offered(c)'
      BY <1>2, <1>3, <1>7 DEF Offered
    <3>6. \A x \in Coins \ {c} : Offered(x) => Offered(x)'
      BY <1>7 DEF Offered
    <3> QED
      BY <1>2, <2>1, <2>3, <3>3, <3>4, <3>5, <3>6
         DEF PairInv, Books, CycleInv, LimitInv, ObserveInv, Coins
  <2> QED
    BY <2>1, <2>2, <2>3 DEF Watched
<1> QED
  BY <1>4, <1>6, <1>8 DEF PairInv, Books

\* Whatever the world does, the invariant is kept.
LEMMA WorldKeeps ==
    ASSUME PairInv, PairWorld
    PROVE  PairInv'
BY QuietSteps, ToggleSteps, SaveSteps, CrashSteps, ShutSteps, RestartSteps, FillSteps DEF PairWorld

-----------------------------------------------------------------------------
(* _trade_cycle *)

\* Where a leg is named.
LEMMA Legs == 0 \in {0} \cup Coins /\ 1 \in {0} \cup Coins /\ 2 \in {0} \cup Coins
BY DEF Coins

\* The task of an entry that begins.
LEMMA EnteringIs ==
    /\ Entering \in Tasks /\ Entering.leg = 1 /\ Entering.tries = 0 /\ Entering.done = {}
    /\ Entering.at = (IF plan = "limit" THEN "place" ELSE "market")
<1>1. (IF plan = "limit" THEN "place" ELSE "market") \in LoopStages
  BY DEF LoopStages
<1> QED
  BY <1>1, Legs, IdleIs DEF Entering, Tasks

\* The task of observe mode's exit that begins.
LEMMA QuotingIs ==
    LET u == [Idle EXCEPT !.at = "quote", !.leg = 1]
    IN  u \in Tasks /\ u.at = "quote" /\ u.leg = 1 /\ u.done = {}
<1>1. "quote" \in LoopStages
  BY DEF LoopStages
<1> QED
  BY <1>1, Legs, IdleIs DEF Tasks

\* The task of a close that begins.
LEMMA ClosingIs ==
    ASSUME NEW w \in Reasons
    PROVE  /\ Closing(w) \in Tasks /\ Closing(w).at = "close" /\ Closing(w).leg = 1
           /\ Closing(w).done = {}
<1>1. "close" \in LoopStages
  BY DEF LoopStages
<1> QED
  BY <1>1, Legs, IdleIs DEF Closing, Tasks

\* An entry begins with what there was between two cycles.
LEMMA EntryStarts ==
    ASSUME task' = Entering, \A c \in Coins : Covered(c)',
           trade'.count = 0 => ~AnyResting', ~AnyResting' => \A c \in Coins : Even(c)'
    PROVE  Books'
<1>1. task'.leg = 1 /\ task'.tries = 0 /\ task'.done = {} /\ task'.at \in {"place", "market"}
  BY EnteringIs
<1> QED
  BY <1>1 DEF Books, CycleInv, LimitInv, ObserveInv, Standing, Coins

\* As long as entries and direction stay, so does what they come to.
LEMMA SameWorth ==
    ASSUME trade'.count = trade.count, trade'.dir = trade.dir, UNCHANGED <<pos, rest>>
    PROVE  /\ AnyResting' <=> AnyResting
           /\ \A c \in Coins : (Even(c)' <=> Even(c)) /\ (Covered(c)' <=> Covered(c))
BY DEF AnyResting, Resting, Even, Covered, Side, Entries

\* The signals agree: the entry waits for its delay with nothing held.
LEMMA DecideSteps ==
    ASSUME PairInv, Decides
    PROVE  PairInv'
<1>1. PairTypeOK /\ LoopInv
  BY DEF PairInv
<1>2. task' \in Tasks /\ task'.at = "delay" /\ task'.done = {}
  BY IdleIs, TaskAt DEF Decides, LoopStages
<1>3. PairTypeOK'
  BY <1>1, <1>2 DEF Decides, PairTypeOK, venueVars, brakeVars, boundVars
<1>4. LoopInv'
  BY <1>1, <1>2 DEF Decides, LoopInv, Legged, InEntry, AnyResting, Resting, venueVars
<1>5. ASSUME ~slipped' PROVE Books'
  <2>1. ~slipped /\ task.at = "idle" /\ trade.count = 0
    BY <1>5 DEF Decides
  <2>2. ~AnyResting /\ \A c \in Coins : Even(c)
    BY <1>1, <2>1 DEF PairInv, CycleInv, LoopInv, Standing
  <2>3. ~AnyResting' /\ \A c \in Coins : Even(c)'
    BY <2>2, SameWorth DEF Decides, venueVars
  <2> QED
    BY <1>2, <1>3, <2>3, Squared
<1> QED
  BY <1>3, <1>4, <1>5 DEF PairInv, Books

\* The first entry begins, in a direction, or is dropped.
LEMMA BeginSteps ==
    ASSUME PairInv, Begins
    PROVE  PairInv'
<1>1. PairTypeOK /\ LoopInv /\ task.at = "delay" /\ trade.count = 0
  BY DEF PairInv, Begins, LoopInv
<1>2. UNCHANGED <<plan, pos, rest, pnl, observe, losses, breaker, cooling, saved, slipped, faults, crashes>>
  BY DEF Begins, venueVars, brakeVars, boundVars
<1>3. ASSUME ~slipped PROVE ~AnyResting /\ \A c \in Coins : Even(c) /\ pos[c] = 0
  <2>1. ~AnyResting /\ \A c \in Coins : Even(c)
    BY <1>1, <1>3 DEF PairInv, CycleInv, LoopInv, Standing
  <2> QED
    BY <1>1, <2>1, Worth DEF Even, PairTypeOK, Coins
<1>4. CASE task' = Idle /\ UNCHANGED trade
  <2>1. PairTypeOK'
    BY <1>1, <1>2, <1>4, IdleIs DEF PairTypeOK
  <2>2. LoopInv'
    BY <1>1, <1>2, <1>4, IdleIs DEF LoopInv, Legged, InEntry, AnyResting, Resting
  <2>3. ASSUME ~slipped' PROVE ~AnyResting' /\ \A c \in Coins : Even(c)'
    BY <1>2, <1>3, <1>4, <2>3, SameWorth
  <2> QED
    BY <1>4, <2>1, <2>2, <2>3, IdleIs, Squared DEF PairInv, Books
<1>5. ASSUME NEW d \in {-1, 1}, task' = Entering, trade' = [trade EXCEPT !.dir = d]
      PROVE  PairInv'
  <2>1. trade' \in Trades /\ trade'.count = 0 /\ trade'.dir = d
    BY <1>1, <1>5 DEF PairTypeOK, Trades
  <2>2. PairTypeOK'
    <3>1. task' \in Tasks
      BY <1>5, EnteringIs
    <3>2. MaxUnits > 0 => trade'.count <= MaxUnits
      BY <2>1, Numbers
    <3> QED
      BY <1>1, <1>2, <2>1, <3>1, <3>2 DEF PairTypeOK
  <2>3. LoopInv'
    <3>1. trade'.dir # 0 /\ trade'.count < LimitCount /\ (MaxUnits > 0 => trade'.count < MaxUnits)
      BY <2>1, Numbers
    <3>2. task'.done = {} /\ task'.leg = 1 /\ task'.at \in {"market", "place"}
          /\ (plan = "market" => task'.at = "market")
      BY <1>5, EnteringIs
    <3> QED
      BY <1>1, <1>2, <2>1, <3>1, <3>2 DEF LoopInv, Legged, InEntry, AnyResting, Resting, Coins
  <2>4. ASSUME ~slipped' PROVE Books'
    <3>1. ~AnyResting' /\ \A c \in Coins : pos'[c] = 0
      BY <1>2, <1>3, <2>4 DEF AnyResting, Resting
    <3>2. \A c \in Coins : Even(c)'
      BY <2>1, <3>1, Worth DEF Even, Coins
    <3> QED
      BY <1>5, <2>2, <3>1, <3>2, EntryStarts, EvenIsCovered
  <2> QED
    BY <2>2, <2>3, <2>4 DEF PairInv, Books
<1> QED
  BY <1>4, <1>5 DEF Begins

\* A cycle's bookkeeping leaves the entries and the direction.
LEMMA WatchedTrade ==
    ASSUME trade \in Trades, pnl \in Levels
    PROVE  LET t == [trade EXCEPT !.cycles = Least(@ + 1, Grace + 1)]
               u == [t EXCEPT !.peak = Larger(@, pnl), !.trailing = @ \/ pnl >= Activation]
           IN  /\ t \in Trades /\ t.count = trade.count /\ t.dir = trade.dir
               /\ u \in Trades /\ u.count = trade.count /\ u.dir = trade.dir
<1> DEFINE t == [trade EXCEPT !.cycles = Least(@ + 1, Grace + 1)]
           u == [t EXCEPT !.peak = Larger(@, pnl), !.trailing = @ \/ pnl >= Activation]
<1>1. Least(trade.cycles + 1, Grace + 1) \in 0..(Grace + 1)
  BY Numbers DEF Trades, Least
<1>2. t \in Trades /\ t.count = trade.count /\ t.dir = trade.dir
  BY <1>1 DEF Trades
<1>3. Larger(t.peak, pnl) \in 0..Activation
  BY <1>2, Numbers DEF Trades, Larger, Levels
<1>4. (t.trailing \/ pnl >= Activation) \in BOOLEAN
  OBVIOUS
<1> HIDE DEF t
<1>5. u \in Trades /\ u.count = trade.count /\ u.dir = trade.dir
  BY <1>2, <1>3, <1>4 DEF Trades
<1> QED
  BY <1>2, <1>5 DEF t

\* What the levels can ask for.
LEMMA VerdictIs ==
    ASSUME NEW t
    PROVE  \/ Verdict(t) = Idle
           \/ \E w \in Reasons : Verdict(t) = Closing(w)
           \/ /\ Verdict(t) = Entering
              /\ t.count < LimitCount /\ (MaxUnits = 0 \/ t.count < MaxUnits)
BY DEF Verdict, Reasons

\* A cycle with a position: it goes on, closes, quotes or adds an entry.
LEMMA WatchSteps ==
    ASSUME PairInv, Watches
    PROVE  PairInv'
<1>1. PairTypeOK /\ LoopInv /\ task.at = "idle" /\ trade.count > 0
  BY DEF PairInv, Watches
<1>2. UNCHANGED <<plan, pos, rest, pnl, observe, losses, breaker, cooling, saved, slipped, faults, crashes>>
  BY DEF Watches, venueVars, brakeVars, boundVars
<1>3. trade' \in Trades /\ trade'.count = trade.count /\ trade'.dir = trade.dir
  BY <1>1, WatchedTrade DEF Watches, PairTypeOK
<1>4. \/ task' = Idle
      \/ \E w \in Reasons : task' = Closing(w)
      \/ observe /\ task' = [Idle EXCEPT !.at = "quote", !.leg = 1]
      \/ task' = Entering /\ trade.count < LimitCount /\ (MaxUnits > 0 => trade.count < MaxUnits)
  <2>1. "gain" \in Reasons /\ "signal" \in Reasons
    BY DEF Reasons
  <2>2. \A t : Verdict(t) = Entering /\ ~(MaxUnits = 0) /\ ~(t.count < MaxUnits)
            => Verdict(t) = Idle \/ \E w \in Reasons : Verdict(t) = Closing(w)
    BY VerdictIs
  <2> QED
    BY <1>3, <2>1, VerdictIs, Numbers DEF Watches
<1>5. task' \in Tasks
  BY <1>4, IdleIs, ClosingIs, EnteringIs, QuotingIs
<1>6. PairTypeOK'
  BY <1>1, <1>2, <1>3, <1>5 DEF PairTypeOK
<1>7. ASSUME ~slipped
      PROVE  /\ trade'.count # 0 /\ \A c \in Coins : Covered(c)'
             /\ ~AnyResting' => \A c \in Coins : Even(c)'
  <2>1. \A c \in Coins : Covered(c)
    BY <1>1, <1>7 DEF PairInv, CycleInv
  <2>2. ~AnyResting => \A c \in Coins : Even(c)
    BY <1>1, <1>7 DEF PairInv, CycleInv, LoopInv, Standing
  <2>3. trade.count # 0
    BY <1>1 DEF PairTypeOK, Trades
  <2> QED
    BY <1>2, <1>3, <2>1, <2>2, <2>3, SameWorth
<1>8. AnyResting' <=> AnyResting
  BY <1>2 DEF AnyResting, Resting
<1>9. CASE task' = Idle
  <2>1. LoopInv'
    BY <1>1, <1>2, <1>3, <1>8, <1>9, IdleIs DEF LoopInv, Legged, InEntry
  <2>2. ASSUME ~slipped' PROVE Books'
    <3>1. ~slipped
      BY <1>2, <2>2
    <3>2. task'.at = "idle" /\ task'.done = {}
      BY <1>9, IdleIs
    <3> QED
      BY <1>7, <3>1, <3>2 DEF Books, CycleInv, LimitInv, ObserveInv, Standing
  <2> QED
    BY <1>6, <2>1, <2>2 DEF PairInv, Books
<1>10. ASSUME NEW w \in Reasons, task' = Closing(w) PROVE PairInv'
  <2>1. task'.at = "close" /\ task'.leg = 1 /\ task'.done = {}
    BY <1>10, ClosingIs
  <2>2. LoopInv'
    BY <1>1, <1>2, <1>3, <1>8, <2>1 DEF LoopInv, Legged, InEntry, Coins
  <2>3. Books'
    BY <2>1 DEF Books, CycleInv, LimitInv, ObserveInv
  <2> QED
    BY <1>6, <2>2, <2>3 DEF PairInv, Books
<1>11. CASE observe /\ task' = [Idle EXCEPT !.at = "quote", !.leg = 1]
  <2>1. task'.at = "quote" /\ task'.leg = 1 /\ task'.done = {}
    BY <1>11, QuotingIs
  <2>2. LoopInv'
    BY <1>1, <1>2, <1>3, <1>8, <1>11, <2>1 DEF LoopInv, Legged, InEntry, Coins
  <2>3. ASSUME ~slipped' PROVE Books'
    BY <1>2, <1>7, <2>1, <2>3 DEF Books, CycleInv, LimitInv, ObserveInv
  <2> QED
    BY <1>6, <2>2, <2>3 DEF PairInv, Books
<1>12. CASE /\ task' = Entering /\ trade.count < LimitCount
            /\ (MaxUnits > 0 => trade.count < MaxUnits)
  <2>1. /\ task'.done = {} /\ task'.leg = 1 /\ task'.at \in {"market", "place"}
        /\ (plan = "market" => task'.at = "market")
    BY <1>12, EnteringIs
  <2>2. LoopInv'
    BY <1>1, <1>2, <1>3, <1>8, <1>12, <2>1 DEF LoopInv, Legged, InEntry, Coins
  <2>3. ASSUME ~slipped' PROVE Books'
    <3>1. ~slipped
      BY <1>2, <2>3
    <3>2. task' = Entering
      BY <1>12
    <3> QED
      BY <1>7, <3>1, <3>2, EntryStarts
  <2> QED
    BY <1>6, <2>2, <2>3 DEF PairInv, Books
<1> QED
  BY <1>4, <1>9, <1>10, <1>11, <1>12

-----------------------------------------------------------------------------
(* The closes *)

\* The count of losses stays within its limit.
LEMMA BrakeTypes ==
    ASSUME PairTypeOK, NEW w, Brake(w)
    PROVE  losses' \in 0..MaxLosses /\ breaker' \in BOOLEAN /\ cooling' \in BOOLEAN
<1>1. losses \in 0..MaxLosses /\ breaker \in BOOLEAN /\ cooling \in BOOLEAN
  BY DEF PairTypeOK
<1>2. Least(losses + 1, MaxLosses) \in 0..MaxLosses /\ 0 \in 0..MaxLosses
  BY <1>1, Numbers DEF Least
<1>3. CASE w = "stop"
  BY <1>1, <1>2, <1>3 DEF Brake
<1>4. CASE w = "signal"
  BY <1>1, <1>4 DEF Brake, brakeVars
<1>5. CASE w # "stop" /\ w # "signal"
  BY <1>1, <1>2, <1>5 DEF Brake
<1> QED
  BY <1>3, <1>4, <1>5

\* The bound on faults is kept.
LEMMA RaisesTypes ==
    ASSUME PairTypeOK, Raises
    PROVE  faults' \in 0..MaxFaults
BY Numbers DEF PairTypeOK, Raises

\* A close: coin 1 is flat when coin 2's turn comes, and both are when the trade is forgotten.
LEMMA CloseSteps ==
    ASSUME PairInv, NEW c \in Coins, Closes(c)
    PROVE  PairInv'
<1>1. PairTypeOK /\ LoopInv /\ task.at = "close" /\ task.leg = c /\ task.done = {}
  BY DEF PairInv, Closes, LoopInv
<1>2. UNCHANGED <<plan, rest, observe, saved, crashes>>
  BY DEF Closes
<1>3. /\ pos' \in {pos, [pos EXCEPT ![c] = 0]} /\ faults' \in 0..MaxFaults
      /\ slipped' \in BOOLEAN
      /\ ~slipped' => /\ pos' = [pos EXCEPT ![c] = 0]
                      /\ IF c = 1 THEN ~AnyResting ELSE ~slipped
  <2>1. CASE /\ pos' = [pos EXCEPT ![c] = 0] /\ UNCHANGED faults
             /\ slipped' = IF c = 1 THEN AnyResting ELSE slipped
    BY <1>1, <2>1 DEF PairTypeOK, AnyResting
  <2>2. CASE pos' \in {pos, [pos EXCEPT ![c] = 0]} /\ Raises /\ slipped' = TRUE
    BY <1>1, <2>2, RaisesTypes
  <2> QED
    BY <2>1, <2>2 DEF Closes
<1>4. pos' \in [Coins -> Int]
  BY <1>1, <1>3 DEF PairTypeOK
<1>5. AnyResting' <=> AnyResting
  BY <1>2 DEF AnyResting, Resting
<1>6. CASE c = 1
  <2>1. task' = [task EXCEPT !.leg = 2] /\ UNCHANGED <<pnl, trade, losses, breaker, cooling>>
    BY <1>6 DEF Closes, brakeVars
  <2>2. task' \in Tasks /\ task'.at = "close" /\ task'.leg = 2 /\ task'.done = {}
    BY <1>1, <2>1, TaskLeg, Legs DEF PairTypeOK
  <2>3. PairTypeOK'
    BY <1>1, <1>2, <1>3, <1>4, <2>1, <2>2 DEF PairTypeOK
  <2>4. LoopInv'
    BY <1>1, <1>2, <1>5, <2>1, <2>2 DEF LoopInv, Legged, InEntry, Coins
  <2>5. ASSUME ~slipped' PROVE Books'
    <3>1. ~AnyResting' /\ pos'[1] = 0
      BY <1>1, <1>3, <1>5, <1>6, <2>5 DEF PairTypeOK
    <3> QED
      BY <2>2, <3>1 DEF Books, CycleInv, LimitInv, ObserveInv
  <2> QED
    BY <2>3, <2>4, <2>5 DEF PairInv, Books
<1>7. CASE c # 1
  <2>1. task' = Idle /\ trade' = NoTrade /\ pnl' = 0 /\ Brake(task.why) /\ c = 2
    BY <1>7 DEF Closes, Coins
  <2>2. /\ trade' \in Trades /\ trade'.count = 0 /\ trade'.dir = 0 /\ pnl' \in Levels
        /\ task' \in Tasks /\ task'.at = "idle" /\ task'.done = {}
    BY <2>1, NoTradeIs, NoLevel, IdleIs
  <2>3. MaxUnits > 0 => trade'.count <= MaxUnits
    BY <2>2, Numbers
  <2>4. losses' \in 0..MaxLosses /\ breaker' \in BOOLEAN /\ cooling' \in BOOLEAN
    BY <1>1, <2>1, BrakeTypes
  <2>5. PairTypeOK'
    BY <1>1, <1>2, <1>3, <1>4, <2>2, <2>3, <2>4 DEF PairTypeOK
  <2>6. LoopInv'
    BY <1>1, <1>2, <1>5, <2>2 DEF LoopInv, Legged, InEntry
  <2>7. ASSUME ~slipped' PROVE Books'
    <3>1. ~AnyResting /\ pos[1] = 0
      BY <1>1, <1>3, <1>7, <2>1, <2>7 DEF PairInv, CycleInv
    <3>2. pos'[1] = 0 /\ pos'[2] = 0
      BY <1>1, <1>3, <2>1, <2>7, <3>1 DEF PairTypeOK, Coins
    <3>3. \A x \in Coins : Even(x)'
      BY <2>2, <3>2, Worth DEF Even, Coins
    <3> QED
      BY <1>5, <2>2, <2>5, <3>1, <3>3, Squared
  <2> QED
    BY <2>5, <2>6, <2>7 DEF PairInv, Books
<1> QED
  BY <1>6, <1>7

\* Observe mode's exit, one coin.
LEMMA QuoteSteps ==
    ASSUME PairInv, NEW c \in Coins, Quotes(c)
    PROVE  PairInv'
<1>1. PairTypeOK /\ LoopInv /\ task.at = "quote" /\ task.leg = c /\ task.done = {} /\ trade.count > 0
  BY DEF PairInv, Quotes, LoopInv
<1>2. UNCHANGED <<plan, pos, pnl, trade, observe, losses, breaker, cooling, saved, faults, crashes>>
  BY DEF Quotes, brakeVars, boundVars
<1>3. plan # "market"
  BY <1>1 DEF LoopInv
<1>4. /\ task' \in Tasks /\ task'.done = {} /\ task'.at = (IF c = 1 THEN "quote" ELSE "settle")
      /\ c = 1 => task'.leg = 2
  <2>1. CASE c = 1
    BY <1>1, <2>1, TaskLeg, Legs DEF Quotes, PairTypeOK
  <2>2. CASE c # 1
    <3>1. "settle" \in LoopStages
      BY DEF LoopStages
    <3> QED
      BY <2>2, <3>1, IdleIs, TaskAt DEF Quotes
  <2> QED
    BY <2>1, <2>2
<1>5. \A x \in Coins : pos[x] \in Int /\ rest[x][1] \in Nat /\ rest[x][-1] \in Nat
  BY <1>1 DEF PairTypeOK
<1>6. ASSUME pos[c] # 0
      PROVE  /\ Quoted(c) \in [Coins -> [{-1, 1} -> Nat]]
             /\ \A x \in Coins \ {c} : Quoted(c)[x] = rest[x]
             /\ Quoted(c)[c][1] = rest[c][1] + (IF pos[c] > 0 THEN 0 ELSE -pos[c])
             /\ Quoted(c)[c][-1] = rest[c][-1] + (IF pos[c] > 0 THEN pos[c] ELSE 0)
  <2>1. CASE pos[c] > 0
    BY <1>1, <1>5, <2>1 DEF Quoted, PairTypeOK
  <2>2. CASE pos[c] < 0
    BY <1>1, <1>5, <2>2 DEF Quoted, PairTypeOK
  <2> QED
    BY <1>5, <1>6, <2>1, <2>2
<1>7. /\ rest' \in [Coins -> [{-1, 1} -> Nat]] /\ slipped' \in BOOLEAN
      /\ \A x \in Coins \ {c} : rest'[x] = rest[x]
  BY <1>1, <1>6 DEF Quotes, PairTypeOK
<1>8. PairTypeOK'
  BY <1>1, <1>2, <1>4, <1>7 DEF PairTypeOK
<1>9. LoopInv'
  BY <1>1, <1>2, <1>3, <1>4 DEF LoopInv, Legged, InEntry, Coins
<1>10. ASSUME ~slipped' PROVE Books'
  <2>1. ~slipped /\ \/ pos[c] = 0 /\ rest' = rest
                    \/ pos[c] # 0 /\ rest' = Quoted(c) /\ ~Resting(c)
    <3>1. CASE pos[c] = 0 /\ UNCHANGED <<rest, slipped>>
      BY <1>10, <3>1
    <3>2. CASE pos[c] # 0 /\ rest' = Quoted(c) /\ slipped' = (slipped \/ Resting(c))
      BY <1>10, <3>2
    <3>3. CASE slipped' = TRUE
      BY <1>10, <3>3
    <3> QED
      BY <3>1, <3>2, <3>3 DEF Quotes
  <2>2. \A x \in Coins : Covered(x)
    BY <1>1, <2>1 DEF PairInv, ObserveInv
  <2>3. Side(c) \in {-1, 0, 1}
    BY <1>1 DEF PairTypeOK, Trades, Side
  <2>4. Covered(c)' /\ Offered(c)'
    <3>1. CASE pos[c] = 0 /\ rest' = rest
      BY <1>2, <1>5, <2>2, <3>1 DEF Covered, Offered, Side
    <3>2. CASE pos[c] # 0 /\ rest' = Quoted(c) /\ ~Resting(c)
      <4>1. rest[c][1] = 0 /\ rest[c][-1] = 0
        BY <1>1, <3>2, RestIs, <1>5
      <4>2. /\ rest'[c][1] = (IF pos[c] > 0 THEN 0 ELSE -pos[c])
            /\ rest'[c][-1] = (IF pos[c] > 0 THEN pos[c] ELSE 0)
        BY <1>5, <1>6, <3>2, <4>1
      <4> QED
        BY <1>2, <1>5, <2>2, <4>2 DEF Covered, Offered, Side
    <3> QED
      BY <2>1, <3>1, <3>2
  <2>5. \A x \in Coins \ {c} : Covered(x)' /\ (Offered(x) => Offered(x)')
    BY <1>2, <1>7, <2>2 DEF Covered, Offered, Side
  <2>6. c # 1 => Offered(1)
    BY <1>1, <2>1 DEF PairInv, ObserveInv, Coins
  <2> QED
    BY <1>4, <2>4, <2>5, <2>6 DEF Books, CycleInv, LimitInv, ObserveInv, Coins
<1> QED
  BY <1>8, <1>9, <1>10 DEF PairInv, Books

\* The exit is looked at: with all of it offered, what is flat has nothing left to fill.
LEMMA SettleSteps ==
    ASSUME PairInv, Settles
    PROVE  PairInv'
<1>1. PairTypeOK /\ LoopInv /\ task.at = "settle" /\ trade.count > 0
  BY DEF PairInv, Settles, LoopInv
<1>2. /\ UNCHANGED <<plan, pos, rest, observe, losses, breaker, cooling, saved, faults, crashes>>
      /\ task' = Idle
  BY DEF Settles, venueVars, brakeVars, boundVars
<1>3. task' \in Tasks /\ task'.at = "idle" /\ task'.done = {}
  BY <1>2, IdleIs
<1>4. AnyResting' <=> AnyResting
  BY <1>2 DEF AnyResting, Resting
<1>5. plan # "market"
  BY <1>1 DEF LoopInv
<1>6. CASE \A c \in Coins : pos[c] = 0
  <2>1. trade' = [trade EXCEPT !.count = 0, !.dir = 0] /\ pnl' = 0 /\ slipped' = AnyResting
    BY <1>6 DEF Settles
  <2>2. trade' \in Trades /\ trade'.count = 0 /\ trade'.dir = 0 /\ pnl' \in Levels
    <3>1. trade \in Trades /\ 0 \in 0..LimitCount /\ 0 \in {-1, 0, 1}
      BY <1>1, Numbers DEF PairTypeOK
    <3>2. trade' \in Trades /\ trade'.count = 0 /\ trade'.dir = 0
      BY <2>1, <3>1 DEF Trades
    <3> QED
      BY <2>1, <3>2, NoLevel
  <2>3. slipped' \in BOOLEAN
    BY <2>1 DEF AnyResting
  <2>4. MaxUnits > 0 => trade'.count <= MaxUnits
    BY <2>2, Numbers
  <2>5. PairTypeOK'
    BY <1>1, <1>2, <1>3, <2>2, <2>3, <2>4 DEF PairTypeOK
  <2>6. LoopInv'
    BY <1>1, <1>2, <1>3, <1>5, <2>2 DEF LoopInv, Legged, InEntry
  <2>7. ASSUME ~slipped' PROVE Books'
    <3>1. ~AnyResting'
      BY <1>4, <2>1, <2>7
    <3>2. \A x \in Coins : Even(x)'
      BY <1>2, <1>6, <2>2, Worth DEF Even, Coins
    <3> QED
      BY <1>3, <2>5, <3>1, <3>2, Squared
  <2> QED
    BY <2>5, <2>6, <2>7 DEF PairInv, Books
<1>7. CASE ~(\A c \in Coins : pos[c] = 0)
  <2>1. UNCHANGED <<pnl, trade, slipped>>
    BY <1>7 DEF Settles
  <2>2. PairTypeOK'
    BY <1>1, <1>2, <1>3, <2>1 DEF PairTypeOK
  <2>3. LoopInv'
    BY <1>1, <1>2, <1>3, <1>5, <2>1 DEF LoopInv, Legged, InEntry
  <2>4. ASSUME ~slipped' PROVE Books'
    <3>1. ~slipped
      BY <2>1, <2>4
    <3>2. \A c \in Coins : Covered(c) /\ Offered(c)
      BY <1>1, <3>1 DEF PairInv, ObserveInv
    <3>3. AnyResting'
      <4>1. PICK c \in Coins : pos[c] # 0
        BY <1>7
      <4>2. pos[c] = rest[c][-1] - rest[c][1]
        BY <3>2 DEF Offered
      <4>3. Resting(c)
        BY <1>1, <4>1, <4>2, RestIs
      <4> QED
        BY <1>4, <4>3 DEF AnyResting
    <3>4. \A c \in Coins : Covered(c)'
      BY <1>2, <2>1, <3>2, SameWorth
    <3>5. trade'.count # 0
      BY <1>1, <2>1 DEF PairTypeOK, Trades
    <3> QED
      BY <1>3, <3>3, <3>4, <3>5 DEF Books, CycleInv, LimitInv, ObserveInv
  <2> QED
    BY <2>2, <2>3, <2>4 DEF PairInv, Books
<1> QED
  BY <1>6, <1>7

\* A call of the exit, or of a look at a leg, raises.
LEMMA GiveUpSteps ==
    ASSUME PairInv, Falters \/ Abandons
    PROVE  PairInv'
<1>1. PairTypeOK /\ LoopInv /\ plan # "market"
  BY DEF PairInv, LoopInv, Falters, Abandons
<1>2. /\ UNCHANGED <<plan, pos, rest, pnl, trade, observe, losses, breaker, cooling, saved, crashes>>
      /\ task' = Idle /\ slipped' = TRUE /\ Raises
  BY DEF Falters, Abandons, venueVars, brakeVars
<1>3. task' \in Tasks /\ task'.at = "idle" /\ task'.done = {}
  BY <1>2, IdleIs
<1>4. faults' \in 0..MaxFaults
  BY <1>1, <1>2, RaisesTypes
<1>5. PairTypeOK'
  BY <1>1, <1>2, <1>3, <1>4 DEF PairTypeOK
<1>6. LoopInv'
  BY <1>1, <1>2, <1>3 DEF LoopInv, Legged, InEntry
<1> QED
  BY <1>2, <1>5, <1>6 DEF PairInv

-----------------------------------------------------------------------------
(* The entries at the market *)

\* During an entry there is a direction, room for one entry more, and numbers.
LEMMA EntryIs ==
    ASSUME PairTypeOK, LoopInv, task.at \in InEntry
    PROVE  /\ trade \in Trades /\ trade.count \in Nat /\ trade.count < LimitCount
           /\ MaxUnits > 0 => trade.count < MaxUnits
           /\ trade.dir \in {-1, 1} /\ Side(1) \in {-1, 1} /\ Side(2) \in {-1, 1}
           /\ \A c \in Coins : pos[c] \in Int /\ Entries(trade, c) \in Int /\ Side(c) \in {-1, 1}
<1>1. trade \in Trades /\ trade.dir # 0 /\ trade.count < LimitCount
      /\ (MaxUnits > 0 => trade.count < MaxUnits)
  BY DEF PairTypeOK, LoopInv
<1>2. trade.count \in Nat /\ trade.dir \in {-1, 1}
  BY <1>1, Numbers DEF Trades
<1>3. Side(1) \in {-1, 1} /\ Side(2) \in {-1, 1}
  BY <1>2 DEF Side
<1>4. \A c \in Coins : pos[c] \in Int /\ Entries(trade, c) \in Int /\ Side(c) \in {-1, 1}
  BY <1>1, <1>3, Worth DEF PairTypeOK, Coins
<1> QED
  BY <1>1, <1>2, <1>3, <1>4

\* One entry more is still a trade, and within the largest position.
LEMMA RecordedTypes ==
    ASSUME PairTypeOK, LoopInv, task.at \in InEntry
    PROVE  /\ Recorded \in Trades /\ Recorded.count > 0 /\ Recorded.dir # 0
           /\ Recorded.dir = trade.dir
           /\ MaxUnits > 0 => Recorded.count <= MaxUnits
           /\ \A c \in Coins : Entries(Recorded, c) = Entries(trade, c) + Side(c)
<1>1. trade \in Trades /\ trade.count \in Nat /\ trade.count < LimitCount /\ trade.dir \in {-1, 1}
      /\ (MaxUnits > 0 => trade.count < MaxUnits)
  BY EntryIs
<1>2. /\ Recorded \in Trades /\ Recorded.count = trade.count + 1 /\ Recorded.dir = trade.dir
      /\ \A c \in Coins : Entries(Recorded, c) = Entries(trade, c) + Side(c)
  BY <1>1, RecordedIs
<1> QED
  BY <1>1, <1>2, Numbers

\* The market order of a coin.
LEMMA MarketSteps ==
    ASSUME PairInv, NEW c \in Coins, Markets(c)
    PROVE  PairInv'
<1>1. PairTypeOK /\ LoopInv /\ task.at = "market" /\ task.leg = c /\ task.done = {}
      /\ task.at \in InEntry
  BY DEF PairInv, Markets, LoopInv, InEntry
<1>2. UNCHANGED <<plan, rest, pnl, observe, losses, breaker, cooling, saved, crashes>>
  BY DEF Markets, brakeVars
<1>3. AnyResting' <=> AnyResting
  BY <1>2 DEF AnyResting, Resting
<1>4. ASSUME ~slipped
      PROVE  /\ \A x \in Coins : Covered(x)
             /\ trade.count = 0 => ~AnyResting
             /\ ~AnyResting => (IF c = 1 THEN Even(1) ELSE Ahead(1)) /\ Even(2)
  BY <1>1, <1>4 DEF PairInv, CycleInv
<1>5. slipped \in BOOLEAN /\ faults \in 0..MaxFaults /\ pos \in [Coins -> Int]
  BY <1>1 DEF PairTypeOK
<1>6. /\ Bought(c) \in [Coins -> Int]
      /\ \A x \in Coins : Bought(c)[x] = IF x = c THEN pos[x] + Side(c) ELSE pos[x]
  BY <1>1, BoughtIs
<1>7. CASE /\ pos' = Bought(c) /\ UNCHANGED <<faults, slipped>> /\ c = 1
           /\ task' = [task EXCEPT !.leg = 2] /\ UNCHANGED trade
  <2>1. task' \in Tasks /\ task'.at = "market" /\ task'.leg = 2 /\ task'.done = {}
    BY <1>1, <1>7, TaskLeg, Legs DEF PairTypeOK
  <2>2. PairTypeOK'
    BY <1>1, <1>2, <1>6, <1>7, <2>1 DEF PairTypeOK
  <2>3. LoopInv'
    BY <1>1, <1>2, <1>3, <1>7, <2>1 DEF LoopInv, Legged, InEntry, Coins
  <2>4. ASSUME ~slipped' PROVE Books'
    <3>1. ~slipped
      BY <1>7, <2>4
    <3>2. pos'[1] = pos[1] + Side(1) /\ pos'[2] = pos[2]
      BY <1>6, <1>7 DEF Coins
    <3>3. Side(1)' = Side(1) /\ Side(2)' = Side(2)
      BY <1>7 DEF Side
    <3>4. Covered(1)'
      BY <1>1, <1>2, <1>4, <3>1, <3>2, <3>3, EntryIs, RestIs DEF Covered, Coins
    <3>5. Covered(2)'
      BY <1>2, <1>4, <3>1, <3>2, <3>3 DEF Covered, Coins
    <3>6. ~AnyResting' => Ahead(1)' /\ Even(2)'
      BY <1>3, <1>4, <1>7, <3>1, <3>2, <3>3 DEF Ahead, Even
    <3>7. trade'.count = 0 => ~AnyResting'
      BY <1>3, <1>4, <1>7, <3>1
    <3> QED
      BY <2>1, <3>4, <3>5, <3>6, <3>7 DEF Books, CycleInv, LimitInv, ObserveInv, Coins
  <2> QED
    BY <2>2, <2>3, <2>4 DEF PairInv, Books
<1>8. CASE /\ pos' = Bought(c) /\ UNCHANGED <<faults, slipped>> /\ c # 1
           /\ task' = Idle /\ trade' = Recorded
  <2>1. task' \in Tasks /\ task'.at = "idle" /\ task'.done = {}
    BY <1>8, IdleIs
  <2>2. /\ trade' \in Trades /\ trade'.count > 0 /\ trade'.dir # 0 /\ trade'.dir = trade.dir
        /\ MaxUnits > 0 => trade'.count <= MaxUnits
        /\ \A x \in Coins : Entries(trade', x) = Entries(trade, x) + Side(x)
    BY <1>1, <1>8, RecordedTypes
  <2>3. PairTypeOK'
    BY <1>1, <1>2, <1>6, <1>8, <2>1, <2>2 DEF PairTypeOK
  <2>4. LoopInv'
    BY <1>1, <1>2, <1>3, <2>1, <2>2 DEF LoopInv, Legged, InEntry
  <2>5. ASSUME ~slipped' PROVE Books'
    <3>1. ~slipped /\ c = 2
      BY <1>8, <2>5 DEF Coins
    <3>2. pos'[1] = pos[1] /\ pos'[2] = pos[2] + Side(2)
      BY <1>6, <1>8, <3>1 DEF Coins
    <3>3. Side(1)' = Side(1) /\ Side(2)' = Side(2)
      BY <2>2 DEF Side
    <3>4. Covered(2)'
      BY <1>1, <1>2, <1>4, <3>1, <3>2, <3>3, EntryIs, RestIs DEF Covered, Coins
    <3>5. Covered(1)'
      BY <1>2, <1>4, <3>1, <3>2, <3>3 DEF Covered, Coins
    <3>6. ASSUME ~AnyResting' PROVE Even(1)' /\ Even(2)'
      BY <1>3, <1>4, <2>2, <3>1, <3>2, <3>6 DEF Ahead, Even, Coins
    <3>7. trade'.count # 0
      BY <2>2, <2>3, Numbers DEF PairTypeOK, Trades
    <3> QED
      BY <2>1, <3>4, <3>5, <3>6, <3>7 DEF Books, CycleInv, LimitInv, ObserveInv, Standing, Coins
  <2> QED
    BY <2>3, <2>4, <2>5 DEF PairInv, Books
<1>9. CASE /\ Raises /\ UNCHANGED trade
           /\ \/ pos' = pos /\ UNCHANGED slipped
              \/ pos' = Bought(c) /\ slipped' = TRUE
           /\ task' = IF c = 1 THEN Idle ELSE [Idle EXCEPT !.at = "unwind"]
  <2>1. /\ task' \in Tasks /\ task'.done = {}
        /\ task'.at = IF c = 1 THEN "idle" ELSE "unwind"
    <3>1. CASE c = 1
      BY <1>9, <3>1, IdleIs
    <3>2. CASE c # 1
      <4>1. "unwind" \in LoopStages
        BY DEF LoopStages
      <4>2. task' = [Idle EXCEPT !.at = "unwind"]
        BY <1>9, <3>2
      <4>3. task' \in Tasks /\ task'.done = {} /\ task'.at = "unwind"
        BY <4>1, <4>2, IdleIs, TaskAt
      <4> QED
        BY <3>2, <4>3
    <3> QED
      BY <3>1, <3>2
  <2>2. faults' \in 0..MaxFaults
    BY <1>1, <1>9, RaisesTypes
  <2>3. pos' \in [Coins -> Int] /\ slipped' \in BOOLEAN
    BY <1>5, <1>6, <1>9
  <2>4. PairTypeOK'
    BY <1>1, <1>2, <1>9, <2>1, <2>2, <2>3 DEF PairTypeOK
  <2>5. LoopInv'
    BY <1>1, <1>2, <1>3, <1>9, <2>1 DEF LoopInv, Legged, InEntry
  <2>6. ASSUME ~slipped' PROVE Books'
    <3>1. ~slipped /\ pos' = pos /\ trade' = trade
      BY <1>9, <2>6
    <3>2. (\A x \in Coins : Covered(x)') /\ (trade'.count = 0 => ~AnyResting')
      BY <1>2, <1>4, <3>1, SameWorth
    <3>3. CASE c = 1
      <4>1. ~AnyResting' => \A x \in Coins : Even(x)'
        BY <1>2, <1>4, <3>1, <3>3, SameWorth DEF Coins
      <4> QED
        BY <2>1, <3>2, <3>3, <4>1 DEF Books, CycleInv, LimitInv, ObserveInv, Standing
    <3>4. CASE c # 1
      <4>1. trade'.count = 0 => ~AnyResting' /\ pos'[2] = 0
        <5>1. trade.count = 0 => Entries(trade, 2) = 0
          BY <1>1, Worth DEF PairTypeOK
        <5> QED
          BY <1>3, <1>4, <3>1, <5>1 DEF Even
      <4> QED
        BY <2>1, <3>4, <4>1 DEF Books, CycleInv, LimitInv, ObserveInv
    <3> QED
      BY <3>3, <3>4
  <2> QED
    BY <2>4, <2>5, <2>6 DEF PairInv, Books
<1>10. \/ pos' = Bought(c) /\ UNCHANGED <<faults, slipped>>
          /\ IF c = 1 THEN task' = [task EXCEPT !.leg = 2] /\ UNCHANGED trade
                      ELSE task' = Idle /\ trade' = Recorded
       \/ /\ Raises /\ UNCHANGED trade
          /\ \/ pos' = pos /\ UNCHANGED slipped
             \/ pos' = Bought(c) /\ slipped' = TRUE
          /\ task' = IF c = 1 THEN Idle ELSE [Idle EXCEPT !.at = "unwind"]
  BY Zenon DEF Markets
<1> QED
  BY <1>7, <1>8, <1>9, <1>10

\* Coin 2 failed, and coin 1 is closed.
LEMMA UnwindSteps ==
    ASSUME PairInv, Unwinds
    PROVE  PairInv'
<1>1. PairTypeOK /\ LoopInv /\ task.at = "unwind"
  BY DEF PairInv, Unwinds
<1>2. /\ UNCHANGED <<plan, rest, pnl, trade, observe, losses, breaker, cooling, saved, crashes>>
      /\ task' = Idle
  BY DEF Unwinds, brakeVars
<1>3. task' \in Tasks /\ task'.at = "idle" /\ task'.done = {}
  BY <1>2, IdleIs
<1>4. AnyResting' <=> AnyResting
  BY <1>2 DEF AnyResting, Resting
<1>5. /\ pos' \in {pos, [pos EXCEPT ![1] = 0]} /\ faults' \in 0..MaxFaults /\ slipped' \in BOOLEAN
      /\ ~slipped' => ~slipped /\ pos' = [pos EXCEPT ![1] = 0] /\ ~(trade.count > 0)
  <2>1. CASE /\ pos' = [pos EXCEPT ![1] = 0] /\ UNCHANGED faults
             /\ slipped' = (slipped \/ trade.count > 0)
    BY <1>1, <2>1 DEF PairTypeOK
  <2>2. CASE pos' \in {pos, [pos EXCEPT ![1] = 0]} /\ Raises /\ slipped' = TRUE
    BY <1>1, <2>2, RaisesTypes
  <2> QED
    BY <2>1, <2>2 DEF Unwinds
<1>6. PairTypeOK'
  BY <1>1, <1>2, <1>3, <1>5 DEF PairTypeOK
<1>7. LoopInv'
  BY <1>1, <1>2, <1>3, <1>4 DEF LoopInv, Legged, InEntry
<1>8. ASSUME ~slipped' PROVE Books'
  <2>1. trade.count = 0
    BY <1>1, <1>5, <1>8, Numbers DEF PairTypeOK, Trades
  <2>2. ~AnyResting /\ pos[2] = 0
    BY <1>1, <1>5, <1>8, <2>1 DEF PairInv, CycleInv
  <2>3. pos'[1] = 0 /\ pos'[2] = 0
    BY <1>1, <1>5, <1>8, <2>2 DEF PairTypeOK, Coins
  <2>4. \A x \in Coins : Even(x)'
    BY <1>2, <1>6, <2>1, <2>3, Worth DEF Even, Coins, PairTypeOK
  <2> QED
    BY <1>3, <1>4, <1>6, <2>2, <2>4, Squared
<1> QED
  BY <1>6, <1>7, <1>8 DEF PairInv, Books

-----------------------------------------------------------------------------
(* The entries with limit orders *)

\* The legs that are done once coin c has come back filled, or not.
LegDone(c, f) == IF f THEN task.done \cup {c} ELSE task.done

\* Where a leg leads, when _limit_order_with_retry comes back for it.
LEMMA LegLeads ==
    ASSUME PairTypeOK, LoopInv, task.at \in {"place", "wait", "urgent"}, NEW c \in Coins,
           task.leg = c, NEW f \in BOOLEAN, Leg(c, f)
    PROVE  LET d == LegDone(c, f) IN
           /\ task' \in Tasks
           /\ \/ /\ c = 1 /\ task'.at = "place" /\ task'.leg = 2 /\ task'.tries = 0
                 /\ task'.done = d /\ d \subseteq {1} /\ trade' = trade
              \/ /\ c = 2 /\ task'.at = "idle" /\ task'.done = {} /\ d = Coins /\ trade' = Recorded
              \/ /\ c = 2 /\ task'.at = "market" /\ task'.leg = 1 /\ task'.done = {} /\ d = {}
                 /\ trade' = trade
              \/ /\ c = 2 /\ task'.at = "hedge" /\ task'.leg \in Coins /\ task'.done = d
                 /\ d = Coins \ {task'.leg} /\ trade' = trade
<1> DEFINE d == LegDone(c, f)
<1>0. d = (IF f THEN task.done \cup {c} ELSE task.done) /\ LegDone(c, f) = d
  BY DEF LegDone
<1> HIDE DEF d
<1>1. task \in Tasks /\ task.done \subseteq (IF c = 1 THEN {} ELSE {1}) /\ d \in SUBSET Coins
  BY <1>0 DEF LoopInv, PairTypeOK, Coins
<1>2. "place" \in LoopStages /\ "market" \in LoopStages /\ "hedge" \in LoopStages
  BY DEF LoopStages
<1>3. \A a \in LoopStages, l \in Coins :
        LET u == [Idle EXCEPT !.at = a, !.leg = l, !.done = d]
        IN  u \in Tasks /\ u.at = a /\ u.leg = l /\ u.tries = 0 /\ u.done = d
  <2> SUFFICES ASSUME NEW a \in LoopStages, NEW l \in Coins
               PROVE  LET u == [Idle EXCEPT !.at = a, !.leg = l, !.done = d]
                      IN  u \in Tasks /\ u.at = a /\ u.leg = l /\ u.tries = 0 /\ u.done = d
    OBVIOUS
  <2>1. l \in {0} \cup Coins
    OBVIOUS
  <2> QED
    BY <1>1, <2>1, IdleIs DEF Tasks
<1>4. CASE c = 1
  <2>1. task' = [Idle EXCEPT !.at = "place", !.leg = 2, !.done = d] /\ trade' = trade
    BY <1>0, <1>4 DEF Leg
  <2>2. d \subseteq {1}
    BY <1>0, <1>1, <1>4
  <2>3. task' \in Tasks /\ task'.at = "place" /\ task'.leg = 2 /\ task'.tries = 0 /\ task'.done = d
    BY <1>2, <1>3, <2>1 DEF Coins
  <2> QED
    BY <1>0, <1>4, <2>1, <2>2, <2>3
<1>5. CASE c # 1 /\ d = Coins
  <2>1. task' = Idle /\ trade' = Recorded
    BY <1>0, <1>5 DEF Leg
  <2> QED
    BY <1>0, <1>5, <2>1, IdleIs DEF Coins
<1>6. CASE c # 1 /\ d = {}
  <2>1. d # Coins
    BY <1>6 DEF Coins
  <2>2. task' = [Idle EXCEPT !.at = "market", !.leg = 1, !.done = d] /\ trade' = trade
    BY <1>0, <1>6, <2>1 DEF Leg
  <2>3. task' \in Tasks /\ task'.at = "market" /\ task'.leg = 1 /\ task'.done = d
    BY <1>2, <1>3, <2>2 DEF Coins
  <2>4. c = 2
    BY <1>6 DEF Coins
  <2> QED
    BY <1>0, <1>6, <2>2, <2>3, <2>4
<1>7. CASE c # 1 /\ d # {} /\ d # Coins
  <2>1. /\ \E x \in Coins \ d : task' = [Idle EXCEPT !.at = "hedge", !.leg = x, !.done = d]
        /\ trade' = trade
    BY <1>0, <1>7 DEF Leg
  <2>2. PICK x \in Coins \ d : task' = [Idle EXCEPT !.at = "hedge", !.leg = x, !.done = d]
    BY <2>1
  <2>3. d = Coins \ {x}
    BY <1>1, <1>7, <2>2 DEF Coins
  <2>4. task' \in Tasks /\ task'.at = "hedge" /\ task'.leg = x /\ task'.done = d
    BY <1>2, <1>3, <2>2
  <2>5. c = 2 /\ x \in Coins
    BY <1>7, <2>2 DEF Coins
  <2> QED
    BY <1>0, <2>1, <2>3, <2>4, <2>5
<1> QED
  BY <1>4, <1>5, <1>6, <1>7

\* A leg leaves the trade a trade, and the loop where it may be.
LEMMA LegKeeps ==
    ASSUME PairTypeOK, LoopInv, task.at \in {"place", "wait", "urgent"}, NEW c \in Coins,
           task.leg = c, NEW f \in BOOLEAN, Leg(c, f), UNCHANGED <<plan, observe, saved>>
    PROVE  /\ task' \in Tasks /\ trade' \in Trades /\ (MaxUnits > 0 => trade'.count <= MaxUnits)
           /\ LoopInv'
<1> DEFINE d == LegDone(c, f)
<1>1. task' \in Tasks /\ \/ /\ task'.at = "place" /\ task'.leg = 2
                            /\ task'.done = d /\ d \subseteq {1} /\ trade' = trade
                         \/ task'.at = "idle" /\ task'.done = {} /\ trade' = Recorded
                         \/ /\ task'.at = "market" /\ task'.leg = 1 /\ task'.done = {}
                            /\ trade' = trade
                         \/ /\ task'.at = "hedge" /\ task'.leg \in Coins /\ task'.done = d
                            /\ d = Coins \ {task'.leg} /\ trade' = trade
  BY LegLeads
<1> HIDE DEF d
<1>2. plan # "market" /\ task.at \in InEntry
  BY DEF LoopInv, InEntry
<1>3. /\ Recorded \in Trades /\ Recorded.count > 0 /\ Recorded.dir # 0
      /\ MaxUnits > 0 => Recorded.count <= MaxUnits
  BY <1>2, RecordedTypes
<1>4. trade' \in Trades /\ (MaxUnits > 0 => trade'.count <= MaxUnits)
  BY <1>1, <1>3 DEF PairTypeOK
<1>5. ASSUME task'.at = "idle" /\ task'.done = {} /\ trade' = Recorded PROVE LoopInv'
  BY <1>2, <1>3, <1>5 DEF LoopInv, Legged, InEntry
<1>6. ASSUME task'.at = "place", task'.leg = 2, task'.done = d, d \subseteq {1}, trade' = trade
      PROVE  LoopInv'
  BY <1>2, <1>6 DEF LoopInv, Legged, InEntry, Coins
<1>7. ASSUME task'.at = "market", task'.leg = 1, task'.done = {}, trade' = trade
      PROVE  LoopInv'
  BY <1>2, <1>7 DEF LoopInv, Legged, InEntry, Coins
<1>8. ASSUME task'.at = "hedge", task'.leg \in Coins, task'.done = d, d = Coins \ {task'.leg},
             trade' = trade
      PROVE  LoopInv'
  BY <1>2, <1>8 DEF LoopInv, Legged, InEntry, Coins
<1> QED
  BY <1>1, <1>4, <1>5, <1>6, <1>7, <1>8

\* A leg that leaves no order of its own leaves the pair in order: either an exit of coin 2
\* still rests, or the venue holds what the legs say.
LEMMA LegBooks ==
    ASSUME PairTypeOK, LoopInv, PairTypeOK', task.at \in {"place", "wait", "urgent"},
           NEW c \in Coins, task.leg = c, NEW f \in BOOLEAN, Leg(c, f), ~Resting(c)',
           \/ c = 1 /\ Resting(2)'
           \/ /\ ~Resting(3 - c)'
              /\ \A x \in Coins : pos'[x] = IF x \in LegDone(c, f) THEN Entries(trade, x) + Side(x)
                                            ELSE Entries(trade, x)
    PROVE  Books'
<1> DEFINE d == LegDone(c, f)
<1>1. \/ /\ c = 1 /\ task'.at = "place" /\ task'.leg = 2 /\ task'.tries = 0
         /\ task'.done = d /\ d \subseteq {1} /\ trade' = trade
      \/ /\ c = 2 /\ task'.at = "idle" /\ task'.done = {} /\ d = Coins /\ trade' = Recorded
      \/ /\ c = 2 /\ task'.at = "market" /\ task'.leg = 1 /\ task'.done = {} /\ d = {}
         /\ trade' = trade
      \/ /\ c = 2 /\ task'.at = "hedge" /\ task'.leg \in Coins /\ task'.done = d
         /\ d = Coins \ {task'.leg} /\ trade' = trade
  BY LegLeads
<1>0. \/ c = 1 /\ Resting(2)'
      \/ /\ ~Resting(3 - c)'
         /\ \A x \in Coins : pos'[x] = IF x \in d THEN Entries(trade, x) + Side(x)
                                       ELSE Entries(trade, x)
  OBVIOUS
<1> HIDE DEF d
<1>2. c = 2 => ~Resting(1)' /\ ~Resting(2)' /\ ~AnyResting'
  BY <1>0 DEF AnyResting, Coins
<1>3. trade' = trade => \A x \in Coins : Side(x)' = Side(x) /\ Entries(trade, x)' = Entries(trade, x)
  BY DEF Side, Entries
<1>4. CASE /\ c = 1 /\ task'.at = "place" /\ task'.leg = 2 /\ task'.tries = 0
           /\ task'.done = d /\ d \subseteq {1} /\ trade' = trade
  <2>1. ~AnyResting' => Standing'
    <3>1. SUFFICES ASSUME ~AnyResting' PROVE Standing'
      OBVIOUS
    <3>2. \A x \in Coins : pos'[x] = IF x \in d THEN Entries(trade, x) + Side(x)
                                     ELSE Entries(trade, x)
      BY <1>0, <3>1 DEF AnyResting, Coins
    <3> QED
      BY <1>3, <1>4, <3>2 DEF Standing, Even, Ahead
  <2>2. ~Resting(1)'
    BY <1>4
  <2> QED
    BY <1>4, <2>1, <2>2 DEF Books, CycleInv, LimitInv, ObserveInv
<1>5. CASE c = 2 /\ task'.at = "idle" /\ task'.done = {} /\ d = Coins /\ trade' = Recorded
  <2>1. \A x \in Coins : Entries(Recorded, x) = Entries(trade, x) + Side(x)
    BY RecordedTypes DEF InEntry
  <2>2. \A x \in Coins : pos'[x] = Entries(trade, x) + Side(x)
    BY <1>0, <1>5 DEF Coins
  <2>3. \A x \in Coins : Even(x)'
    BY <1>5, <2>1, <2>2 DEF Even
  <2> QED
    BY <1>2, <1>5, <2>3, Squared
<1>6. CASE /\ c = 2 /\ task'.at = "market" /\ task'.leg = 1 /\ task'.done = {} /\ d = {}
           /\ trade' = trade
  <2>1. \A x \in Coins : pos'[x] = Entries(trade, x)
    BY <1>0, <1>6
  <2>2. \A x \in Coins : Even(x)'
    BY <1>3, <1>6, <2>1 DEF Even
  <2>3. \A x \in Coins : Covered(x)'
    BY <1>2, <1>6, <2>2, EvenIsCovered
  <2> QED
    BY <1>2, <1>6, <2>2, <2>3 DEF Books, CycleInv, LimitInv, ObserveInv, Coins
<1>7. CASE /\ c = 2 /\ task'.at = "hedge" /\ task'.leg \in Coins /\ task'.done = d
           /\ d = Coins \ {task'.leg} /\ trade' = trade
  <2>1. \A x \in Coins : pos'[x] = IF x \in d THEN Entries(trade, x) + Side(x)
                                   ELSE Entries(trade, x)
    BY <1>0, <1>7
  <2>2. Standing'
    BY <1>3, <1>7, <2>1 DEF Standing, Even, Ahead
  <2> QED
    BY <1>2, <1>7, <2>2 DEF Books, CycleInv, LimitInv, ObserveInv
<1> QED
  BY <1>1, <1>4, <1>5, <1>6, <1>7

\* An order placed where nothing rests, or where it has been cancelled, is the leg's own.
LEMMA RestedIs ==
    ASSUME PairTypeOK, NEW c \in Coins, Side(c) \in {-1, 1}, NEW b \in BOOLEAN
    PROVE  /\ Rested(b, c) \in [{-1, 1} -> Nat] /\ Rested(b, c) # Empty
           /\ b \/ ~Resting(c) => Rested(b, c) = Ordered(c)
<1>1. Empty \in [{-1, 1} -> Nat] /\ \A s \in {-1, 1} : Empty[s] = 0
  BY DEF Empty
<1>2. rest[c] \in [{-1, 1} -> Nat]
  BY DEF PairTypeOK
<1> DEFINE base == IF b THEN Empty ELSE rest[c]
<1>3. base \in [{-1, 1} -> Nat] /\ (b \/ ~Resting(c) => base = Empty)
  BY <1>1, <1>2 DEF Resting
<1>4. Rested(b, c) = [base EXCEPT ![Side(c)] = @ + 1]
  BY DEF Rested
<1> HIDE DEF base
<1>5. Rested(b, c) \in [{-1, 1} -> Nat] /\ Rested(b, c)[Side(c)] = base[Side(c)] + 1
  BY <1>3, <1>4
<1>6. Rested(b, c) # Empty
  BY <1>1, <1>3, <1>5
<1>7. base = Empty => Rested(b, c) = Ordered(c)
  <2>1. ASSUME base = Empty PROVE base[Side(c)] + 1 = 1
    BY <1>1, <2>1
  <2> QED
    BY <1>4, <2>1 DEF Ordered
<1> QED
  BY <1>3, <1>5, <1>6, <1>7

\* The loop stays at a leg: its bookkeeping is as it was.
LEMMA LegStays ==
    ASSUME LoopInv, task.at \in {"place", "wait", "urgent"}, task'.at \in {"place", "wait", "urgent"},
           task'.leg = task.leg, task'.done = task.done, task'.at = "wait" => task'.tries < MaxRetries,
           UNCHANGED <<plan, trade, observe, saved>>
    PROVE  LoopInv'
<1>1. plan # "market" /\ task.leg \in Coins
  BY DEF LoopInv, Legged
<1> QED
  BY <1>1 DEF LoopInv, Legged, InEntry

\* The books of a leg under way, before and after its order.
LEMMA PlaceBooks ==
    ASSUME task'.at = "place", task'.tries > 0,
           NEW c \in Coins, task'.leg = c,
           \/ c = 1 /\ Resting(2)'
           \/ ~Resting(3 - c)' /\ Standing' /\ rest'[c] \in {Empty, Ordered(c)'}
    PROVE  Books'
BY DEF Books, CycleInv, LimitInv, ObserveInv

\* The books of a leg that waits for its order.
LEMMA WaitBooks ==
    ASSUME task'.at = "wait", NEW c \in Coins, task'.leg = c,
           \/ c = 1 /\ Resting(2)'
           \/ /\ ~Resting(3 - c)'
              /\ IF 3 - c \in task'.done THEN Ahead(3 - c)' ELSE Even(3 - c)'
              /\ \/ rest'[c] = Ordered(c)' /\ Even(c)'
                 \/ rest'[c] = Empty /\ Even(c)' /\ pos'[c] = 0
    PROVE  Books'
BY DEF Books, CycleInv, LimitInv, ObserveInv

\* What a leg that is about to place knows.
LEMMA AtPlaceIs ==
    ASSUME PairTypeOK, LoopInv, LimitInv, NEW c \in Coins, task.at = "place", task.leg = c
    PROVE  /\ c \notin task.done /\ 3 - c \in Coins
           /\ \/ c = 1 /\ Resting(2)
              \/ /\ ~Resting(3 - c)
                 /\ task.tries > 0 => rest[c] \in {Empty, Ordered(c)}
                 /\ task.tries > 0 \/ ~Resting(c) =>
                      /\ Standing /\ Even(c)
                      /\ IF 3 - c \in task.done THEN Ahead(3 - c) ELSE Even(3 - c)
<1>1. c \notin task.done /\ 3 - c \in Coins /\ c \in {1, 2} /\ task.tries \in Nat
  BY Numbers DEF LoopInv, Coins, PairTypeOK, Tasks
<1>2. CASE c = 1 /\ Resting(2)
  BY <1>1, <1>2
<1>3. CASE ~(c = 1 /\ Resting(2)) /\ task.tries > 0
  <2>1. ~Resting(3 - c) /\ Standing /\ rest[c] \in {Empty, Ordered(c)}
    BY <1>3 DEF LimitInv
  <2> QED
    BY <1>1, <1>3, <2>1 DEF Standing
<1>4. CASE ~(c = 1 /\ Resting(2)) /\ ~(task.tries > 0)
  <2>1. task.tries = 0
    BY <1>1, <1>4
  <2>2. ~Resting(3 - c)
    BY <1>1, <1>4, <2>1 DEF LimitInv
  <2>3. ~Resting(c) => ~AnyResting
    BY <1>1, <2>2 DEF AnyResting, Coins
  <2>4. ~Resting(c) => Standing
    BY <2>1, <2>3 DEF LimitInv
  <2> QED
    BY <1>1, <1>4, <2>2, <2>4 DEF Standing
<1> QED
  BY <1>2, <1>3, <1>4

\* An order is placed, or dropped.
LEMMA PlaceSteps ==
    ASSUME PairInv, NEW c \in Coins, Places(c)
    PROVE  PairInv'
<1>1. /\ PairTypeOK /\ LoopInv /\ task.at = "place" /\ task.leg = c /\ task.tries < MaxRetries
      /\ task.at \in InEntry /\ slipped \in BOOLEAN
  BY DEF PairInv, Places, AtPlace, InEntry, PairTypeOK
<1>2. UNCHANGED <<plan, pos, pnl, trade, observe, losses, breaker, cooling, saved, crashes>>
  BY DEF Places, brakeVars
<1>3. /\ task' \in Tasks /\ task'.at = "wait" /\ task'.leg = c /\ task'.tries < MaxRetries
      /\ task'.done = task.done
  <2>1. "wait" \in LoopStages /\ TRUE \in BOOLEAN
    BY DEF LoopStages
  <2>2. task' = [task EXCEPT !.at = "wait", !.priced = TRUE] /\ task \in Tasks
    BY <1>1 DEF Places, PairTypeOK
  <2> QED
    BY <1>1, <2>1, <2>2, TaskPriced
<1>4. PICK cancelled \in {task.tries > 0, FALSE} :
        /\ IF cancelled = (task.tries > 0) THEN UNCHANGED faults ELSE Raises
        /\ \/ /\ rest' = [rest EXCEPT ![c] = Rested(cancelled, c)]
              /\ slipped' = (slipped \/ (~cancelled /\ Resting(c)))
           \/ /\ rest' = IF cancelled THEN [rest EXCEPT ![c] = Empty] ELSE rest
              /\ slipped' = (slipped \/ (~cancelled /\ Resting(c)) \/ pos[c] # 0)
  BY Zenon DEF Places
<1>5. cancelled \in BOOLEAN
  <2>1. (task.tries > 0) \in BOOLEAN
    OBVIOUS
  <2>2. cancelled = (task.tries > 0) \/ cancelled = FALSE
    BY Zenon
  <2> QED
    BY <2>1, <2>2, Zenon
<1>6. Side(c) \in {-1, 1}
  BY <1>1, EntryIs
<1>7. faults' \in 0..MaxFaults
  BY <1>1, <1>4, RaisesTypes DEF PairTypeOK
<1>8. slipped' \in BOOLEAN
  BY <1>4 DEF Resting
<1>9. /\ Rested(cancelled, c) \in [{-1, 1} -> Nat]
      /\ cancelled \/ ~Resting(c) => Rested(cancelled, c) = Ordered(c)
  BY <1>1, <1>5, <1>6, RestedIs
<1>10. rest' \in [Coins -> [{-1, 1} -> Nat]] /\ \A x \in Coins \ {c} : rest'[x] = rest[x]
  <2>1. rest \in [Coins -> [{-1, 1} -> Nat]] /\ Empty \in [{-1, 1} -> Nat]
    BY <1>1 DEF PairTypeOK, Empty
  <2>2. CASE rest' = [rest EXCEPT ![c] = Rested(cancelled, c)]
    BY <1>9, <2>1, <2>2
  <2>3. CASE rest' = IF cancelled THEN [rest EXCEPT ![c] = Empty] ELSE rest
    BY <2>1, <2>3
  <2> QED
    BY <1>4, <2>2, <2>3
<1>11. PairTypeOK'
  BY <1>1, <1>2, <1>3, <1>7, <1>8, <1>10 DEF PairTypeOK
<1>12. LoopInv'
  BY <1>1, <1>2, <1>3, LegStays
<1>13. ASSUME ~slipped' PROVE Books'
  <2>1. ~slipped /\ (cancelled \/ ~Resting(c))
    BY <1>4, <1>5, <1>13
  <2>2. \/ rest' = [rest EXCEPT ![c] = Ordered(c)]
        \/ rest'[c] = Empty /\ pos[c] = 0
    <3>1. CASE rest' = [rest EXCEPT ![c] = Rested(cancelled, c)]
      BY <1>9, <2>1, <3>1
    <3>2. CASE /\ rest' = IF cancelled THEN [rest EXCEPT ![c] = Empty] ELSE rest
               /\ slipped' = (slipped \/ (~cancelled /\ Resting(c)) \/ pos[c] # 0)
      <4>1. pos[c] = 0
        BY <1>13, <3>2
      <4>2. rest'[c] = Empty
        BY <1>1, <2>1, <3>2 DEF PairTypeOK, Resting
      <4> QED
        BY <4>1, <4>2
    <3> QED
      BY <1>4, <3>1, <3>2
  <2>3. rest'[c] = Ordered(c) \/ (rest'[c] = Empty /\ pos'[c] = 0)
    BY <1>1, <1>2, <2>2 DEF PairTypeOK
  <2>4. LimitInv
    BY <2>1 DEF PairInv
  <2>5. /\ c \notin task.done /\ 3 - c \in Coins
        /\ \/ c = 1 /\ Resting(2)
           \/ /\ ~Resting(3 - c)
              /\ task.tries > 0 \/ ~Resting(c) =>
                      /\ Even(c)
                      /\ IF 3 - c \in task.done THEN Ahead(3 - c) ELSE Even(3 - c)
    BY <1>1, <2>4, AtPlaceIs
  <2>6. task.tries > 0 \/ ~Resting(c)
    BY <2>1, <1>4
  <2>7. 3 - c # c /\ rest'[3 - c] = rest[3 - c] /\ (c = 1 => 3 - c = 2)
    BY <1>10, <2>5 DEF Coins
  <2>8. /\ Resting(3 - c)' <=> Resting(3 - c)
        /\ Ordered(c)' = Ordered(c) /\ (Even(c)' <=> Even(c))
        /\ (Even(3 - c)' <=> Even(3 - c)) /\ (Ahead(3 - c)' <=> Ahead(3 - c))
    BY <1>2, <2>7 DEF Resting, Ordered, Even, Ahead, Side
  <2>9. CASE c = 1 /\ Resting(2)
    <3>1. Resting(2)'
      BY <2>7, <2>9 DEF Resting
    <3> QED
      BY <1>3, <2>9, <3>1, WaitBooks
  <2>10. CASE /\ ~Resting(3 - c) /\ Even(c)
              /\ IF 3 - c \in task.done THEN Ahead(3 - c) ELSE Even(3 - c)
    <3>1. IF 3 - c \in task'.done THEN Ahead(3 - c)' ELSE Even(3 - c)'
      BY <1>3, <2>8, <2>10
    <3>2. \/ rest'[c] = Ordered(c)' /\ Even(c)'
          \/ rest'[c] = Empty /\ Even(c)' /\ pos'[c] = 0
      BY <2>3, <2>8, <2>10
    <3>3. ~Resting(3 - c)'
      BY <2>8, <2>10
    <3> QED
      BY <1>3, <3>1, <3>2, <3>3, WaitBooks
  <2> QED
    BY <2>5, <2>6, <2>9, <2>10
<1> QED
  BY <1>11, <1>12, <1>13 DEF PairInv, Books

\* A post-only order is refused.
LEMMA RefusedSteps ==
    ASSUME PairInv, NEW c \in Coins, Refused(c)
    PROVE  PairInv'
<1>1. /\ PairTypeOK /\ LoopInv /\ task.at = "place" /\ task.leg = c /\ task.tries < MaxRetries
      /\ task \in Tasks /\ task.tries \in Nat /\ slipped \in BOOLEAN
  BY Numbers DEF PairInv, Refused, AtPlace, PairTypeOK, Tasks
<1>2. UNCHANGED <<plan, pos, pnl, trade, observe, losses, breaker, cooling, saved, faults, crashes>>
  BY DEF Refused, brakeVars, boundVars
<1>3. /\ task' \in Tasks /\ task'.at = "place" /\ task'.leg = c /\ task'.tries > 0
      /\ task'.done = task.done
  BY <1>1, TaskTries DEF Refused, NextTry
<1>4. /\ rest' = IF task.tries > 0 THEN [rest EXCEPT ![c] = Empty] ELSE rest
      /\ slipped' = (slipped \/ (task.tries = 0 /\ Resting(c)))
  BY DEF Refused
<1>5. rest' \in [Coins -> [{-1, 1} -> Nat]] /\ \A x \in Coins \ {c} : rest'[x] = rest[x]
  <2>1. rest \in [Coins -> [{-1, 1} -> Nat]] /\ Empty \in [{-1, 1} -> Nat]
    BY <1>1 DEF PairTypeOK, Empty
  <2> QED
    BY <1>4, <2>1
<1>6. slipped' \in BOOLEAN
  BY <1>4 DEF Resting
<1>7. PairTypeOK'
  BY <1>1, <1>2, <1>3, <1>5, <1>6 DEF PairTypeOK
<1>8. LoopInv'
  BY <1>1, <1>2, <1>3, LegStays
<1>9. ASSUME ~slipped' PROVE Books'
  <2>1. ~slipped /\ (task.tries > 0 \/ ~Resting(c))
    <3>1. ~slipped /\ ~(task.tries = 0 /\ Resting(c))
      BY <1>4, <1>9, Zenon
    <3>2. task.tries = 0 \/ task.tries > 0
      BY <1>1
    <3> QED
      BY <3>1, <3>2
  <2>2. rest'[c] = Empty
    <3>1. CASE task.tries > 0
      BY <1>1, <1>4, <3>1 DEF PairTypeOK
    <3>2. CASE ~(task.tries > 0)
      BY <1>4, <2>1, <3>2 DEF Resting
    <3> QED
      BY <3>1, <3>2
  <2>3. LimitInv
    BY <2>1 DEF PairInv
  <2>4. /\ 3 - c \in Coins
        /\ \/ c = 1 /\ Resting(2)
           \/ /\ ~Resting(3 - c)
              /\ task.tries > 0 \/ ~Resting(c) => Standing
    BY <1>1, <2>3, AtPlaceIs
  <2>5. 3 - c # c /\ rest'[3 - c] = rest[3 - c] /\ (c = 1 => 3 - c = 2)
    BY <1>5, <2>4 DEF Coins
  <2>6. (Resting(3 - c)' <=> Resting(3 - c)) /\ (Standing' <=> Standing)
    BY <1>2, <1>3, <2>5 DEF Resting, Standing, Even, Ahead, Side
  <2>7. CASE c = 1 /\ Resting(2)
    <3>1. Resting(2)'
      BY <2>5, <2>7 DEF Resting
    <3> QED
      BY <1>3, <2>7, <3>1, PlaceBooks
  <2>8. CASE ~Resting(3 - c) /\ Standing
    <3>1. ~Resting(3 - c)' /\ Standing'
      BY <2>6, <2>8
    <3>2. rest'[c] \in {Empty, Ordered(c)'}
      BY <2>2
    <3> QED
      BY <1>3, <3>1, <3>2, PlaceBooks
  <2> QED
    BY <2>1, <2>4, <2>7, <2>8
<1> QED
  BY <1>7, <1>8, <1>9 DEF PairInv, Books

\* The order of the attempt before is kept, if there is one.
LEMMA KeepSteps ==
    ASSUME PairInv, NEW c \in Coins, Keeps(c)
    PROVE  PairInv'
<1>1. /\ PairTypeOK /\ LoopInv /\ task.at = "place" /\ task.leg = c /\ task.tries < MaxRetries
      /\ task.tries > 0 /\ task \in Tasks /\ slipped \in BOOLEAN
  BY DEF PairInv, Keeps, AtPlace, PairTypeOK
<1>2. UNCHANGED <<plan, pos, rest, pnl, trade, observe, losses, breaker, cooling, saved, faults, crashes>>
  BY DEF Keeps, brakeVars, boundVars, venueVars
<1>3. /\ task' \in Tasks /\ task'.at = "wait" /\ task'.leg = c /\ task'.tries < MaxRetries
      /\ task'.done = task.done
  <2>1. "wait" \in LoopStages
    BY DEF LoopStages
  <2> QED
    BY <1>1, <2>1, TaskAt DEF Keeps
<1>4. slipped' = (slipped \/ (~Resting(c) /\ pos[c] # 0))
  BY DEF Keeps
<1>5. slipped' \in BOOLEAN
  BY <1>4 DEF Resting
<1>6. PairTypeOK'
  BY <1>1, <1>2, <1>3, <1>5 DEF PairTypeOK
<1>7. LoopInv'
  BY <1>1, <1>2, <1>3, LegStays
<1>8. ASSUME ~slipped' PROVE Books'
  <2>1. ~slipped /\ (Resting(c) \/ pos[c] = 0)
    BY <1>4, <1>8
  <2>2. LimitInv
    BY <2>1 DEF PairInv
  <2>3. \/ c = 1 /\ Resting(2)
        \/ /\ ~Resting(3 - c) /\ rest[c] \in {Empty, Ordered(c)} /\ Even(c)
           /\ IF 3 - c \in task.done THEN Ahead(3 - c) ELSE Even(3 - c)
    BY <1>1, <2>2, AtPlaceIs
  <2>4. /\ Resting(3 - c)' <=> Resting(3 - c)
        /\ Resting(2)' <=> Resting(2)
        /\ Ordered(c)' = Ordered(c) /\ (Even(c)' <=> Even(c))
        /\ (Even(3 - c)' <=> Even(3 - c)) /\ (Ahead(3 - c)' <=> Ahead(3 - c))
    BY <1>2 DEF Resting, Ordered, Even, Ahead, Side
  <2>5. CASE c = 1 /\ Resting(2)
    BY <1>3, <2>4, <2>5, WaitBooks
  <2>6. CASE /\ ~Resting(3 - c) /\ rest[c] \in {Empty, Ordered(c)} /\ Even(c)
             /\ IF 3 - c \in task.done THEN Ahead(3 - c) ELSE Even(3 - c)
    <3>1. IF 3 - c \in task'.done THEN Ahead(3 - c)' ELSE Even(3 - c)'
      BY <1>3, <2>4, <2>6
    <3>2. \/ rest'[c] = Ordered(c)' /\ Even(c)'
          \/ rest'[c] = Empty /\ Even(c)' /\ pos'[c] = 0
      BY <1>2, <2>1, <2>4, <2>6 DEF Resting
    <3>3. ~Resting(3 - c)'
      BY <2>4, <2>6
    <3> QED
      BY <1>3, <3>1, <3>2, <3>3, WaitBooks
  <2> QED
    BY <2>3, <2>5, <2>6
<1> QED
  BY <1>6, <1>7, <1>8 DEF PairInv, Books

\* The loop gives a coin up, with what rests of it.
LEMMA GivesUpSteps ==
    ASSUME PairInv, NEW c \in Coins, GivesUp(c)
    PROVE  PairInv'
<1>1. /\ PairTypeOK /\ LoopInv /\ task.at = "place" /\ task.leg = c
      /\ task.at \in InEntry /\ slipped \in BOOLEAN
  BY DEF PairInv, GivesUp, AtPlace, InEntry, PairTypeOK
<1>2. /\ UNCHANGED <<plan, pos, pnl, observe, losses, breaker, cooling, saved, crashes>>
      /\ Raises /\ Leg(c, FALSE)
  BY DEF GivesUp, brakeVars
<1>3. PICK r \in {rest[c], Rested(FALSE, c)} : /\ rest' = [rest EXCEPT ![c] = r]
                                               /\ slipped' = (slipped \/ r # Empty)
  BY DEF GivesUp
<1>4. Side(c) \in {-1, 1}
  BY <1>1, EntryIs
<1>5. rest[c] \in [{-1, 1} -> Nat] /\ Rested(FALSE, c) \in [{-1, 1} -> Nat] /\ Rested(FALSE, c) # Empty
  BY <1>1, <1>4, RestedIs DEF PairTypeOK
<1>6. rest' \in [Coins -> [{-1, 1} -> Nat]] /\ slipped' \in BOOLEAN /\ faults' \in 0..MaxFaults
  <2>1. rest' \in [Coins -> [{-1, 1} -> Nat]]
    BY <1>1, <1>3, <1>5 DEF PairTypeOK
  <2>2. slipped' \in BOOLEAN
    BY <1>3
  <2> QED
    BY <1>1, <1>2, <2>1, <2>2, RaisesTypes
<1>7. /\ task' \in Tasks /\ trade' \in Trades /\ (MaxUnits > 0 => trade'.count <= MaxUnits)
      /\ LoopInv'
  BY <1>1, <1>2, LegKeeps
<1>8. PairTypeOK'
  BY <1>1, <1>2, <1>6, <1>7 DEF PairTypeOK
<1>9. ASSUME ~slipped' PROVE Books'
  <2>1. ~slipped /\ r = Empty
    BY <1>3, <1>9
  <2>2. rest[c] = Empty /\ rest' = rest
    <3>1. rest[c] = Empty
      BY <1>3, <1>5, <2>1
    <3> QED
      BY <1>1, <1>3, <2>1, <3>1 DEF PairTypeOK
  <2>3. LimitInv
    BY <2>1 DEF PairInv
  <2>4. /\ c \notin task.done
        /\ \/ c = 1 /\ Resting(2)
           \/ ~Resting(3 - c) /\ Standing
    BY <1>1, <2>2, <2>3, AtPlaceIs DEF Resting
  <2>5. LegDone(c, FALSE) = task.done
    BY DEF LegDone
  <2>6. \/ c = 1 /\ Resting(2)'
        \/ /\ ~Resting(3 - c)'
           /\ \A x \in Coins : pos'[x] = IF x \in LegDone(c, FALSE) THEN Entries(trade, x) + Side(x)
                                         ELSE Entries(trade, x)
    BY <1>2, <2>2, <2>4, <2>5 DEF Resting, Standing, Even, Ahead
  <2>7. ~Resting(c)'
    BY <2>2 DEF Resting
  <2> QED
    BY <1>1, <1>2, <1>8, <2>6, <2>7, LegBooks
<1> QED
  BY <1>7, <1>8, <1>9 DEF PairInv, Books

\* The loop looks at what it has placed.
LEMMA LookSteps ==
    ASSUME PairInv, NEW c \in Coins, Looks(c)
    PROVE  PairInv'
<1>1. /\ PairTypeOK /\ LoopInv /\ task.at = "wait" /\ task.leg = c /\ task.tries < MaxRetries
      /\ task.at \in InEntry /\ task \in Tasks /\ task.tries \in Nat /\ 3 - c \in Coins
      /\ c \notin task.done
  BY Numbers DEF PairInv, Looks, InEntry, PairTypeOK, LoopInv, Tasks, Coins
<1>2. UNCHANGED <<plan, pos, rest, pnl, observe, losses, breaker, cooling, saved, slipped, faults, crashes>>
  BY DEF Looks, venueVars, brakeVars, boundVars
<1>3. ASSUME ~slipped
      PROVE  \/ c = 1 /\ Resting(2)
             \/ /\ ~Resting(3 - c)
                /\ IF 3 - c \in task.done THEN Ahead(3 - c) ELSE Even(3 - c)
                /\ \/ rest[c] = Ordered(c) /\ Even(c)
                   \/ rest[c] = Empty /\ Ahead(c)
                   \/ rest[c] = Empty /\ Even(c) /\ pos[c] = 0
  BY <1>1, <1>3 DEF PairInv, LimitInv
<1>4. /\ Side(c) \in {-1, 1} /\ Ordered(c) # Empty /\ trade \in Trades
      /\ \A x \in Coins : pos[x] \in Int /\ Entries(trade, x) \in Int /\ Side(x) \in {-1, 1}
  BY <1>1, EntryIs, OrderedIs
<1>5. CASE ~Resting(c) /\ pos[c] # 0
  <2>1. Leg(c, TRUE)
    BY <1>5 DEF Looks
  <2>2. /\ task' \in Tasks /\ trade' \in Trades /\ (MaxUnits > 0 => trade'.count <= MaxUnits)
        /\ LoopInv'
    BY <1>1, <1>2, <2>1, LegKeeps
  <2>3. PairTypeOK'
    BY <1>1, <1>2, <2>2 DEF PairTypeOK
  <2>4. ASSUME ~slipped' PROVE Books'
    <3>1. LegDone(c, TRUE) = task.done \cup {c}
      BY DEF LegDone
    <3>2. \/ c = 1 /\ Resting(2)
          \/ /\ ~Resting(3 - c) /\ Ahead(c)
             /\ IF 3 - c \in task.done THEN Ahead(3 - c) ELSE Even(3 - c)
      BY <1>2, <1>3, <1>4, <1>5, <2>4 DEF Resting
    <3>3. ASSUME Ahead(c), IF 3 - c \in task.done THEN Ahead(3 - c) ELSE Even(3 - c), NEW x \in Coins
          PROVE  pos[x] = IF x \in LegDone(c, TRUE) THEN Entries(trade, x) + Side(x)
                          ELSE Entries(trade, x)
      <4>1. CASE x = c
        BY <3>1, <3>3, <4>1 DEF Ahead
      <4>2. CASE x = 3 - c
        <5>1. x # c
          BY <4>2 DEF Coins
        <5> QED
          BY <3>1, <3>3, <4>2, <5>1 DEF Ahead, Even
      <4>3. x = c \/ x = 3 - c
        BY DEF Coins
      <4> QED
        BY <4>1, <4>2, <4>3
    <3>4. \/ c = 1 /\ Resting(2)'
          \/ /\ ~Resting(3 - c)'
             /\ \A x \in Coins : pos'[x] = IF x \in LegDone(c, TRUE) THEN Entries(trade, x) + Side(x)
                                           ELSE Entries(trade, x)
      BY <1>2, <3>2, <3>3 DEF Resting
    <3>5. ~Resting(c)'
      BY <1>2, <1>5 DEF Resting
    <3> QED
      BY <1>1, <2>1, <2>3, <3>4, <3>5, LegBooks
  <2> QED
    BY <2>2, <2>3, <2>4 DEF PairInv, Books
<1>6. CASE ~(~Resting(c) /\ pos[c] # 0)
  <2>1. task' = [task EXCEPT !.at = "place", !.tries = @ + 1, !.priced = Resting(c)] /\ trade' = trade
    BY <1>6 DEF Looks
  <2>2. "place" \in LoopStages /\ Resting(c) \in BOOLEAN
    BY DEF LoopStages, Resting
  <2>3. /\ task' \in Tasks /\ task'.at = "place" /\ task'.leg = c /\ task'.tries > 0
        /\ task'.done = task.done
    <3> DEFINE p == Resting(c)
    <3>1. p \in BOOLEAN /\ task' = [task EXCEPT !.at = "place", !.tries = @ + 1, !.priced = p]
      BY <2>1, <2>2
    <3> HIDE DEF p
    <3>2. /\ task' \in Tasks /\ task'.at = "place" /\ task'.leg = task.leg
          /\ task'.tries = task.tries + 1 /\ task'.done = task.done
      <4>1. task.tries \in 0..MaxRetries /\ task.tries + 1 \in 0..MaxRetries
        BY <1>1, Numbers DEF Tasks
      <4> QED
        BY <1>1, <2>2, <3>1, <4>1 DEF Tasks
    <3> QED
      BY <1>1, <3>2
  <2>4. PairTypeOK'
    BY <1>1, <1>2, <2>1, <2>3 DEF PairTypeOK
  <2>5. LoopInv'
    BY <1>1, <1>2, <2>1, <2>3, LegStays
  <2>6. ASSUME ~slipped' PROVE Books'
    <3>1. \/ c = 1 /\ Resting(2)
          \/ /\ ~Resting(3 - c) /\ Even(c) /\ rest[c] \in {Empty, Ordered(c)}
             /\ IF 3 - c \in task.done THEN Ahead(3 - c) ELSE Even(3 - c)
      <4>1. ASSUME rest[c] = Empty, Ahead(c) PROVE FALSE
        <5>1. pos[c] = 0
          BY <1>6, <4>1 DEF Resting
        <5>2. trade.count \in Nat /\ Entries(trade, c) = trade.count * Side(c)
          BY <1>4, Numbers DEF Trades, Entries, Side
        <5>3. CASE Side(c) = 1
          BY <4>1, <5>1, <5>2, <5>3 DEF Ahead
        <5>4. CASE Side(c) = -1
          BY <4>1, <5>1, <5>2, <5>4 DEF Ahead
        <5> QED
          BY <1>4, <5>3, <5>4
      <4> QED
        BY <1>2, <1>3, <2>6, <4>1
    <3>2. ASSUME Even(c), IF 3 - c \in task.done THEN Ahead(3 - c) ELSE Even(3 - c)
          PROVE  Standing
      <4> SUFFICES ASSUME NEW x \in Coins PROVE IF x \in task.done THEN Ahead(x) ELSE Even(x)
        BY DEF Standing
      <4>1. x = c \/ x = 3 - c
        BY DEF Coins
      <4> QED
        BY <1>1, <3>2, <4>1
    <3>3. /\ Resting(3 - c)' <=> Resting(3 - c)
          /\ Resting(2)' <=> Resting(2)
          /\ Ordered(c)' = Ordered(c) /\ (Standing' <=> Standing)
      BY <1>2, <2>1, <2>3 DEF Resting, Ordered, Standing, Even, Ahead, Side
    <3>4. CASE c = 1 /\ Resting(2)
      BY <2>3, <3>3, <3>4, PlaceBooks
    <3>5. CASE /\ ~Resting(3 - c) /\ Even(c) /\ rest[c] \in {Empty, Ordered(c)}
               /\ IF 3 - c \in task.done THEN Ahead(3 - c) ELSE Even(3 - c)
      <4>1. ~Resting(3 - c)' /\ Standing'
        BY <3>2, <3>3, <3>5
      <4>2. rest'[c] \in {Empty, Ordered(c)'}
        BY <1>2, <3>3, <3>5
      <4> QED
        BY <2>3, <4>1, <4>2, PlaceBooks
    <3> QED
      BY <3>1, <3>4, <3>5
  <2> QED
    BY <2>4, <2>5, <2>6 DEF PairInv, Books
<1> QED
  BY <1>5, <1>6

\* The attempts are over: what rests is cancelled.
LEMMA TireSteps ==
    ASSUME PairInv, NEW c \in Coins, Tires(c)
    PROVE  PairInv'
<1>1. /\ PairTypeOK /\ LoopInv /\ task.at = "place" /\ task.leg = c /\ task.tries > 0
      /\ task \in Tasks /\ slipped \in BOOLEAN
  BY DEF PairInv, Tires, PairTypeOK
<1>2. UNCHANGED <<plan, pos, pnl, trade, observe, losses, breaker, cooling, saved, crashes>>
  BY DEF Tires, brakeVars
<1>3. /\ task' \in Tasks /\ task'.at = "urgent" /\ task'.leg = c /\ task'.done = task.done
  <2>1. "urgent" \in LoopStages
    BY DEF LoopStages
  <2> QED
    BY <1>1, <2>1, TaskAt DEF Tires
<1>4. \/ rest' = [rest EXCEPT ![c] = Empty] /\ UNCHANGED <<faults, slipped>>
      \/ Raises /\ slipped' = (slipped \/ Resting(c)) /\ rest' = rest
  BY DEF Tires
<1>5. /\ rest' \in [Coins -> [{-1, 1} -> Nat]] /\ \A x \in Coins \ {c} : rest'[x] = rest[x]
      /\ faults' \in 0..MaxFaults
  <2>1. rest \in [Coins -> [{-1, 1} -> Nat]] /\ Empty \in [{-1, 1} -> Nat] /\ faults \in 0..MaxFaults
    BY <1>1 DEF PairTypeOK, Empty
  <2> QED
    BY <1>1, <1>4, <2>1, RaisesTypes
<1>6. slipped' \in BOOLEAN /\ (~slipped' => ~slipped /\ rest'[c] = Empty)
  <2>1. CASE rest' = [rest EXCEPT ![c] = Empty] /\ UNCHANGED <<faults, slipped>>
    BY <1>1, <2>1 DEF PairTypeOK
  <2>2. CASE Raises /\ slipped' = (slipped \/ Resting(c)) /\ rest' = rest
    BY <1>1, <2>2 DEF Resting
  <2> QED
    BY <1>4, <2>1, <2>2
<1>7. PairTypeOK'
  BY <1>1, <1>2, <1>3, <1>5, <1>6 DEF PairTypeOK
<1>8. LoopInv'
  BY <1>1, <1>2, <1>3, LegStays
<1>9. ASSUME ~slipped' PROVE Books'
  <2>1. ~slipped /\ rest'[c] = Empty
    BY <1>6, <1>9
  <2>2. LimitInv
    BY <2>1 DEF PairInv
  <2>3. /\ 3 - c \in Coins
        /\ \/ c = 1 /\ Resting(2)
           \/ ~Resting(3 - c) /\ Standing
    BY <1>1, <2>2, AtPlaceIs
  <2>4. 3 - c # c /\ rest'[3 - c] = rest[3 - c] /\ (c = 1 => 3 - c = 2)
    BY <1>5, <2>3 DEF Coins
  <2>5. (Resting(3 - c)' <=> Resting(3 - c)) /\ (Standing' <=> Standing)
    BY <1>2, <1>3, <2>4 DEF Resting, Standing, Even, Ahead, Side
  <2>6. (c = 1 /\ Resting(2)') \/ (~Resting(3 - c)' /\ Standing')
    BY <2>3, <2>4, <2>5
  <2> QED
    BY <1>3, <2>1, <2>6 DEF Books, CycleInv, LimitInv, ObserveInv
<1> QED
  BY <1>7, <1>8, <1>9 DEF PairInv, Books

\* _emergency_market_fill comes back, or raises.
LEMMA HurrySteps ==
    ASSUME PairInv, NEW c \in Coins, Hurries(c)
    PROVE  PairInv'
<1>1. /\ PairTypeOK /\ LoopInv /\ task.at = "urgent" /\ task.leg = c
      /\ c \notin task.done /\ slipped \in BOOLEAN /\ 3 - c \in Coins
  BY DEF PairInv, Hurries, LoopInv, PairTypeOK, Coins
<1>2. UNCHANGED <<plan, rest, pnl, observe, losses, breaker, cooling, saved, crashes>>
  BY DEF Hurries, brakeVars
<1>3. /\ Bought(c) \in [Coins -> Int]
      /\ \A x \in Coins : Bought(c)[x] = IF x = c THEN pos[x] + Side(c) ELSE pos[x]
  BY <1>1, BoughtIs
<1>4. PICK f \in BOOLEAN :
        /\ Leg(c, f) /\ faults' \in 0..MaxFaults /\ pos' \in {pos, Bought(c)}
        /\ slipped' \in BOOLEAN
        /\ ~slipped' => ~slipped /\ pos' = IF f THEN Bought(c) ELSE pos
  <2>1. CASE /\ UNCHANGED faults /\ Leg(c, TRUE)
             /\ \/ pos' = Bought(c) /\ UNCHANGED slipped
                \/ pos' = pos /\ slipped' = TRUE
    <3>1. faults' \in 0..MaxFaults /\ slipped' \in BOOLEAN /\ pos' \in {pos, Bought(c)} /\ Leg(c, TRUE)
      BY <1>1, <2>1 DEF PairTypeOK
    <3>2. ~slipped' => ~slipped /\ pos' = Bought(c)
      BY <2>1
    <3> QED
      BY <3>1, <3>2, Zenon
  <2>2. CASE /\ Raises /\ Leg(c, FALSE)
             /\ \/ pos' = pos /\ UNCHANGED slipped
                \/ pos' = Bought(c) /\ slipped' = TRUE
    <3>1. faults' \in 0..MaxFaults /\ slipped' \in BOOLEAN /\ pos' \in {pos, Bought(c)} /\ Leg(c, FALSE)
      BY <1>1, <2>2, RaisesTypes
    <3>2. ~slipped' => ~slipped /\ pos' = pos
      BY <2>2
    <3> QED
      BY <3>1, <3>2, Zenon
  <2> QED
    BY <2>1, <2>2 DEF Hurries
<1>5. /\ task' \in Tasks /\ trade' \in Trades /\ (MaxUnits > 0 => trade'.count <= MaxUnits)
      /\ LoopInv'
  BY <1>1, <1>2, <1>4, LegKeeps
<1>6. PairTypeOK'
  BY <1>1, <1>2, <1>3, <1>4, <1>5 DEF PairTypeOK
<1>7. ASSUME ~slipped' PROVE Books'
  <2>1. ~slipped /\ pos' = IF f THEN Bought(c) ELSE pos
    BY <1>4, <1>7
  <2>2. rest[c] = Empty /\ ((c = 1 /\ Resting(2)) \/ (~Resting(3 - c) /\ Standing))
    BY <1>1, <2>1 DEF PairInv, LimitInv
  <2>3. ASSUME Standing, NEW x \in Coins
        PROVE  pos'[x] = IF x \in LegDone(c, f) THEN Entries(trade, x) + Side(x)
                         ELSE Entries(trade, x)
    <3>1. IF x \in task.done THEN pos[x] = Entries(trade, x) + Side(x) ELSE pos[x] = Entries(trade, x)
      BY <2>3 DEF Standing, Even, Ahead
    <3>2. CASE f
      <4>1. LegDone(c, f) = task.done \cup {c} /\ pos' = Bought(c)
        BY <2>1, <3>2 DEF LegDone
      <4>2. CASE x = c
        BY <1>1, <1>3, <3>1, <4>1, <4>2
      <4>3. CASE x # c
        BY <1>3, <3>1, <4>1, <4>3
      <4> QED
        BY <4>2, <4>3
    <3>3. CASE ~f
      <4>1. LegDone(c, f) = task.done /\ pos' = pos
        BY <2>1, <3>3 DEF LegDone
      <4> QED
        BY <3>1, <4>1
    <3> QED
      BY <3>2, <3>3
  <2>4. \/ c = 1 /\ Resting(2)'
        \/ /\ ~Resting(3 - c)'
           /\ \A x \in Coins : pos'[x] = IF x \in LegDone(c, f) THEN Entries(trade, x) + Side(x)
                                         ELSE Entries(trade, x)
    BY <1>2, <2>2, <2>3 DEF Resting
  <2>5. ~Resting(c)'
    BY <1>2, <2>2 DEF Resting
  <2> QED
    BY <1>1, <1>4, <1>6, <2>4, <2>5, LegBooks
<1> QED
  BY <1>5, <1>6, <1>7 DEF PairInv, Books

\* The missing coin is bought at the market, and the entry recorded.
LEMMA HedgeSteps ==
    ASSUME PairInv, NEW c \in Coins, Hedges(c)
    PROVE  PairInv'
<1>1. /\ PairTypeOK /\ LoopInv /\ task.at = "hedge" /\ task.done = Coins \ {c} /\ plan # "market"
      /\ task.at \in InEntry /\ slipped \in BOOLEAN
  BY DEF PairInv, Hedges, LoopInv, PairTypeOK, InEntry
<1>2. /\ UNCHANGED <<plan, rest, pnl, observe, losses, breaker, cooling, saved, crashes>>
      /\ task' = Idle /\ trade' = Recorded
  BY DEF Hedges, brakeVars
<1>3. /\ Bought(c) \in [Coins -> Int]
      /\ \A x \in Coins : Bought(c)[x] = IF x = c THEN pos[x] + Side(c) ELSE pos[x]
  BY <1>1, BoughtIs
<1>4. /\ pos' \in {pos, Bought(c)} /\ faults' \in 0..MaxFaults /\ slipped' \in BOOLEAN
      /\ ~slipped' => ~slipped /\ pos' = Bought(c)
  <2>1. CASE pos' = Bought(c) /\ UNCHANGED <<faults, slipped>>
    BY <1>1, <2>1 DEF PairTypeOK
  <2>2. CASE pos' \in {pos, Bought(c)} /\ Raises /\ slipped' = TRUE
    BY <1>1, <2>2, RaisesTypes
  <2> QED
    BY <2>1, <2>2 DEF Hedges
<1>5. /\ trade' \in Trades /\ trade'.count > 0 /\ trade'.dir # 0
      /\ MaxUnits > 0 => trade'.count <= MaxUnits
      /\ \A x \in Coins : Entries(Recorded, x) = Entries(trade, x) + Side(x)
  BY <1>1, <1>2, RecordedTypes
<1>6. task' \in Tasks /\ task'.at = "idle" /\ task'.done = {}
  BY <1>2, IdleIs
<1>7. PairTypeOK'
  BY <1>1, <1>2, <1>3, <1>4, <1>5, <1>6 DEF PairTypeOK
<1>8. LoopInv'
  BY <1>1, <1>2, <1>5, <1>6 DEF LoopInv, Legged, InEntry
<1>9. ASSUME ~slipped' PROVE Books'
  <2>1. ~slipped /\ pos' = Bought(c)
    BY <1>4, <1>9
  <2>2. ~AnyResting /\ Standing
    BY <1>1, <2>1 DEF PairInv, LimitInv
  <2>3. \A x \in Coins : pos'[x] = Entries(trade, x) + Side(x)
    BY <1>1, <1>3, <2>1, <2>2 DEF Standing, Even, Ahead
  <2>4. \A x \in Coins : Even(x)'
    BY <1>2, <1>5, <2>3 DEF Even
  <2>5. ~AnyResting'
    BY <1>2, <2>2 DEF AnyResting, Resting
  <2> QED
    BY <1>6, <1>7, <2>4, <2>5, Squared
<1> QED
  BY <1>7, <1>8, <1>9 DEF PairInv, Books

-----------------------------------------------------------------------------
(* What the trader promises *)

\* Every step of an entry keeps the invariant.
LEMMA EnterSteps ==
    ASSUME PairInv, NEW c \in Coins, Enters(c)
    PROVE  PairInv'
BY MarketSteps, PlaceSteps, RefusedSteps, KeepSteps, GivesUpSteps, LookSteps, TireSteps,
   HurrySteps, HedgeSteps DEF Enters

\* Every step of the loop keeps it.
LEMMA LoopKeeps ==
    ASSUME PairInv, Loop
    PROVE  PairInv'
<1>1. CASE Decides \/ Begins \/ Watches
  BY <1>1, DecideSteps, BeginSteps, WatchSteps
<1>2. CASE Unwinds \/ Abandons \/ Settles \/ Falters
  BY <1>2, UnwindSteps, SettleSteps, GiveUpSteps
<1>3. CASE \E c \in Coins : Closes(c) \/ Enters(c) \/ Quotes(c)
  BY <1>3, CloseSteps, EnterSteps, QuoteSteps
<1> QED
  BY <1>1, <1>2, <1>3 DEF Loop

\* The type, where the loop may be, and what the venue holds as long as nothing slipped, hold
\* throughout, whatever the venue fills, the calls raise and the host restarts.
THEOREM PairInvHolds == PairSpec => []PairInv
<1>1. PairInit => PairInv
  BY PairStarts
<1>2. PairInv /\ [PairNext]_pairVars => PairInv'
  <2> SUFFICES ASSUME PairInv, [PairNext]_pairVars PROVE PairInv'
    OBVIOUS
  <2>1. CASE Loop
    BY <2>1, LoopKeeps
  <2>2. CASE PairWorld
    BY <2>2, WorldKeeps
  <2>3. CASE UNCHANGED pairVars
    BY <2>3, QuietSteps
  <2> QED
    BY <2>1, <2>2, <2>3 DEF PairNext
<1> QED
  BY <1>1, <1>2, PTL DEF PairSpec

\* Every variable keeps its type: no more entries than trading_limit_count, nor than the
\* largest position allows.
THEOREM PairTypeHolds == PairSpec => []PairTypeOK
<1>1. PairInv => PairTypeOK
  BY DEF PairInv
<1> QED
  BY <1>1, PairInvHolds, PTL

\* Between two cycles the venue holds the trader's entries and nothing else, unless one of
\* the failures that the code does not repair has happened.
THEOREM HedgedHolds == PairSpec => []Hedged
<1>1. PairInv => Hedged
  <2> SUFFICES ASSUME PairInv, task.at \in {"idle", "delay"}, ~slipped, ~AnyResting, NEW c \in Coins
               PROVE  pos[c] = trade.count * Side(c)
    BY DEF Hedged
  <2>1. task.done = {} /\ Standing
    BY DEF PairInv, LoopInv, CycleInv
  <2>2. pos[c] = Entries(trade, c)
    BY <2>1 DEF Standing, Even
  <2> QED
    BY <2>2 DEF Entries, Side
<1> QED
  BY <1>1, PairInvHolds, PTL
=============================================================================
