------------------------ MODULE HedgeClients_proofs -------------------------
(***************************************************************************)
(* The limits of the pre-position hedge and of the hack detector hold for  *)
(* any tickers, jobs, users and notices, whatever waits for the lock, for  *)
(* the hedge service or for an operator's message, and whenever midnight   *)
(* or a restart falls.                                                     *)
(***************************************************************************)
EXTENDS HedgeClients, FiniteSetTheorems, TLAPS

-----------------------------------------------------------------------------
(* The lock and its line *)

LEMMA Closers == DOMAIN Final = {"exit", "timeout", "gap"} /\ "enter" \notin DOMAIN Final
                 /\ "list" \notin DOMAIN Final /\ "none" \notin DOMAIN Final
                 /\ \A op \in DOMAIN Final : Final[op] \in {"closing", "closed"}
    BY DEF Final

\* The lock has one holder.
LEMMA OneHolder ==
    ASSUME PreTypeOK, NEW c, NEW d, Has(c), Has(d)
    PROVE  c = d
    BY DEF Has

LEMMA HolderIsFirst ==
    ASSUME PreTypeOK, NEW c, Has(c)
    PROVE  Len(line) >= 1 /\ line[1] = c /\ c \in Callers
    BY DEF Has, PreTypeOK

LEMMA AskingKeeps ==
    ASSUME PreTypeOK, LineInv, NEW c \in Callers, NEW op, NEW about,
           call[c] = NoCall, Asks(c, op, about),
           op \in {"enter", "list"} \cup DOMAIN Final, about \in Tickers \cup Jobs \cup {0},
           op = "enter" => about \in Tickers, op \in DOMAIN Final => about \in Jobs
    PROVE  /\ line' \in Seq(Callers) /\ call' \in [Callers -> Calls] /\ LineInv'
           /\ \A d \in Callers : call'[d].at = "office" => call'[d] = call[d]
           /\ \A d \in Callers : call[d].at = "office" => call'[d] = call[d]
<1> DEFINE new == [op |-> op, about |-> about, at |-> "waits"]
<1>1. new \in Calls
    BY DEF Calls
<1>2. call' = [call EXCEPT ![c] = new] /\ line' = Append(line, c) /\ call[c].at = "idle"
    BY DEF Asks, NoCall
<1>3. call' \in [Callers -> Calls] /\ line' \in Seq(Callers)
    BY <1>1, <1>2 DEF PreTypeOK
<1>4. /\ Len(line') = Len(line) + 1 /\ line'[Len(line) + 1] = c
      /\ \A k \in 1..Len(line) : line'[k] = line[k] /\ line[k] # c
    BY <1>2 DEF PreTypeOK, LineInv
<1>5. \A d \in Callers : Has(d) => Has(d)'
  <2> SUFFICES ASSUME NEW d \in Callers, Has(d) PROVE line' # <<>> /\ Head(line') = d
      BY DEF Has
  <2>1. Len(line) >= 1 /\ line[1] = d
      BY HolderIsFirst
  <2>2. Len(line') >= 1 /\ line'[1] = d
      BY <2>1, <1>4 DEF PreTypeOK
  <2>3. QED
      BY <2>2, <1>3
<1>6. \A d \in Callers : d # c => call'[d] = call[d]
    BY <1>2 DEF PreTypeOK
<1>7. call'[c] = new
    BY <1>2 DEF PreTypeOK
<1>8. \A k, l \in 1..Len(line') : line'[k] = line'[l] => k = l
    BY <1>4 DEF LineInv, PreTypeOK
<1>9. \A k \in 1..Len(line') : call'[line'[k]].at # "idle"
  <2> SUFFICES ASSUME NEW k \in 1..Len(line') PROVE call'[line'[k]].at # "idle"
      OBVIOUS
  <2>1. CASE k = Len(line) + 1
      BY <2>1, <1>4, <1>7
  <2>2. CASE k \in 1..Len(line)
      BY <2>2, <1>4, <1>6 DEF LineInv, PreTypeOK
  <2>3. QED
      BY <2>1, <2>2, <1>4 DEF PreTypeOK
<1>10. ASSUME NEW d \in Callers
       PROVE  /\ call'[d].at \in {"office", "tells"} => Has(d)'
              /\ call'[d].at = "office" => call'[d].op \in {"enter"} \cup DOMAIN Final
              /\ call'[d].op = "enter" => call'[d].about \in Tickers
              /\ call'[d].op \in DOMAIN Final => call'[d].about \in Jobs
  <2>1. CASE d = c
      BY <2>1, <1>7
  <2>2. CASE d # c
      BY <2>2, <1>5, <1>6 DEF LineInv
  <2>3. QED
      BY <2>1, <2>2
<1>11. LineInv'
    BY <1>8, <1>9, <1>10 DEF LineInv
<1>12. QED
    BY <1>2, <1>3, <1>6, <1>7, <1>11

\* After the holder has left nobody is past the wait.
LEMMA LeavingKeeps ==
    ASSUME PreTypeOK, LineInv, NEW c \in Callers, Has(c),
           line' = Tail(line), call' = [call EXCEPT ![c] = NoCall]
    PROVE  /\ line' \in Seq(Callers) /\ call' \in [Callers -> Calls] /\ LineInv'
           /\ \A d \in Callers : call'[d].at \notin {"office", "tells"}
<1>1. NoCall \in Calls
    BY DEF NoCall, Calls
<1>2. call' \in [Callers -> Calls]
    BY <1>1 DEF PreTypeOK
<1>3. Len(line) >= 1 /\ line[1] = c
    BY HolderIsFirst
<1>4. /\ line' \in Seq(Callers) /\ Len(line') = Len(line) - 1
      /\ \A k \in 1..Len(line') : line'[k] = line[k + 1] /\ k + 1 \in 1..Len(line)
    BY <1>3 DEF PreTypeOK
<1>5. \A d \in Callers : d # c => call'[d] = call[d]
    BY DEF PreTypeOK
<1>6. call'[c] = NoCall
    BY DEF PreTypeOK
<1>7. \A d \in Callers : call[d].at \in {"office", "tells"} => d = c
    BY OneHolder DEF LineInv
<1>8. \A d \in Callers : call'[d].at \notin {"office", "tells"}
    BY <1>5, <1>6, <1>7 DEF NoCall
<1>9. \A k, l \in 1..Len(line') : line'[k] = line'[l] => k = l
  <2> SUFFICES ASSUME NEW k \in 1..Len(line'), NEW l \in 1..Len(line'), line'[k] = line'[l]
               PROVE  k = l
      OBVIOUS
  <2>1. line[k + 1] = line[l + 1] /\ k + 1 \in 1..Len(line) /\ l + 1 \in 1..Len(line)
      BY <1>4
  <2>2. k + 1 = l + 1
      BY <2>1 DEF LineInv
  <2>3. QED
      BY <2>2
<1>10. \A k \in 1..Len(line') : call'[line'[k]].at # "idle"
  <2> SUFFICES ASSUME NEW k \in 1..Len(line') PROVE call'[line'[k]].at # "idle"
      OBVIOUS
  <2>1. line'[k] = line[k + 1] /\ k + 1 \in 1..Len(line) /\ 1 \in 1..Len(line)
      BY <1>3, <1>4 DEF PreTypeOK
  <2>2. line[k + 1] # c
      BY <2>1, <1>3 DEF LineInv
  <2>3. line[k + 1] \in Callers
      BY <2>1 DEF PreTypeOK
  <2>4. QED
      BY <2>1, <2>2, <2>3, <1>5 DEF LineInv
<1>11. \A d \in Callers :
          /\ call'[d].at = "office" => call'[d].op \in {"enter"} \cup DOMAIN Final
          /\ call'[d].op = "enter" => call'[d].about \in Tickers
          /\ call'[d].op \in DOMAIN Final => call'[d].about \in Jobs
    BY <1>5, <1>6, <1>8, Closers DEF LineInv, NoCall
<1>12. LineInv'
    BY <1>8, <1>9, <1>10, <1>11 DEF LineInv
<1>13. QED
    BY <1>2, <1>4, <1>8, <1>12

\* The holder moves on, to the hedge service or to the message.
LEMMA GoingKeeps ==
    ASSUME PreTypeOK, LineInv, NEW c \in Callers, Has(c), NEW at \in {"office", "tells"},
           Goes(c, at), call[c].op \in {"enter"} \cup DOMAIN Final
    PROVE  /\ line' = line /\ call' \in [Callers -> Calls] /\ LineInv'
           /\ call'[c].op = call[c].op /\ call'[c].about = call[c].about /\ call'[c].at = at
           /\ \A d \in Callers : d # c => call'[d] = call[d] /\ call'[d].at \notin {"office", "tells"}
<1>1. line' = line /\ call' = [call EXCEPT ![c].at = at]
    BY DEF Goes
<1>2. /\ call' \in [Callers -> Calls] /\ call'[c].op = call[c].op
      /\ call'[c].about = call[c].about /\ call'[c].at = at
      /\ \A d \in Callers : d # c => call'[d] = call[d]
    BY <1>1 DEF PreTypeOK, Calls
<1>3. \A d \in Callers : d # c => call[d].at \notin {"office", "tells"}
    BY OneHolder DEF LineInv
<1>4. \A d \in Callers : Has(d)' <=> Has(d)
    BY <1>1 DEF Has
<1>5. \A k \in 1..Len(line') : call'[line'[k]].at # "idle"
  <2> SUFFICES ASSUME NEW k \in 1..Len(line) PROVE call'[line[k]].at # "idle"
      BY <1>1
  <2>1. line[k] \in Callers
      BY DEF PreTypeOK
  <2>2. QED
      BY <2>1, <1>2 DEF LineInv
<1>6. LineInv'
    BY <1>1, <1>2, <1>3, <1>4, <1>5 DEF LineInv
<1>7. QED
    BY <1>1, <1>2, <1>3, <1>6

-----------------------------------------------------------------------------
(* The jobs, their log and the account *)

\* A step that records nothing, and begins and ends no call of the hedge service but an entry
\* that failed.
LEMMA QuietKeeps ==
    ASSUME PreInv, PreTypeOK', LineInv', UNCHANGED <<job, log, sent, spentToday>>,
           Account' = Account,
           \A d \in Callers : call'[d].at = "office" => call'[d] = call[d],
           \A d \in Callers : call[d].at = "office" /\ call[d].op \in DOMAIN Final =>
               call'[d] = call[d]
    PROVE  PreInv'
<1>1. OpenJobs' = OpenJobs /\ LogOpen' = LogOpen
    BY DEF OpenJobs, LogOpen
<1>2. LogInv'
  <2>1. ASSUME NEW i \in LogOpen \ OpenJobs
        PROVE  \E c \in Callers :
                  /\ call'[c].at = "office" /\ call'[c].op \in DOMAIN Final
                  /\ call'[c].about = i
    <3>1. PICK c \in Callers : /\ call[c].at = "office" /\ call[c].op \in DOMAIN Final
                               /\ call[c].about = i
        BY <2>1 DEF PreInv, LogInv
    <3>2. QED
        BY <3>1
  <2>2. QED
      BY <1>1, <2>1 DEF PreInv, LogInv
<1>3. RoomInv'
  <2>1. ASSUME NEW d \in Callers, call'[d].at = "office", call'[d].op = "enter"
        PROVE  /\ Cardinality(LogOpen) < MaxOpen
               /\ \A i \in LogOpen : job[i].ticker # call'[d].about
               /\ Account < DayCap
               /\ \E i \in Jobs : log[i] = "none"
      BY <2>1 DEF PreInv, RoomInv
  <2>2. QED
      BY <1>1, <2>1 DEF PreInv, RoomInv
<1>4. ClosedOnce'
    BY DEF PreInv, ClosedOnce
<1>5. QED
    BY <1>2, <1>3, <1>4 DEF PreInv

LEMMA RollingKeeps ==
    ASSUME PreTypeOK, day' = day, RollPreDay \/ UNCHANGED <<spent, spentDay>>
    PROVE  Account' = Account /\ spent' \in Nat /\ spentDay' \in 0..day
<1>1. day \in Nat /\ spentDay \in 0..day /\ spent \in Nat
    BY OfficeAssumption DEF PreTypeOK
<1>2. CASE RollPreDay
    BY <1>1, <1>2 DEF RollPreDay, Account
<1>3. CASE UNCHANGED <<spent, spentDay>>
    BY <1>1, <1>3 DEF Account
<1>4. QED
    BY <1>2, <1>3

\* Calls that are asked, refused or over, the loop's list, the status and the time.
LEMMA QuietSteps ==
    ASSUME PreInv,
           \/ \E c \in Users : (\E t \in Tickers : UserEnters(c, t)) \/ (\E i \in Jobs : UserExits(c, i))
           \/ LoopWakes \/ (\E i \in Jobs : LoopChecks(i))
    PROVE  PreInv'
<1> USE DEF PreInv
<1>1. ASSUME NEW c \in Callers, NEW op \in {"enter", "list"} \cup DOMAIN Final,
             NEW about \in Tickers \cup Jobs \cup {0}, call[c] = NoCall, Asks(c, op, about),
             op = "enter" => about \in Tickers, op \in DOMAIN Final => about \in Jobs,
             UNCHANGED officeVars,
             UNCHANGED <<armed, left, job, log, due, spent, spentDay, spentToday, sent>>
      PROVE  PreInv'
  <2>1. /\ line' \in Seq(Callers) /\ call' \in [Callers -> Calls] /\ LineInv'
        /\ \A d \in Callers : call'[d].at = "office" => call'[d] = call[d]
        /\ \A d \in Callers : call[d].at = "office" => call'[d] = call[d]
      BY <1>1, AskingKeeps
  <2>2. PreTypeOK' /\ Account' = Account
      BY <2>1, <1>1 DEF PreTypeOK, Account, officeVars
  <2>3. QED
      BY <2>1, <2>2, <1>1, QuietKeeps
<1>2. \A c \in Users : c \in Callers
    BY DEF Callers
<1>3. "loop" \in Callers
    BY DEF Callers
<1>4. ASSUME NEW c \in Users, NEW t \in Tickers, UserEnters(c, t) PROVE PreInv'
    BY <1>4, <1>1, <1>2, Closers DEF UserEnters
<1>5. ASSUME NEW c \in Users, NEW i \in Jobs, UserExits(c, i) PROVE PreInv'
    BY <1>5, <1>1, <1>2, Closers DEF UserExits
<1>6. ASSUME LoopWakes PROVE PreInv'
    BY <1>6, <1>1, <1>3, Closers DEF LoopWakes
<1>7. ASSUME NEW i \in Jobs, LoopChecks(i) PROVE PreInv'
  <2>1. ASSUME NEW op \in {"timeout", "gap"}, Asks("loop", op, i), UNCHANGED left
        PROVE PreInv'
      BY <1>7, <2>1, <1>1, <1>3, Closers DEF LoopChecks
  <2>2. ASSUME left' = left \ {i}, UNCHANGED <<call, line>> PROVE PreInv'
    <3>1. /\ UNCHANGED <<armed, job, log, due, spent, spentDay, spentToday, sent>>
          /\ UNCHANGED officeVars
        BY <1>7 DEF LoopChecks
    <3>2. PreTypeOK' /\ Account' = Account
        BY <2>2, <3>1 DEF PreTypeOK, Account, officeVars
    <3>3. LineInv'
        BY <2>2 DEF LineInv, Has
    <3>4. QED
        BY <2>2, <3>1, <3>2, <3>3, QuietKeeps
  <2>3. QED
      BY <1>7, <2>1, <2>2 DEF LoopChecks
<1>8. QED
    BY <1>4, <1>5, <1>6, <1>7

\* The holder leaves the line with nothing recorded.
LEMMA LeavingSteps ==
    ASSUME PreInv, NEW c \in Callers,
           EnterRefused(c) \/ CloseMissed(c) \/ Told(c) \/ (c = "loop" /\ LoopLists)
    PROVE  PreInv'
<1> USE DEF PreInv
<1>1. /\ Has(c) /\ line' = Tail(line) /\ call' = [call EXCEPT ![c] = NoCall]
      /\ ~ (call[c].at = "office")
      /\ UNCHANGED officeVars
      /\ UNCHANGED <<armed, job, log, due, spentToday, sent>>
      /\ RollPreDay \/ UNCHANGED <<spent, spentDay>>
    BY DEF EnterRefused, CloseMissed, Told, LoopLists, At, Leaves
<1>2. left' \subseteq Jobs
    BY DEF EnterRefused, CloseMissed, Told, LoopLists, Leaves, PreTypeOK, OpenJobs
<1>3. /\ line' \in Seq(Callers) /\ call' \in [Callers -> Calls] /\ LineInv'
      /\ \A d \in Callers : call'[d].at \notin {"office", "tells"}
    BY <1>1, LeavingKeeps
<1>4. Account' = Account /\ spent' \in Nat /\ spentDay' \in 0..day
    BY <1>1, RollingKeeps DEF officeVars
<1>5. PreTypeOK'
    BY <1>1, <1>2, <1>3, <1>4 DEF PreTypeOK, officeVars
<1>6. \A d \in Callers : call[d].at = "office" => d = c
    BY <1>1, OneHolder DEF LineInv
<1>7. QED
    BY <1>1, <1>3, <1>4, <1>5, <1>6, QuietKeeps

LEMMA ClockSteps ==
    ASSUME PreInv, PreStatus \/ PreMidnight \/ (\E i \in Jobs : Overdue(i))
                   \/ ((\E t \in Tickers : OthersHedge(t)) /\ UNCHANGED preVars)
    PROVE  PreInv'
<1> USE DEF PreInv
<1>1. CASE PreStatus
  <2>1. Account' = Account /\ spent' \in Nat /\ spentDay' \in 0..day
      BY <1>1, RollingKeeps DEF PreStatus, officeVars
  <2>2. PreTypeOK' /\ LineInv'
      BY <1>1, <2>1 DEF PreStatus, PreTypeOK, LineInv, Has, officeVars
  <2>3. QED
      BY <1>1, <2>1, <2>2, QuietKeeps DEF PreStatus
<1>2. CASE PreMidnight
  <2>1. /\ spentToday' = 0 /\ day' = day + 1
        /\ UNCHANGED <<spot, pair, armed, line, call, left, job, log, due, spent, spentDay, sent>>
      BY <1>2 DEF PreMidnight, Midnight
  <2>2. PreTypeOK' /\ LineInv'
      BY <1>2, <2>1, OfficeAssumption DEF Midnight, PreMidnight, PreTypeOK, LineInv, Has
  <2>3. Account' = 0 /\ Account \in Nat
      BY <2>1 DEF Account, PreTypeOK
  <2>4. OpenJobs' = OpenJobs /\ LogOpen' = LogOpen
      BY <2>1 DEF OpenJobs, LogOpen
  <2>5. LogInv' /\ ClosedOnce'
      BY <2>1, <2>4 DEF LogInv, ClosedOnce
  <2>6. Account < DayCap => 0 < DayCap
      BY <2>3, PreAssumption
  <2>7. RoomInv'
      BY <2>1, <2>3, <2>4, <2>6, PreAssumption DEF RoomInv
  <2>8. QED
      BY <2>2, <2>5, <2>7
<1>3. ASSUME NEW i \in Jobs, Overdue(i) PROVE PreInv'
  <2>1. PreTypeOK' /\ LineInv' /\ Account' = Account
      BY <1>3 DEF Overdue, PreTypeOK, LineInv, Has, Account, officeVars
  <2>2. QED
      BY <1>3, <2>1, QuietKeeps DEF Overdue
<1>4. ASSUME NEW t \in Tickers, OthersHedge(t), UNCHANGED preVars PROVE PreInv'
  <2>1. spot' \in [Tickers -> Jobs \cup {Nothing, Another}] /\ UNCHANGED <<pair, day>>
      BY <1>4 DEF OthersHedge, Entered, ClosedSpot, PreTypeOK
  <2>2. PreTypeOK' /\ LineInv' /\ Account' = Account
      BY <1>4, <2>1 DEF preVars, PreTypeOK, LineInv, Has, Account
  <2>3. QED
      BY <1>4, <2>2, QuietKeeps DEF preVars
<1>5. QED
    BY <1>1, <1>2, <1>3, <1>4

\* A new job, its record and its money, while there is room for them.
LEMMA RecordingKeeps ==
    ASSUME PreInv, NEW t \in Tickers, NEW i \in Jobs, NEW hedged \in BOOLEAN,
           Records(t, i, hedged), log[i] = "none",
           Cardinality(LogOpen) < MaxOpen, \A j \in LogOpen : job[j].ticker # t,
           Account < DayCap,
           \A d \in Callers : call[d].at = "office" => call[d].op = "enter",
           line' \in Seq(Callers), call' \in [Callers -> Calls], LineInv',
           \A d \in Callers : call'[d].at # "office",
           spot' \in [Tickers -> Jobs \cup {Nothing, Another}], UNCHANGED <<pair, day, left>>
    PROVE  PreInv'
<1> USE DEF PreInv
<1>1. /\ job'[i] = [ticker |-> t, hedged |-> hedged, status |-> "open"] /\ log'[i] = "open"
      /\ \A j \in Jobs : j # i => job'[j] = job[j] /\ log'[j] = log[j]
      /\ sent' = sent /\ armed' = armed /\ due' = due
    BY DEF Records, PreTypeOK
<1>2. /\ job' \in [Jobs -> [ticker : Tickers \cup {0}, hedged : BOOLEAN, status : Statuses]]
      /\ log' \in [Jobs -> Statuses]
    BY DEF Records, PreTypeOK, Statuses
<1>3. Account \in Nat /\ day \in Nat
    BY OfficeAssumption DEF Account, PreTypeOK
<1>4. spent' = Account + 1 /\ spentDay' = day /\ spentToday' = spentToday + 1
    BY DEF Records, Account
<1>5. Account' = Account + 1
    BY <1>3, <1>4 DEF Account
<1>6. PreTypeOK'
    BY <1>1, <1>2, <1>3, <1>4 DEF PreTypeOK
<1>7. i \notin LogOpen /\ i \notin OpenJobs
    BY DEF LogOpen, OpenJobs, LogInv
<1>8. LogOpen' = LogOpen \cup {i}
    BY <1>1 DEF LogOpen
<1>9. OpenJobs' = OpenJobs \cup {i}
    BY <1>1 DEF OpenJobs
<1>10. LogOpen = OpenJobs
    BY Closers DEF LogInv, LogOpen, OpenJobs
<1>11. sent[i] = 0
    BY DEF LogInv, PreTypeOK
<1>12. LogInv'
  <2>1. \A j \in OpenJobs' : log'[j] = "open"
      BY <1>1, <1>9 DEF LogInv, OpenJobs
  <2>2. \A j \in Jobs : sent'[j] > 0 => job'[j].status # "open" /\ log'[j] # "none"
      BY <1>1, <1>11 DEF LogInv
  <2>3. LogOpen' \ OpenJobs' = {}
      BY <1>8, <1>9, <1>10
  <2>4. QED
      BY <2>1, <2>2, <2>3 DEF LogInv
<1>13. IsFiniteSet(LogOpen') /\ Cardinality(LogOpen') = Cardinality(LogOpen) + 1
    BY <1>7, <1>8, FS_AddElement DEF RoomInv
<1>14. Cardinality(LogOpen) \in Nat
    BY FS_CardinalityType DEF RoomInv
<1>15. \A j, k \in LogOpen' : job'[j].ticker = job'[k].ticker => j = k
    BY <1>1, <1>7, <1>8 DEF RoomInv, LogOpen
<1>16. RoomInv'
    BY <1>3, <1>4, <1>5, <1>13, <1>14, <1>15, PreAssumption DEF RoomInv, PreTypeOK
<1>17. ClosedOnce'
    BY <1>1 DEF ClosedOnce
<1>18. QED
    BY <1>6, <1>12, <1>16, <1>17

\* An entry through the gates finds the room that Admitted has seen, and nobody else may take
\* it before its answer comes.
LEMMA EnteringSteps ==
    ASSUME PreInv, NEW c \in Callers, EnterBegins(c) \/ EnterEnds(c)
    PROVE  PreInv'
<1> USE DEF PreInv
<1>1. Has(c) /\ call[c].op = "enter" /\ call[c].about \in Tickers
    BY DEF EnterBegins, EnterEnds, At, LineInv
<1>2. \A d \in Callers : call[d].at = "office" => d = c
    BY <1>1, OneHolder DEF LineInv
<1>3. \A d \in Callers : call[d].at = "office" => call[d].op = "enter"
    BY <1>1, <1>2
<1>4. LogOpen = OpenJobs
    BY <1>3, Closers DEF LogInv, LogOpen, OpenJobs
<1>5. ASSUME Goes(c, "tells"), NEW hedged \in BOOLEAN, Records(call[c].about, Fresh, hedged),
             \E i \in Jobs : log[i] = "none",
             Cardinality(LogOpen) < MaxOpen,
             \A j \in LogOpen : job[j].ticker # call[c].about, Account < DayCap,
             spot' = spot \/ Entered(call[c].about, Fresh), UNCHANGED <<pair, day>>
      PROVE  PreInv'
  <2>1. Fresh \in Jobs /\ log[Fresh] = "none"
      BY <1>5 DEF Fresh
  <2>2. /\ line' = line /\ call' \in [Callers -> Calls] /\ LineInv' /\ call'[c].at = "tells"
        /\ \A d \in Callers : d # c => call'[d].at \notin {"office", "tells"}
      BY <1>1, <1>5, GoingKeeps
  <2>3. left' = left
      BY <1>5 DEF Goes
  <2>4. spot' \in [Tickers -> Jobs \cup {Nothing, Another}]
      BY <1>5, <2>1 DEF Entered, PreTypeOK
  <2>5. line' \in Seq(Callers)
      BY <2>2 DEF PreTypeOK
  <2>6. \A d \in Callers : call'[d].at # "office"
      BY <2>2
  <2>7. QED
      BY <1>1, <1>3, <1>5, <2>1, <2>2, <2>3, <2>4, <2>5, <2>6, RecordingKeeps
<1>6. CASE EnterBegins(c)
  <2>1. /\ Cardinality(LogOpen) < MaxOpen /\ \A i \in LogOpen : job[i].ticker # call[c].about
        /\ Account < DayCap /\ \E i \in Jobs : log[i] = "none"
      BY <1>4, <1>6 DEF EnterBegins, Admitted, Account
  <2>2. UNCHANGED officeVars
      BY <1>6 DEF EnterBegins
  <2>3. CASE armed
    <3>1. /\ Goes(c, "office") /\ RollPreDay
          /\ UNCHANGED <<armed, job, log, due, spentToday, sent>>
        BY <1>6, <2>3 DEF EnterBegins
    <3>2. /\ line' = line /\ call' \in [Callers -> Calls] /\ LineInv'
          /\ call'[c].op = "enter" /\ call'[c].about = call[c].about
          /\ \A d \in Callers : d # c => call'[d].at \notin {"office", "tells"}
        BY <1>1, <3>1, GoingKeeps
    <3>3. Account' = Account /\ spent' \in Nat /\ spentDay' \in 0..day
        BY <2>2, <3>1, RollingKeeps DEF officeVars
    <3>4. PreTypeOK'
        BY <2>2, <3>1, <3>2, <3>3 DEF PreTypeOK, Goes, officeVars
    <3>5. OpenJobs' = OpenJobs /\ LogOpen' = LogOpen
        BY <3>1 DEF OpenJobs, LogOpen
    <3>6. \A d \in Callers : call'[d].at = "office" => d = c /\ call'[d].op \notin DOMAIN Final
        BY <3>2, Closers
    <3>7. LogInv' /\ ClosedOnce'
        BY <1>4, <3>1, <3>5, <3>6 DEF LogInv, ClosedOnce
    <3>8. RoomInv'
        BY <2>1, <3>1, <3>2, <3>3, <3>5, <3>6 DEF RoomInv
    <3>9. QED
        BY <3>2, <3>4, <3>7, <3>8
  <2>4. CASE ~ armed
      BY <1>5, <1>6, <2>1, <2>2, <2>4 DEF EnterBegins, officeVars
  <2>5. QED
      BY <2>3, <2>4 DEF PreTypeOK
<1>7. CASE EnterEnds(c)
  <2>1. call[c].at = "office"
      BY <1>7 DEF EnterEnds, At
  <2>2. /\ Cardinality(LogOpen) < MaxOpen /\ \A i \in LogOpen : job[i].ticker # call[c].about
        /\ Account < DayCap /\ \E i \in Jobs : log[i] = "none"
      BY <1>1, <2>1 DEF RoomInv
  <2>3. ASSUME Entered(call[c].about, Fresh), Records(call[c].about, Fresh, TRUE), Goes(c, "tells")
        PROVE  PreInv'
      BY <1>5, <2>2, <2>3 DEF Entered
  <2>4. ASSUME Leaves(c), UNCHANGED officeVars,
               UNCHANGED <<armed, job, log, due, spent, spentDay, spentToday, sent>>
        PROVE  PreInv'
    <3>1. line' = Tail(line) /\ call' = [call EXCEPT ![c] = NoCall] /\ left' \subseteq Jobs
        BY <2>4 DEF Leaves, PreTypeOK
    <3>2. /\ line' \in Seq(Callers) /\ call' \in [Callers -> Calls] /\ LineInv'
          /\ \A d \in Callers : call'[d].at \notin {"office", "tells"}
        BY <1>1, <3>1, LeavingKeeps
    <3>3. PreTypeOK' /\ Account' = Account
        BY <2>4, <3>1, <3>2 DEF PreTypeOK, Account, officeVars
    <3>4. QED
        BY <1>3, <2>4, <3>2, <3>3, Closers, QuietKeeps
  <2>5. QED
      BY <1>7, <2>3, <2>4 DEF EnterEnds
<1>8. QED
    BY <1>6, <1>7

\* A job's status changes, and perhaps its record: it is not open afterwards.
LEMMA EndingKeeps ==
    ASSUME PreInv, PreTypeOK', LineInv', NEW i \in Jobs, NEW status \in {"closing", "closed"},
           job' = [job EXCEPT ![i].status = status],
           log[i] = "open",
           \/ /\ log' = log
              /\ \E d \in Callers : /\ call'[d].at = "office" /\ call'[d].op \in DOMAIN Final
                                    /\ call'[d].about = i
           \/ log' \in [Jobs -> Statuses] /\ log' = [log EXCEPT ![i] = status],
           \A j \in LogOpen : j # i => j \in OpenJobs,
           \A d \in Callers : call'[d].at = "office" =>
               log' = log /\ call'[d].op # "enter" /\ call'[d].about = i,
           \A j \in Jobs : sent'[j] = sent[j] \/ (j = i /\ job[i].status = "open" /\ sent'[i] = sent[i] + 1),
           UNCHANGED <<spentToday, spent, spentDay, day>>
    PROVE  PreInv'
<1> USE DEF PreInv
<1>1. /\ job'[i].status = status /\ job'[i].ticker = job[i].ticker
      /\ \A j \in Jobs : j # i => job'[j] = job[j] /\ log'[j] = log[j]
    BY DEF PreTypeOK
<1>2. log'[i] # "none"
    BY DEF PreTypeOK
<1>3. OpenJobs' \subseteq OpenJobs /\ i \notin OpenJobs' /\ LogOpen' \subseteq LogOpen
    BY <1>1 DEF OpenJobs, LogOpen
<1>4. \A j \in OpenJobs' : log'[j] = "open"
    BY <1>1, <1>3 DEF LogInv, OpenJobs
<1>5. ASSUME NEW j \in LogOpen' \ OpenJobs'
      PROVE  \E c \in Callers :
                /\ call'[c].at = "office" /\ call'[c].op \in DOMAIN Final /\ call'[c].about = j
  <2>1. j = i
      BY <1>1, <1>3, <1>5 DEF OpenJobs, LogOpen
  <2>2. log'[i] = "open"
      BY <2>1, <1>5 DEF LogOpen
  <2>3. QED
      BY <2>1, <2>2 DEF PreTypeOK
<1>6. ASSUME NEW j \in Jobs
      PROVE  /\ sent'[j] > 0 => job'[j].status # "open" /\ log'[j] # "none"
             /\ sent'[j] <= 1
  <2>1. CASE j = i
    <3>1. job[i].status = "open" => sent[i] = 0
        BY DEF LogInv, PreTypeOK
    <3>2. sent[i] <= 1 /\ sent[i] \in Nat
        BY DEF ClosedOnce, PreTypeOK
    <3>3. QED
        BY <2>1, <3>1, <3>2, <1>1, <1>2
  <2>2. CASE j # i
      BY <2>2, <1>1 DEF LogInv, ClosedOnce
  <2>3. QED
      BY <2>1, <2>2
<1>7. LogInv' /\ ClosedOnce'
  <2>1. ASSUME NEW d \in Callers, call'[d].at = "office"
        PROVE  call'[d].about \in LogOpen' \ OpenJobs'
      BY <2>1, <1>3 DEF LogOpen
  <2>2. QED
      BY <1>4, <1>5, <1>6, <2>1 DEF LogInv, ClosedOnce
<1>8. /\ IsFiniteSet(LogOpen') /\ Cardinality(LogOpen') <= Cardinality(LogOpen)
      /\ Cardinality(LogOpen') \in Nat /\ Cardinality(LogOpen) \in Nat
    BY <1>3, FS_Subset, FS_CardinalityType DEF RoomInv
<1>9. \A j, k \in LogOpen' : job'[j].ticker = job'[k].ticker => j = k
    BY <1>1, <1>3 DEF RoomInv, LogOpen
<1>10. Account' = Account
    BY DEF Account
<1>11. RoomInv'
    BY <1>8, <1>9, <1>10, PreAssumption DEF RoomInv
<1>12. QED
    BY <1>7, <1>11

\* The closer of a job finds it open under the lock, or awaits its close since it did.
LEMMA ClosingSteps ==
    ASSUME PreInv, NEW c \in Callers, CloseBegins(c) \/ CloseEnds(c)
    PROVE  PreInv'
<1> USE DEF PreInv
<1> DEFINE i == call[c].about
<1>1. Has(c) /\ call[c].op \in DOMAIN Final /\ i \in Jobs
    BY DEF CloseBegins, CloseEnds, At, LineInv
<1>2. \A d \in Callers : call[d].at = "office" => d = c
    BY <1>1, OneHolder DEF LineInv
<1>3. \A j \in LogOpen : j # i => j \in OpenJobs
    BY <1>2 DEF LogInv
<1>4. Final[call[c].op] \in {"closing", "closed"}
    BY <1>1, Closers
<1>5. \A status \in {"closing", "closed"} : /\ [job EXCEPT ![i].status = status] \in [Jobs -> [ticker : Tickers \cup {0}, hedged : BOOLEAN, status : Statuses]]
                                           /\ [log EXCEPT ![i] = status] \in [Jobs -> Statuses]
    BY <1>1 DEF PreTypeOK, Statuses
<1>6. CASE CloseBegins(c)
  <2>1. log[i] = "open" /\ job[i].status = "open"
      BY <1>1, <1>6 DEF CloseBegins, LogInv, OpenJobs
  <2>2. UNCHANGED officeVars /\ UNCHANGED <<armed, due, spent, spentDay, spentToday>>
      BY <1>6 DEF CloseBegins
  <2>3. CASE armed /\ job[i].hedged
    <3>1. /\ job' = [job EXCEPT ![i].status = "closing"] /\ log' = log
          /\ sent' = [sent EXCEPT ![i] = @ + 1] /\ Goes(c, "office")
        BY <1>6, <2>3 DEF CloseBegins
    <3>2. /\ line' = line /\ call' \in [Callers -> Calls] /\ LineInv'
          /\ call'[c].op = call[c].op /\ call'[c].about = i /\ call'[c].at = "office"
          /\ \A d \in Callers : d # c => call'[d].at \notin {"office", "tells"}
        BY <1>1, <3>1, GoingKeeps
    <3>3. /\ sent' \in [Jobs -> Nat]
          /\ \A j \in Jobs : sent'[j] = sent[j] \/ (j = i /\ sent'[i] = sent[i] + 1)
        BY <1>1, <3>1 DEF PreTypeOK
    <3>4. PreTypeOK'
        BY <1>5, <2>2, <3>1, <3>2, <3>3 DEF PreTypeOK, Goes, officeVars
    <3>5. \A d \in Callers : call'[d].at = "office" =>
              log' = log /\ call'[d].op # "enter" /\ call'[d].about = i
        BY <1>1, <3>1, <3>2, Closers
    <3>6. day' = day
        BY <2>2 DEF officeVars
    <3>7. QED
        BY <1>1, <1>3, <2>1, <2>2, <3>1, <3>2, <3>3, <3>4, <3>5, <3>6, EndingKeeps
  <2>4. CASE ~ (armed /\ job[i].hedged)
    <3>1. /\ Ends(i, Final[call[c].op]) /\ Goes(c, "tells") /\ sent' = sent
        BY <1>6, <2>4 DEF CloseBegins
    <3>2. /\ line' = line /\ call' \in [Callers -> Calls] /\ LineInv' /\ call'[c].at = "tells"
          /\ \A d \in Callers : d # c => call'[d].at \notin {"office", "tells"}
        BY <1>1, <3>1, GoingKeeps
    <3>3. PreTypeOK'
        BY <1>4, <1>5, <2>2, <3>1, <3>2 DEF PreTypeOK, Goes, Ends, officeVars
    <3>4. \A d \in Callers : call'[d].at # "office"
        BY <3>2
    <3>5. day' = day
        BY <2>2 DEF officeVars
    <3>6. QED
        BY <1>1, <1>3, <1>4, <1>5, <2>1, <2>2, <3>1, <3>2, <3>3, <3>4, <3>5, EndingKeeps DEF Ends
  <2>5. QED
      BY <2>3, <2>4
<1>7. CASE CloseEnds(c)
  <2>1. /\ call[c].at = "office" /\ Goes(c, "tells")
        /\ UNCHANGED <<armed, due, spent, spentDay, spentToday, sent>>
      BY <1>7 DEF CloseEnds, At
  <2>2. PICK status \in {"closing", "closed"} :
            Ends(i, status) /\ (ClosedSpot(job[i].ticker) \/ UNCHANGED officeVars)
      BY <1>4, <1>7 DEF CloseEnds
  <2>3. /\ spot' \in [Tickers -> Jobs \cup {Nothing, Another}] /\ UNCHANGED <<pair, day>>
      BY <2>2 DEF ClosedSpot, officeVars, PreTypeOK
  <2>4. /\ line' = line /\ call' \in [Callers -> Calls] /\ LineInv' /\ call'[c].at = "tells"
        /\ \A d \in Callers : d # c => call'[d].at \notin {"office", "tells"}
      BY <1>1, <2>1, GoingKeeps
  <2>5. PreTypeOK'
      BY <1>5, <2>1, <2>2, <2>3, <2>4 DEF PreTypeOK, Goes, Ends
  <2>6. \A d \in Callers : call'[d].at # "office"
      BY <2>4
  <2>7. log[i] = "open"
      BY <1>1, <2>1 DEF LogInv, LogOpen
  <2>8. QED
      BY <1>1, <1>3, <1>5, <2>1, <2>2, <2>3, <2>4, <2>5, <2>6, <2>7, EndingKeeps DEF Ends
<1>8. QED
    BY <1>6, <1>7

LEMMA PreStepKeeps ==
    ASSUME PreInv, PreNext
    PROVE  PreInv'
<1>1. CASE PreLoop
  <2>1. "loop" \in Callers
      BY DEF Callers
  <2>2. QED
      BY <1>1, <2>1, QuietSteps, LeavingSteps DEF PreLoop
<1>2. ASSUME NEW c \in Callers, Serves(c) PROVE PreInv'
    BY <1>2, LeavingSteps, EnteringSteps, ClosingSteps DEF Serves
<1>3. QED
    BY <1>1, <1>2, QuietSteps, ClockSteps DEF PreNext

\* A new process opens the jobs whose last record is open, and those are within the limits.
LEMMA ReloadingKeeps ==
    ASSUME PreInv, Reloaded, UNCHANGED officeVars
    PROVE  PreInv'
<1> USE DEF PreInv
<1>1. NoJob \in [ticker : Tickers \cup {0}, hedged : BOOLEAN, status : Statuses] /\ NoCall \in Calls
    BY DEF NoJob, NoCall, Calls, Statuses
<1>2. /\ job' \in [Jobs -> [ticker : Tickers \cup {0}, hedged : BOOLEAN, status : Statuses]]
      /\ \A i \in Jobs : log[i] = "open" => job'[i].ticker = job[i].ticker /\ job'[i].status = "open"
      /\ \A i \in Jobs : log[i] # "open" => job'[i].status # "open"
    BY <1>1 DEF Reloaded, PreTypeOK, NoJob, Statuses
<1>3. /\ call' \in [Callers -> Calls] /\ \A c \in Callers : call'[c] = NoCall
      /\ line' = <<>> /\ left' = {} /\ log' = log /\ due' = due /\ armed' \in BOOLEAN
      /\ spent' = 0 /\ spentDay' = day /\ spentToday' = 0 /\ day' = day
      /\ sent' \in [Jobs -> Nat] /\ \A i \in Jobs : sent'[i] = 0
      /\ spot' = spot /\ pair' = pair
    BY <1>1 DEF Reloaded, officeVars
<1>4. line' \in Seq(Callers) /\ Len(line') = 0
    BY <1>3
<1>5. day \in Nat
    BY OfficeAssumption DEF PreTypeOK
<1>6. PreTypeOK'
    BY <1>2, <1>3, <1>4, <1>5 DEF PreTypeOK
<1>7. LineInv'
    BY <1>3, <1>4, Closers DEF LineInv, NoCall
<1>8. LogOpen' = LogOpen /\ OpenJobs' = LogOpen
    BY <1>2, <1>3 DEF LogOpen, OpenJobs
<1>9. LogInv' /\ ClosedOnce'
    BY <1>3, <1>8 DEF LogInv, ClosedOnce, LogOpen, NoCall
<1>10. Account' = 0
    BY <1>3, <1>5 DEF Account
<1>11. \A i, j \in LogOpen' : job'[i].ticker = job'[j].ticker => i = j
    BY <1>2, <1>8 DEF RoomInv, LogOpen
<1>12. RoomInv'
    BY <1>3, <1>8, <1>10, <1>11, PreAssumption DEF RoomInv, NoCall
<1>13. QED
    BY <1>6, <1>7, <1>9, <1>12

LEMMA PreStarts ==
    ASSUME OfficeInit, PreInit
    PROVE  PreInv
<1>1. NoJob \in [ticker : Tickers \cup {0}, hedged : BOOLEAN, status : Statuses] /\ NoCall \in Calls
    BY DEF NoJob, NoCall, Calls, Statuses
<1>2. /\ line = <<>> /\ left = {} /\ due = {} /\ day = 0 /\ spent = 0 /\ spentDay = 0
      /\ spentToday = 0 /\ armed \in BOOLEAN
      /\ \A c \in Callers : call[c] = NoCall
      /\ \A i \in Jobs : job[i] = NoJob /\ log[i] = "none" /\ sent[i] = 0
    BY DEF OfficeInit, PreInit
<1>3. /\ call \in [Callers -> Calls] /\ log \in [Jobs -> Statuses] /\ sent \in [Jobs -> Nat]
      /\ job \in [Jobs -> [ticker : Tickers \cup {0}, hedged : BOOLEAN, status : Statuses]]
      /\ spot \in [Tickers -> Jobs \cup {Nothing, Another}] /\ pair \in [Tickers -> BOOLEAN]
    BY <1>1 DEF OfficeInit, PreInit, Statuses
<1>4. line \in Seq(Callers) /\ Len(line) = 0
    BY <1>2
<1>5. PreTypeOK
    BY <1>2, <1>3, <1>4, OfficeAssumption DEF PreTypeOK
<1>6. LineInv
    BY <1>2, <1>4, Closers DEF LineInv, NoCall
<1>7. LogOpen = {} /\ OpenJobs = {}
    BY <1>2 DEF LogOpen, OpenJobs, NoJob
<1>8. LogInv /\ ClosedOnce
    BY <1>2, <1>7 DEF LogInv, ClosedOnce, NoCall
<1>9. Account = 0
    BY <1>2 DEF Account
<1>10. RoomInv
    BY <1>2, <1>7, <1>9, FS_EmptySet, PreAssumption DEF RoomInv, NoCall
<1>11. QED
    BY <1>5, <1>6, <1>8, <1>10 DEF PreInv

-----------------------------------------------------------------------------
(* The notices of the hack detector and what it makes of them *)

\* What any step does to the hedge service's book.
OfficeMoves ==
    /\ spot' \in [Tickers -> Jobs \cup {Nothing, Another}]
    /\ pair' \in [Tickers -> BOOLEAN]
    /\ day' = day \/ (day' = day + 1 /\ day' \in 0..MaxDay)

LEMMA OfficeStays ==
    ASSUME PreTypeOK, UNCHANGED officeVars
    PROVE  OfficeMoves /\ day' = day
    BY DEF OfficeMoves, officeVars, PreTypeOK

\* A set of one notice stays one; who is in it is announced only by the loop it belongs to.
LEMMA FeedSteps ==
    ASSUME HackInv, PreTypeOK, NEW s \in Sources,
           Emits(s) \/ (\E n \in Notices : Ignores(s, n) \/ Detects(s, n))
    PROVE  HackInv' /\ OfficeMoves
<1> USE DEF HackInv
<1>1. Relevant \subseteq Notices
    BY DEF Relevant
<1>2. ASSUME NEW n \in Notices, Ignores(s, n) PROVE HackInv' /\ OfficeMoves
  <2>1. OfficeMoves /\ day' = day
      BY <1>2, OfficeStays DEF Ignores, officeVars
  <2>2. HackTypeOK'
      BY <1>2, <2>1 DEF Ignores, HackTypeOK, gateVars
  <2>3. FlightInv'
      BY <1>2 DEF Ignores, FlightInv, Entering, gateVars
  <2>4. FeedInv'
      BY <1>2 DEF Ignores, FeedInv
  <2>5. QED
      BY <2>1, <2>2, <2>3, <2>4
<1>3. ASSUME NEW n \in Notices, Detects(s, n) PROVE HackInv' /\ OfficeMoves
  <2>1. OfficeMoves /\ day' = day
      BY <1>3, OfficeStays DEF Detects, officeVars
  <2>2. /\ n \in Relevant /\ n \notin seen /\ From[n] = s
        /\ seen' = seen \cup {n} /\ telling' = [telling EXCEPT ![s] = {n}]
        /\ (disk' = seen' /\ torn' = torn) \/ (disk' = {} /\ torn' = TRUE)
        /\ emitted' = emitted
        /\ UNCHANGED <<live, confirm, task, gateVars, held, late, sweep, aborting, hits>>
      BY <1>3 DEF Detects
  <2>3. telling'[s] = {n} /\ \A x \in Sources : x # s => telling'[x] = telling[x]
      BY <2>2 DEF HackTypeOK
  <2>4. HackTypeOK'
    <3>1. telling' \in [Sources -> SUBSET Relevant]
        BY <2>2 DEF HackTypeOK
    <3>2. QED
        BY <1>1, <2>1, <2>2, <3>1 DEF HackTypeOK, gateVars
  <2>5. FlightInv'
      BY <2>2 DEF FlightInv, Entering, gateVars
  <2>6. \A x \in Sources, k \in Notices : k \in telling'[x] => From[k] = x /\ telling'[x] = {k}
      BY <2>2, <2>3 DEF FeedInv
  <2>7. ASSUME ~ torn', NEW k \in Relevant
        PROVE  /\ emitted'[k] > 0 => k \in seen' \cap disk'
               /\ \A x \in Sources : k \in telling'[x] => k \in seen' \cap disk' /\ emitted'[k] = 0
    <3>1. ~ torn /\ disk' = seen' /\ emitted[n] = 0
        BY <2>2, <2>7 DEF FeedInv, HackTypeOK
    <3>2. QED
        BY <2>2, <2>3, <2>7, <3>1 DEF FeedInv
  <2>8. QED
      BY <2>1, <2>4, <2>5, <2>6, <2>7 DEF FeedInv
<1>4. ASSUME Emits(s) PROVE HackInv' /\ OfficeMoves
  <2>1. OfficeMoves /\ day' = day
      BY <1>4, OfficeStays DEF Emits, officeVars
  <2>2. /\ emitted' = [n \in Relevant |-> IF n \in telling[s] THEN emitted[n] + 1 ELSE emitted[n]]
        /\ task' = [n \in Notices |-> IF n \in telling[s] THEN "new" ELSE task[n]]
        /\ telling' = [telling EXCEPT ![s] = {}] /\ UNCHANGED <<seen, disk, torn>>
        /\ UNCHANGED <<live, confirm, gateVars, held, late, sweep, aborting, hits>>
      BY <1>4 DEF Emits
  <2>3. telling'[s] = {} /\ \A x \in Sources : x # s => telling'[x] = telling[x]
      BY <2>2 DEF HackTypeOK
  <2>4. HackTypeOK'
    <3>1. telling' \in [Sources -> SUBSET Relevant] /\ emitted' \in [Relevant -> Nat]
        BY <2>2 DEF HackTypeOK
    <3>2. task' \in [Notices -> {"none", "new", "asks", "enters", "tells", "over"}]
        BY <2>2 DEF HackTypeOK
    <3>3. QED
        BY <2>1, <2>2, <3>1, <3>2 DEF HackTypeOK, gateVars
  <2>5. \A n \in Notices : task'[n] = "new" \/ task'[n] = task[n]
      BY <2>2
  <2>6. Entering' \subseteq Entering
      BY <2>5 DEF Entering
  <2>7. FlightInv'
      BY <2>2, <2>5, <2>6 DEF FlightInv, gateVars
  <2>8. \A x \in Sources, k \in Notices : k \in telling'[x] => From[k] = x /\ telling'[x] = {k}
      BY <2>3 DEF FeedInv
  <2>9. ASSUME ~ torn', NEW k \in Relevant
        PROVE  /\ emitted'[k] > 0 => k \in seen' \cap disk'
               /\ \A x \in Sources : k \in telling'[x] => k \in seen' \cap disk' /\ emitted'[k] = 0
    <3>1. CASE k \in telling[s]
      <4>1. k \in seen \cap disk /\ From[k] = s
          BY <1>1, <2>2, <2>9, <3>1 DEF FeedInv
      <4>2. \A x \in Sources : k \notin telling'[x]
          BY <1>1, <2>3, <4>1 DEF FeedInv
      <4>3. QED
          BY <2>2, <4>1, <4>2
    <3>2. CASE k \notin telling[s]
        BY <2>2, <2>3, <2>9, <3>2 DEF FeedInv
    <3>3. QED
        BY <3>1, <3>2
  <2>10. QED
      BY <2>1, <2>4, <2>7, <2>8, <2>9 DEF FeedInv
<1>5. QED
    BY <1>2, <1>3, <1>4

LEMMA HackCountRolls ==
    ASSUME HackTypeOK, PreTypeOK, day' = day, RollHackDay \/ UNCHANGED <<count, countDay>>
    PROVE  count' \in Nat /\ countDay' \in 0..day'
<1>1. day \in Nat
    BY OfficeAssumption DEF PreTypeOK
<1>2. QED
    BY <1>1 DEF RollHackDay, HackTypeOK

LEMMA MovingKeeps ==
    ASSUME HackTypeOK, NEW n \in Notices, NEW at \in {"asks", "enters", "tells", "over"}, Moves(n, at)
    PROVE  /\ task' \in [Notices -> {"none", "new", "asks", "enters", "tells", "over"}]
           /\ task'[n] = at /\ \A m \in Notices : m # n => task'[m] = task[m]
    BY DEF Moves, HackTypeOK

\* A task that ends its use of the notice, or asks first.
LEMMA IdleTaskSteps ==
    ASSUME HackInv, PreTypeOK, NEW n \in Notices, Skips(n) \/ Consults(n) \/ HackOver(n)
    PROVE  HackInv' /\ OfficeMoves
<1> USE DEF HackInv
<1>1. PICK at \in {"asks", "over"} :
          /\ Moves(n, at)
          /\ at = "asks" => confirm
          /\ \/ task[n] = "new" /\ UNCHANGED inflight
             \/ task[n] = "tells" /\ at = "over" /\ inflight' = inflight \ {About[n]}
          /\ RollHackDay \/ UNCHANGED <<count, countDay>>
    BY DEF Skips, Consults, HackOver
<1>2. UNCHANGED <<officeVars, live, confirm, feedVars, hot, held, late, sweep, aborting, hits>>
    BY DEF Skips, Consults, HackOver
<1>3. OfficeMoves /\ day' = day
    BY <1>2, OfficeStays DEF officeVars
<1>4. count' \in Nat /\ countDay' \in 0..day'
    BY <1>1, <1>3, HackCountRolls
<1>5. /\ task' \in [Notices -> {"none", "new", "asks", "enters", "tells", "over"}]
      /\ task'[n] = at /\ \A m \in Notices : m # n => task'[m] = task[m]
    BY <1>1, MovingKeeps
<1>6. HackTypeOK'
  <2>1. inflight' \subseteq Tickers
      BY <1>1 DEF HackTypeOK
  <2>2. QED
      BY <1>2, <1>4, <1>5, <2>1 DEF HackTypeOK, feedVars
<1>7. Entering' = Entering \ {n}
    BY <1>1, <1>5 DEF Entering
<1>8. ~ confirm => \A m \in Entering' : About[m] \in inflight'
  <2>1. CASE inflight' = inflight
      BY <1>7, <2>1 DEF FlightInv
  <2>2. CASE task[n] = "tells" /\ inflight' = inflight \ {About[n]}
    <3>1. n \in Entering
        BY <2>2 DEF Entering
    <3>2. QED
        BY <1>7, <2>2, <3>1 DEF FlightInv
  <2>3. QED
      BY <1>1, <2>1, <2>2
<1>9. FlightInv'
  <2>1. \A m \in Notices : /\ task'[m] = "asks" => confirm
                           /\ task'[m] = "enters" => ~ confirm /\ About[m] \notin hot
    <3> SUFFICES ASSUME NEW m \in Notices
                 PROVE  /\ task'[m] = "asks" => confirm
                        /\ task'[m] = "enters" => ~ confirm /\ About[m] \notin hot
        OBVIOUS
    <3>1. CASE m = n
        BY <1>1, <1>5, <3>1
    <3>2. CASE m # n
        BY <1>5, <3>2 DEF FlightInv
    <3>3. QED
        BY <3>1, <3>2
  <2>2. ~ confirm => \A k, m \in Entering' : About[m] = About[k] => m = k
      BY <1>7 DEF FlightInv
  <2>3. UNCHANGED <<confirm, hot, hits>>
      BY <1>2
  <2>4. QED
      BY <1>8, <2>1, <2>2, <2>3 DEF FlightInv
<1>10. FeedInv'
    BY <1>2 DEF FeedInv, feedVars
<1>11. QED
    BY <1>3, <1>6, <1>9, <1>10

\* Through the gates the ticker is in flight and not hot, so that nobody else is entering it.
LEMMA PassingSteps ==
    ASSUME HackInv, PreTypeOK, NEW n \in Notices, HackBegins(n) \/ HackDry(n)
    PROVE  HackInv' /\ OfficeMoves
<1> USE DEF HackInv
<1>1. PICK at \in {"enters", "tells"} :
          /\ Moves(n, at)
          /\ at = "enters" => ~ confirm /\ hot' = hot /\ held' = held
          /\ at = "tells" => hot' = hot \cup {About[n]} /\ held' = [held EXCEPT ![n] = "dry"]
          /\ task[n] \in {"new", "asks"} /\ inflight' = inflight \cup {About[n]}
          /\ task[n] = "asks" \/ (~ confirm /\ Passes(n))
          /\ at = "enters" => Passes(n)
    BY DEF HackBegins, HackDry
<1>2. /\ UNCHANGED <<officeVars, live, confirm, feedVars, late, sweep, aborting, hits>>
      /\ RollHackDay \/ UNCHANGED <<count, countDay>>
    BY DEF HackBegins, HackDry
<1>3. OfficeMoves /\ day' = day
    BY <1>2, OfficeStays DEF officeVars
<1>4. count' \in Nat /\ countDay' \in 0..day'
    BY <1>2, <1>3, HackCountRolls
<1>5. /\ task' \in [Notices -> {"none", "new", "asks", "enters", "tells", "over"}]
      /\ task'[n] = at /\ \A m \in Notices : m # n => task'[m] = task[m]
    BY <1>1, MovingKeeps
<1>6. About[n] \in Tickers
    BY HackAssumption
<1>7. HackTypeOK'
  <2>1. inflight' \subseteq Tickers /\ hot' \subseteq Tickers
      BY <1>1, <1>6 DEF HackTypeOK
  <2>2. held' \in [Notices -> {"none", "dry", "live"}]
      BY <1>1 DEF HackTypeOK
  <2>3. QED
      BY <1>2, <1>4, <1>5, <2>1, <2>2 DEF HackTypeOK, feedVars
<1>8. Entering' = Entering \cup {n}
    BY <1>1, <1>5 DEF Entering
<1>9. ~ confirm => Passes(n) /\ \A m \in Entering : About[m] # About[n]
    BY <1>1 DEF FlightInv, Passes
<1>10. \A m \in Notices : /\ task'[m] = "asks" => confirm'
                          /\ task'[m] = "enters" => ~ confirm' /\ About[m] \notin hot'
  <2> SUFFICES ASSUME NEW m \in Notices
               PROVE  /\ task'[m] = "asks" => confirm'
                      /\ task'[m] = "enters" => ~ confirm' /\ About[m] \notin hot'
      OBVIOUS
  <2>1. CASE m = n
      BY <1>1, <1>2, <1>5, <2>1 DEF Passes
  <2>2. CASE m # n
    <3>1. task'[m] = task[m]
        BY <1>5, <2>2
    <3>2. task[m] = "enters" => ~ confirm /\ About[m] \notin hot /\ m \in Entering
        BY DEF FlightInv, Entering
    <3>3. task[m] = "asks" => confirm
        BY DEF FlightInv
    <3>4. QED
        BY <1>1, <1>2, <1>9, <3>1, <3>2, <3>3
  <2>3. QED
      BY <2>1, <2>2
<1>11. ~ confirm' => \A k \in Entering' :
          /\ About[k] \in inflight'
          /\ \A m \in Entering' : About[m] = About[k] => m = k
    BY <1>1, <1>2, <1>8, <1>9 DEF FlightInv
<1>12. \A t \in Tickers : hits'[t] <= 1 /\ (hits'[t] > 0 => t \in hot')
    BY <1>1, <1>2 DEF FlightInv
<1>13. FlightInv'
    BY <1>10, <1>11, <1>12 DEF FlightInv
<1>14. FeedInv'
    BY <1>2 DEF FeedInv, feedVars
<1>15. QED
    BY <1>3, <1>7, <1>13, <1>14

\* The one task that enters a ticker finds it out of its cooldown still.
LEMMA EntersOnce ==
    ASSUME HackInv, PreTypeOK, NEW n \in Notices, HackEnds(n)
    PROVE  HackInv' /\ OfficeMoves
<1> USE DEF HackInv
<1>1. /\ task[n] = "enters" /\ Moves(n, "tells") /\ ~ confirm /\ About[n] \notin hot
      /\ UNCHANGED <<live, confirm, feedVars, inflight, countDay, late, sweep, aborting>>
    BY DEF HackEnds, FlightInv
<1>2. /\ task' \in [Notices -> {"none", "new", "asks", "enters", "tells", "over"}]
      /\ task'[n] = "tells" /\ \A m \in Notices : m # n => task'[m] = task[m]
    BY <1>1, MovingKeeps
<1>3. About[n] \in Tickers
    BY HackAssumption
<1>4. hits[About[n]] = 0
    BY <1>1, <1>3 DEF FlightInv, HackTypeOK
<1>5. /\ count' \in Nat /\ held' \in [Notices -> {"none", "dry", "live"}]
      /\ hits' \in [Tickers -> Nat]
    BY DEF HackEnds, HackTypeOK
<1>6. /\ hot' \subseteq hot \cup {About[n]} /\ hot' \subseteq Tickers
      /\ \A t \in Tickers : hits'[t] <= 1 /\ (hits'[t] > 0 => t \in hot')
  <2>1. CASE hot' = hot \cup {About[n]} /\ hits' = [hits EXCEPT ![About[n]] = @ + 1]
      BY <1>3, <1>4, <2>1 DEF FlightInv, HackTypeOK
  <2>2. CASE hot' = hot /\ hits' = hits
      BY <2>2 DEF FlightInv, HackTypeOK
  <2>3. QED
      BY <2>1, <2>2 DEF HackEnds
<1>7. OfficeMoves /\ day' = day
  <2>1. CASE Entered(About[n], Another)
      BY <1>3, <2>1 DEF Entered, OfficeMoves, PreTypeOK
  <2>2. CASE UNCHANGED officeVars
      BY <2>2, OfficeStays
  <2>3. QED
      BY <2>1, <2>2 DEF HackEnds
<1>8. HackTypeOK'
    BY <1>1, <1>2, <1>5, <1>6, <1>7 DEF HackTypeOK, feedVars
<1>9. Entering' = Entering /\ n \in Entering
    BY <1>1, <1>2 DEF Entering
<1>10. \A m \in Notices : task'[m] = "enters" => m # n /\ About[m] # About[n]
    BY <1>1, <1>2, <1>9 DEF FlightInv, Entering
<1>11. FlightInv'
    BY <1>1, <1>2, <1>6, <1>9, <1>10 DEF FlightInv
<1>12. FeedInv'
    BY <1>1 DEF FeedInv, feedVars
<1>13. QED
    BY <1>7, <1>8, <1>11, <1>12

\* The rest moves no task.
LEMMA StandingSteps ==
    ASSUME HackInv, PreTypeOK,
           \/ \E t \in Tickers : Cooled(t)
           \/ Sweeps \/ HackStatus \/ (\E n \in Notices : Lates(n))
           \/ (\E c \in Aborters : Aborted(c) \/ \E n \in Notices : Aborts(c, n))
    PROVE  HackInv' /\ OfficeMoves
<1> USE DEF HackInv
<1>1. UNCHANGED <<live, confirm, feedVars, task, inflight>>
    BY DEF Cooled, Sweeps, HackStatus, Lates, Aborted, Aborts, gateVars
<1>2. OfficeMoves /\ day' = day
  <2>1. ASSUME UNCHANGED officeVars PROVE OfficeMoves /\ day' = day
      BY <2>1, OfficeStays
  <2>2. ASSUME NEW n \in Notices, ClosedSpot(About[n]) \/ ClosedPair(About[n])
        PROVE  OfficeMoves /\ day' = day
      BY <2>2 DEF ClosedSpot, ClosedPair, OfficeMoves, PreTypeOK
  <2>3. ASSUME NEW c \in Aborters, Aborted(c), aborting[c] # {}
        PROVE  OfficeMoves /\ day' = day
    <3>1. PICK n \in aborting[c] : ClosedSpot(About[n]) \/ ClosedPair(About[n]) \/ UNCHANGED officeVars
        BY <2>3 DEF Aborted
    <3>2. n \in Notices
        BY <3>1 DEF HackTypeOK
    <3>3. QED
        BY <2>1, <2>2, <3>1, <3>2
  <2>4. ASSUME NEW c \in Aborters, Aborted(c) PROVE aborting[c] # {}
      BY <2>4 DEF Aborted
  <2>5. QED
      BY <2>1, <2>3, <2>4 DEF Cooled, Sweeps, HackStatus, Lates, Aborts
<1>3. /\ held' \in [Notices -> {"none", "dry", "live"}] /\ late' \subseteq Notices
      /\ sweep' \subseteq late' /\ aborting' \in [Aborters -> SUBSET Notices]
  <2>1. CASE \E c \in Aborters : Aborted(c)
    <3>1. PICK c \in Aborters : Aborted(c)
        BY <2>1
    <3>2. held' = held \/ \E n \in Notices : held' = [held EXCEPT ![n] = "none"]
        BY <3>1 DEF Aborted, HackTypeOK
    <3>3. /\ aborting' = [aborting EXCEPT ![c] = {}] /\ late' = late /\ sweep' = sweep
        BY <3>1 DEF Aborted
    <3>4. QED
        BY <3>2, <3>3 DEF HackTypeOK
  <2>2. CASE \E c \in Aborters, n \in Notices : Aborts(c, n)
    <3>1. PICK c \in Aborters, n \in Notices : Aborts(c, n)
        BY <2>2
    <3>2. held' = [held EXCEPT ![n] = IF @ = "dry" THEN "none" ELSE @]
        BY <3>1 DEF Aborts
    <3>3. aborting' = [aborting EXCEPT ![c] = IF held[n] = "live" THEN {n} ELSE {}]
        BY <3>1 DEF Aborts
    <3>4. late' = late /\ sweep' \subseteq sweep
        BY <3>1 DEF Aborts
    <3>5. held' \in [Notices -> {"none", "dry", "live"}]
        BY <3>2 DEF HackTypeOK
    <3>6. QED
        BY <3>3, <3>4, <3>5 DEF HackTypeOK
  <2>3. CASE \/ \E t \in Tickers : Cooled(t)
             \/ Sweeps \/ HackStatus \/ (\E n \in Notices : Lates(n))
      BY <2>3 DEF Cooled, Sweeps, HackStatus, Lates, HackTypeOK
  <2>4. QED
      BY <2>1, <2>2, <2>3
<1>4. count' \in Nat /\ countDay' \in 0..day'
  <2>1. RollHackDay \/ UNCHANGED <<count, countDay>>
      BY DEF Cooled, Sweeps, HackStatus, Lates, Aborted, Aborts, gateVars
  <2>2. QED
      BY <1>2, <2>1, HackCountRolls
<1>5. /\ hot' \subseteq hot /\ hits' \in [Tickers -> Nat]
      /\ \A t \in Tickers : hits'[t] <= 1 /\ (hits'[t] > 0 => t \in hot')
  <2>1. ASSUME NEW t \in Tickers, Cooled(t)
        PROVE  /\ hot' \subseteq hot /\ hits' \in [Tickers -> Nat]
               /\ \A x \in Tickers : hits'[x] <= 1 /\ (hits'[x] > 0 => x \in hot')
      BY <2>1 DEF Cooled, FlightInv, HackTypeOK
  <2>2. (\E t \in Tickers : Cooled(t)) \/ (hot' = hot /\ hits' = hits)
      BY DEF Sweeps, HackStatus, Lates, Aborted, Aborts, gateVars
  <2>3. QED
      BY <2>1, <2>2 DEF FlightInv, HackTypeOK
<1>6. HackTypeOK'
    BY <1>1, <1>3, <1>4, <1>5 DEF HackTypeOK, feedVars
<1>7. Entering' = Entering
    BY <1>1 DEF Entering
<1>8. FlightInv'
    BY <1>1, <1>5, <1>7 DEF FlightInv
<1>9. FeedInv'
    BY <1>1 DEF FeedInv, feedVars
<1>10. QED
    BY <1>2, <1>6, <1>8, <1>9

\* Nothing of the detector depends on the book or, but for the count, on the day.
LEMMA HackIdles ==
    ASSUME HackInv, PreTypeOK, UNCHANGED hackVars, day' = day \/ day' = day + 1
    PROVE  HackInv'
<1> USE DEF HackInv
<1>1. day \in Nat
    BY OfficeAssumption DEF PreTypeOK
<1>2. HackTypeOK'
    BY <1>1 DEF HackTypeOK, hackVars, feedVars, gateVars
<1>3. FlightInv' /\ FeedInv'
    BY DEF FlightInv, Entering, FeedInv, hackVars, feedVars, gateVars
<1>4. QED
    BY <1>2, <1>3

LEMMA HackStepKeeps ==
    ASSUME HackInv, PreTypeOK, HackNext
    PROVE  HackInv' /\ OfficeMoves
<1>1. CASE Midnight /\ UNCHANGED hackVars
  <2>1. OfficeMoves /\ day' = day + 1
      BY <1>1, OfficeAssumption DEF Midnight, OfficeMoves, PreTypeOK
  <2>2. QED
      BY <1>1, <2>1, HackIdles
<1>2. ASSUME NEW t \in Tickers, OthersHedge(t) \/ OthersPair(t), UNCHANGED hackVars
      PROVE  HackInv' /\ OfficeMoves
  <2>1. OfficeMoves /\ day' = day
      BY <1>2 DEF OthersHedge, OthersPair, Entered, ClosedSpot, OfficeMoves, PreTypeOK
  <2>2. QED
      BY <1>2, <2>1, HackIdles
<1>3. QED
    BY <1>1, <1>2, FeedSteps, IdleTaskSteps, PassingSteps, EntersOnce, StandingSteps DEF HackNext

\* A new process has no tasks; what it has seen is what was saved.
LEMMA RebornKeeps ==
    ASSUME HackInv, PreTypeOK, Reborn, UNCHANGED officeVars
    PROVE  HackInv'
<1> USE DEF HackInv
<1>1. /\ live' \in BOOLEAN /\ confirm' \in BOOLEAN /\ seen' = disk /\ disk' = disk
      /\ emitted' = emitted /\ torn' = torn
      /\ telling' \in [Sources -> SUBSET Relevant] /\ \A s \in Sources : telling'[s] = {}
      /\ hot' = {} /\ inflight' = {} /\ count' = 0 /\ countDay' = day /\ day' = day
      /\ late' = {} /\ sweep' = {} /\ aborting' \in [Aborters -> SUBSET Notices]
      /\ \A n \in Notices : task'[n] = "none"
      /\ \A t \in Tickers : hits'[t] = 0
    BY DEF Reborn, officeVars
<1>2. /\ task' \in [Notices -> {"none", "new", "asks", "enters", "tells", "over"}]
      /\ held' \in [Notices -> {"none", "dry", "live"}] /\ hits' \in [Tickers -> Nat]
    BY DEF Reborn
<1>3. day \in Nat
    BY OfficeAssumption DEF PreTypeOK
<1>4. HackTypeOK'
    BY <1>1, <1>2, <1>3 DEF HackTypeOK
<1>5. FlightInv' /\ FeedInv'
    BY <1>1 DEF FlightInv, Entering, FeedInv
<1>6. QED
    BY <1>4, <1>5

LEMMA HackStarts ==
    ASSUME OfficeInit, HackInit
    PROVE  HackInv
<1>1. /\ telling \in [Sources -> SUBSET Relevant] /\ aborting \in [Aborters -> SUBSET Notices]
      /\ task \in [Notices -> {"none", "new", "asks", "enters", "tells", "over"}]
      /\ held \in [Notices -> {"none", "dry", "live"}] /\ hits \in [Tickers -> Nat]
      /\ emitted \in [Relevant -> Nat]
    BY DEF HackInit
<1>2. /\ count \in Nat /\ countDay \in 0..day
      /\ seen = {} /\ disk = {} /\ hot = {} /\ inflight = {} /\ late = {} /\ sweep = {}
      /\ live \in BOOLEAN /\ confirm \in BOOLEAN /\ torn \in BOOLEAN
  <2>1. count = 0 /\ countDay = 0 /\ day = 0
      BY DEF OfficeInit, HackInit
  <2>2. count \in Nat /\ countDay \in 0..day
      BY <2>1
  <2>3. QED
      BY <2>2 DEF HackInit
<1>3. HackTypeOK
    BY <1>1, <1>2 DEF HackTypeOK
<1>4. FlightInv /\ FeedInv
    BY DEF HackInit, FlightInv, Entering, FeedInv
<1>5. QED
    BY <1>3, <1>4 DEF HackInv

-----------------------------------------------------------------------------
(* The strategies together *)

\* While the other strategy runs, the pre-position hedge has spent nothing that midnight
\* would have to forget.
LEMMA PreIdles ==
    ASSUME PreInv, UNCHANGED preVars, OfficeMoves, spentToday = 0
    PROVE  PreInv'
<1> USE DEF PreInv
<1>1. UNCHANGED <<armed, line, call, left, job, log, due, spent, spentDay, spentToday, sent>>
    BY DEF preVars
<1>2. day \in Nat /\ day' \in 0..MaxDay
    BY OfficeAssumption DEF PreTypeOK, OfficeMoves
<1>3. PreTypeOK' /\ LineInv'
    BY <1>1, <1>2 DEF OfficeMoves, PreTypeOK, LineInv, Has
<1>4. Account \in Nat /\ (Account' = Account \/ Account' = 0)
    BY <1>1, <1>2 DEF Account, PreTypeOK, OfficeMoves
<1>5. OpenJobs' = OpenJobs /\ LogOpen' = LogOpen
    BY <1>1 DEF OpenJobs, LogOpen
<1>6. LogInv' /\ ClosedOnce'
    BY <1>1, <1>5 DEF LogInv, ClosedOnce
<1>7. /\ Account < DayCap => Account' < DayCap
      /\ Account <= DayCap => Account' <= DayCap /\ 0 <= Account'
    BY <1>4, PreAssumption
<1>8. RoomInv'
    BY <1>1, <1>5, <1>7 DEF RoomInv
<1>9. QED
    BY <1>3, <1>6, <1>8

LEMMA ClientsStepKeeps ==
    ASSUME ClientsInv, [Next]_vars
    PROVE  ClientsInv'
<1> USE DEF ClientsInv
<1>1. PreTypeOK
    BY DEF PreInv
<1>2. CASE who = "pre" /\ PreNext /\ UNCHANGED <<hackVars, who, crashes>>
  <2>1. PreInv'
      BY <1>2, PreStepKeeps
  <2>2. day' = day \/ day' = day + 1
      BY <1>2 DEF PreNext, PreLoop, LoopWakes, LoopLists, LoopChecks, PreStatus, PreMidnight,
           Midnight, Serves, EnterRefused, EnterBegins, EnterEnds, Entered, CloseMissed,
           CloseBegins, CloseEnds, ClosedSpot, Told, UserEnters, UserExits, Overdue, OthersHedge,
           officeVars
  <2>3. HackInv'
      BY <1>1, <1>2, <2>2, HackIdles
  <2>4. QED
      BY <1>2, <2>1, <2>3
<1>3. CASE who = "hack" /\ HackNext /\ UNCHANGED <<preVars, who, crashes>>
  <2>1. HackInv' /\ OfficeMoves
      BY <1>1, <1>3, HackStepKeeps
  <2>2. PreInv'
      BY <1>3, <2>1, PreIdles
  <2>3. QED
      BY <1>3, <2>1, <2>2 DEF preVars
<1>4. CASE Crash
  <2>1. CASE who = "pre"
    <3>1. Reloaded /\ UNCHANGED officeVars /\ UNCHANGED hackVars /\ who' = who
        BY <1>4, <2>1 DEF Crash
    <3>2. PreInv'
        BY <3>1, ReloadingKeeps
    <3>3. HackInv'
        BY <1>1, <3>1, HackIdles DEF officeVars
    <3>4. QED
        BY <2>1, <3>1, <3>2, <3>3
  <2>2. CASE who # "pre"
    <3>1. Reborn /\ UNCHANGED officeVars /\ UNCHANGED preVars /\ who' = who
        BY <1>4, <2>2 DEF Crash
    <3>2. HackInv'
        BY <1>1, <3>1, RebornKeeps
    <3>3. PreInv'
        BY <1>1, <2>2, <3>1, PreIdles, OfficeStays
    <3>4. QED
        BY <2>2, <3>1, <3>2, <3>3 DEF preVars
  <2>3. QED
      BY <2>1, <2>2
<1>5. CASE UNCHANGED vars
  <2>1. UNCHANGED officeVars /\ UNCHANGED preVars /\ UNCHANGED hackVars /\ who' = who
      BY <1>5 DEF vars
  <2>2. HackInv'
      BY <1>1, <2>1, HackIdles DEF officeVars
  <2>3. PreInv'
    <3>1. PreTypeOK' /\ LineInv' /\ Account' = Account
        BY <1>1, <2>1 DEF PreInv, preVars, officeVars, PreTypeOK, LineInv, Has, Account
    <3>2. QED
        BY <2>1, <3>1, QuietKeeps DEF preVars
  <2>4. QED
      BY <2>1, <2>2, <2>3 DEF preVars
<1>6. QED
    BY <1>2, <1>3, <1>4, <1>5 DEF Next

\* The inductive invariant of the two strategies: only the head of the line is past the wait,
\* the room that it found is there until it is through, what a restart would open is within
\* the limits as well, whatever enters a ticker is alone in flight and finds it out of its
\* cooldown, and a notice is saved before it is announced.
THEOREM ClientsInvHolds == Spec => []ClientsInv
<1>1. Init => ClientsInv
    BY PreStarts, HackStarts DEF Init, ClientsInv, PreInit
<1>2. ClientsInv /\ [Next]_vars => ClientsInv'
    BY ClientsStepKeeps
<1>3. QED
    BY <1>1, <1>2, PTL DEF Spec

\* Every variable of the strategies has its type.
THEOREM TypeOKHolds == Spec => []TypeOK
<1> DEFINE Counted == who \in Runs /\ crashes \in 0..MaxCrashes
<1>1. Init => Counted
    BY ClientsAssumption DEF Init
<1>2. Counted /\ [Next]_vars => Counted'
    BY ClientsAssumption DEF Next, Crash, vars
<1>3. ClientsInv /\ Counted => TypeOK
    BY DEF ClientsInv, PreInv, HackInv, TypeOK
<1>4. QED
    BY <1>1, <1>2, <1>3, ClientsInvHolds, PTL DEF Spec

\* The pre-position hedge stays within max_open, one job of a ticker and the daily cap, for
\* any users, jobs and limits: entries ask the gates and record what they did under one lock.
THEOREM PreWithinHolds == Spec => []PreWithin
<1>1. ClientsInv => PreWithin
  <2> SUFFICES ASSUME ClientsInv PROVE PreWithin
      OBVIOUS
  <2>1. OpenJobs \subseteq LogOpen
      BY DEF ClientsInv, PreInv, LogInv, LogOpen, OpenJobs
  <2>2. /\ IsFiniteSet(OpenJobs) /\ Cardinality(OpenJobs) <= Cardinality(LogOpen)
        /\ Cardinality(OpenJobs) \in Nat /\ Cardinality(LogOpen) \in Nat
      BY <2>1, FS_Subset, FS_CardinalityType DEF ClientsInv, PreInv, RoomInv
  <2>3. Account \in Nat /\ spentToday \in Nat
      BY DEF Account, ClientsInv, PreInv, PreTypeOK
  <2>4. QED
      BY <2>1, <2>2, <2>3, PreAssumption DEF ClientsInv, PreInv, RoomInv, PreWithin
<1>2. QED
    BY <1>1, ClientsInvHolds, PTL

\* A process asks for the close of a job once, however the loop and any number of users meet
\* at the lock.
THEOREM ClosedOnceHolds == Spec => []ClosedOnce
<1>1. ClientsInv => ClosedOnce
    BY DEF ClientsInv, PreInv
<1>2. QED
    BY <1>1, ClientsInvHolds, PTL

\* A process enters a ticker once per cooldown, however many sources have news of it at once.
THEOREM HackedOnceHolds == Spec => []HackedOnce
<1>1. ClientsInv => HackedOnce
    BY DEF ClientsInv, HackInv, FlightInv, HackedOnce
<1>2. QED
    BY <1>1, ClientsInvHolds, PTL

\* Every step of the strategies is a step of what a feed promises its listeners, or none.
LEMMA StepsKeepFeed ==
    ASSUME ClientsInv, [Next]_vars
    PROVE  [Feed!Next]_<<emitted, torn>>
<1> USE DEF ClientsInv, HackInv
<1>1. ASSUME NEW s \in Sources, Emits(s) PROVE [Feed!Next]_<<emitted, torn>>
  <2>1. PICK n \in Notices : n \in telling[s] /\ n \in Relevant
      BY <1>1 DEF Emits, HackTypeOK, Relevant
  <2>2. telling[s] = {n}
      BY <2>1 DEF FeedInv
  <2>3. emitted' = [emitted EXCEPT ![n] = @ + 1] /\ torn' = torn
    <3>1. /\ emitted' = [k \in Relevant |-> IF k \in telling[s] THEN emitted[k] + 1 ELSE emitted[k]]
          /\ torn' = torn
        BY <1>1 DEF Emits
    <3>2. QED
        BY <2>1, <2>2, <3>1 DEF HackTypeOK
  <2>4. torn \/ emitted[n] = 0
      BY <2>1 DEF FeedInv
  <2>5. QED
      BY <2>1, <2>3, <2>4 DEF Feed!Next, Feed!Announce
<1>2. ASSUME NEW s \in Sources, NEW n \in Notices, Detects(s, n)
      PROVE  [Feed!Next]_<<emitted, torn>>
    BY <1>2 DEF Detects, Feed!Next, Feed!Tear
<1>3. ASSUME HackNext, UNCHANGED <<emitted, torn>> PROVE [Feed!Next]_<<emitted, torn>>
    BY <1>3
<1>4. CASE HackNext
  <2>1. ASSUME NEW s \in Sources, NEW n \in Notices, Ignores(s, n)
        PROVE UNCHANGED <<emitted, torn>>
      BY <2>1 DEF Ignores
  <2>2. ASSUME NEW n \in Notices,
               \/ Skips(n) \/ Consults(n) \/ HackBegins(n) \/ HackDry(n) \/ HackEnds(n) \/ HackOver(n)
               \/ Lates(n) \/ \E c \in Aborters : Aborts(c, n)
        PROVE UNCHANGED <<emitted, torn>>
      BY <2>2 DEF Skips, Consults, HackBegins, HackDry, HackEnds, HackOver, Lates, Aborts, feedVars
  <2>3. ASSUME \/ \E t \in Tickers : Cooled(t)
               \/ Sweeps \/ HackStatus \/ (\E c \in Aborters : Aborted(c)) \/ UNCHANGED hackVars
        PROVE UNCHANGED <<emitted, torn>>
      BY <2>3 DEF Cooled, Sweeps, HackStatus, Aborted, feedVars, hackVars
  <2>4. QED
      BY <1>1, <1>2, <1>4, <2>1, <2>2, <2>3 DEF HackNext
<1>5. CASE UNCHANGED hackVars \/ Reborn
    BY <1>5 DEF hackVars, feedVars, Reborn
<1>6. QED
    BY <1>4, <1>5 DEF Next, Crash, vars

\* A notice becomes one task, whatever crashes and restarts, until the file of seen ids is
\* truncated: the hack detector implements ListingFeed.
THEOREM NoticedOnceHolds == Spec => NoticedOnce
<1>1. Init => Feed!Init
    BY DEF Init, HackInit, Feed!Init
<1>2. ClientsInv /\ [Next]_vars => [Feed!Next]_<<emitted, torn>>
    BY StepsKeepFeed
<1>3. QED
    BY <1>1, <1>2, ClientsInvHolds, PTL DEF Spec, NoticedOnce, Feed!Spec
=============================================================================
