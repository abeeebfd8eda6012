--------------------------- MODULE HedgeFF_proofs ---------------------------
(***************************************************************************)
(* Pairs of futures, for any callers, tickers, venues and lots, however    *)
(* the orders fill and whatever their replies leave out: a pair is opened  *)
(* only beside nothing, the service implements the book of hedges, and     *)
(* what a job's record says is never less than what its orders have left.  *)
(***************************************************************************)
EXTENDS HedgeFF, TLAPS

-----------------------------------------------------------------------------
(* The amounts *)

LEMMA MaxOfTwo ==
    ASSUME NEW a \in Int, NEW b \in Int
    PROVE  Max({a, b}) = IF a >= b THEN a ELSE b
<1>1. \E x \in {a, b} : \A y \in {a, b} : x >= y
  <2>1. CASE a >= b
      BY <2>1
  <2>2. CASE b >= a
      BY <2>2
  <2>3. QED
      BY <2>1, <2>2
<1>2. Max({a, b}) \in {a, b} /\ \A y \in {a, b} : Max({a, b}) >= y
    BY <1>1 DEF Max
<1>3. QED
    BY <1>2

LEMMA MinOfTwo ==
    ASSUME NEW a \in Int, NEW b \in Int
    PROVE  Min({a, b}) = IF a <= b THEN a ELSE b
<1>1. \E x \in {a, b} : \A y \in {a, b} : x <= y
  <2>1. CASE a <= b
      BY <2>1
  <2>2. CASE b <= a
      BY <2>2
  <2>3. QED
      BY <2>1, <2>2
<1>2. Min({a, b}) \in {a, b} /\ \A y \in {a, b} : Min({a, b}) <= y
    BY <1>1 DEF Min
<1>3. QED
    BY <1>2

LEMMA MaxOfOne == ASSUME NEW a \in Int PROVE Max({a}) = a
<1>1. \E x \in {a} : \A y \in {a} : x >= y
    OBVIOUS
<1>2. Max({a}) \in {a}
    BY <1>1 DEF Max
<1>3. QED
    BY <1>2

LEMMA AboveIs ==
    ASSUME NEW x \in Int
    PROVE  Above(x) = (IF x > 0 THEN x ELSE 0) /\ Above(x) \in Nat
    BY MaxOfTwo DEF Above

\* What is normal to a venue is not more than what was asked.
LEMMA NormIs ==
    ASSUME NEW v \in Venues, NEW q \in Nat
    PROVE  Norm(v, q) \in 0..q
<1>1. Lot[v] \in Nat /\ Lot[v] > 0
    BY FFAssumption
<1>2. q % Lot[v] \in 0..q
    BY <1>1
<1>3. QED
    BY <1>2 DEF Norm

LEMMA LegsAre ==
    /\ Legs = {"long", "short"} /\ "long" # "short"
    /\ \A leg \in Legs : Other(leg) \in Legs /\ Other(leg) # leg /\ Other(Other(leg)) = leg
    BY DEF Legs, Other

LEMMA ZeroIs ==
    /\ Zero \in Amounts /\ \A leg \in Legs : Zero[leg] = 0
    /\ \A a \in Amounts : a = Zero <=> \A leg \in Legs : a[leg] = 0
    BY DEF Zero, Amounts

LEMMA LessIs ==
    ASSUME NEW a \in Amounts, NEW b \in Amounts
    PROVE  /\ Less(a, b) \in Amounts
           /\ \A leg \in Legs : Less(a, b)[leg] = IF a[leg] > b[leg] THEN a[leg] - b[leg] ELSE 0
<1>1. \A leg \in Legs : /\ a[leg] \in Nat /\ b[leg] \in Nat
                        /\ Above(a[leg] - b[leg]) \in Nat
                        /\ Above(a[leg] - b[leg]) = IF a[leg] > b[leg] THEN a[leg] - b[leg] ELSE 0
  <2> SUFFICES ASSUME NEW leg \in Legs
               PROVE  /\ a[leg] \in Nat /\ b[leg] \in Nat
                      /\ Above(a[leg] - b[leg]) \in Nat
                      /\ Above(a[leg] - b[leg]) = IF a[leg] > b[leg] THEN a[leg] - b[leg] ELSE 0
      OBVIOUS
  <2>1. a[leg] \in Nat /\ b[leg] \in Nat
      BY DEF Amounts
  <2>2. a[leg] - b[leg] \in Int
      BY <2>1
  <2>3. QED
      BY <2>1, <2>2, AboveIs
<1>2. QED
    BY <1>1 DEF Less, Amounts

\* What is undone of a leg is not more than what it filled beyond the other.
LEMMA UndoIs ==
    ASSUME NEW on \in Pairs, NEW got \in Amounts
    PROVE  /\ Undo(on, got) \in Amounts
           /\ \A leg \in Legs : Undo(on, got)[leg] <=
                  IF got[leg] > got[Other(leg)] THEN got[leg] - got[Other(leg)] ELSE 0
<1>1. ASSUME NEW leg \in Legs
      PROVE  Norm(on[leg], Above(got[leg] - got[Other(leg)])) \in
                 0..(IF got[leg] > got[Other(leg)] THEN got[leg] - got[Other(leg)] ELSE 0)
  <2>1. got[leg] \in Nat /\ got[Other(leg)] \in Nat /\ on[leg] \in Venues
      BY LegsAre DEF Amounts, Pairs
  <2>2. got[leg] - got[Other(leg)] \in Int
      BY <2>1
  <2>3. /\ Above(got[leg] - got[Other(leg)]) \in Nat
        /\ Above(got[leg] - got[Other(leg)]) =
               IF got[leg] > got[Other(leg)] THEN got[leg] - got[Other(leg)] ELSE 0
      BY <2>1, <2>2, AboveIs
  <2>4. QED
      BY <2>1, <2>3, NormIs
<1>2. \A leg \in Legs : got[leg] \in Nat /\ got[Other(leg)] \in Nat
    BY LegsAre DEF Amounts
<1>3. QED
    BY <1>1, <1>2 DEF Undo, Amounts

-----------------------------------------------------------------------------
(* The lock and its line *)

Past == {"prices", "orders", "undo", "close"}

LEMMA OnePast ==
    ASSUME TypeOK, LineInv, NEW c \in Callers, call[c].at \in Past
    PROVE  /\ Len(line) >= 1 /\ line[1] = c
           /\ \A d \in Callers : d # c => call[d].at \notin Past
    BY DEF LineInv, TypeOK, Past

Call == [at : {"idle", "lock", "prices", "orders", "undo", "close"},
         op : {"enter", "close"}, ticker : Tickers \cup {None},
         on : [Legs -> Venues \cup {None}], job : Nat,
         due : Amounts, got : Amounts, back : Amounts]

LEMMA IdleIs ==
    /\ Idle \in Call /\ Idle.at = "idle" /\ Idle.due = Zero /\ Idle.got = Zero /\ Idle.back = Zero
    BY ZeroIs DEF Idle, Call

LEMMA AskingKeeps ==
    ASSUME TypeOK, LineInv, NEW c \in Callers, NEW op \in {"enter", "close"}, NEW t \in Tickers,
           NEW on \in [Legs -> Venues \cup {None}], Asks(c, op, t, on)
    PROVE  /\ line' \in Seq(Callers) /\ call' \in [Callers -> Call] /\ LineInv'
           /\ \A d \in Callers : d # c => call'[d] = call[d]
           /\ call'[c].at = "lock" /\ call'[c].op = op /\ call'[c].ticker = t /\ call'[c].on = on
           /\ call'[c].due = Zero /\ call'[c].got = Zero /\ call'[c].back = Zero
<1> DEFINE new == [Idle EXCEPT !.at = "lock", !.op = op, !.ticker = t, !.on = on]
<1>1. /\ new \in Call /\ new.at = "lock" /\ new.op = op /\ new.ticker = t /\ new.on = on
      /\ new.due = Zero /\ new.got = Zero /\ new.back = Zero
    BY ZeroIs DEF Idle, Call
<1>2. call' = [call EXCEPT ![c] = new] /\ line' = Append(line, c) /\ call[c].at = "idle"
    BY DEF Asks
<1>3. call \in [Callers -> Call]
    BY DEF TypeOK, Call
<1>4. /\ call' \in [Callers -> Call] /\ call'[c] = new /\ line' \in Seq(Callers)
      /\ \A d \in Callers : d # c => call'[d] = call[d]
    BY <1>1, <1>2, <1>3 DEF TypeOK
<1>5. /\ Len(line) \in Nat /\ Len(line') = Len(line) + 1 /\ line'[Len(line) + 1] = c
      /\ \A k \in 1..Len(line) : line'[k] = line[k] /\ line[k] # c /\ line[k] \in Callers
    BY <1>2 DEF TypeOK, LineInv
<1>6. \A k, l \in 1..Len(line') : line'[k] = line'[l] => k = l
  <2> SUFFICES ASSUME NEW k \in 1..Len(line'), NEW l \in 1..Len(line'), line'[k] = line'[l]
               PROVE  k = l
      OBVIOUS
  <2>1. (k \in 1..Len(line) /\ l \in 1..Len(line)) \/ (k = Len(line) + 1 /\ l = Len(line) + 1)
      BY <1>5
  <2>2. CASE k \in 1..Len(line) /\ l \in 1..Len(line)
      BY <2>2, <1>5 DEF LineInv
  <2>3. QED
      BY <2>1, <2>2
<1>7. \A k \in 1..Len(line') : call'[line'[k]].at # "idle"
  <2> SUFFICES ASSUME NEW k \in 1..Len(line') PROVE call'[line'[k]].at # "idle"
      OBVIOUS
  <2>1. CASE k = Len(line) + 1
      BY <2>1, <1>1, <1>4, <1>5
  <2>2. CASE k \in 1..Len(line)
      BY <2>2, <1>4, <1>5 DEF LineInv
  <2>3. QED
      BY <2>1, <2>2, <1>5
<1>8. ASSUME NEW d \in Callers, call'[d].at \in Past
      PROVE  line' # <<>> /\ Head(line') = d
  <2>1. d # c /\ call[d].at \in Past
      BY <1>1, <1>4, <1>8 DEF Past
  <2>2. Len(line) >= 1 /\ line[1] = d
      BY <2>1, OnePast
  <2>3. Len(line') >= 1 /\ line'[1] = d
      BY <2>2, <1>5
  <2>4. QED
      BY <2>3, <1>4
<1>9. LineInv'
    BY <1>6, <1>7, <1>8 DEF LineInv, Past
<1>10. QED
    BY <1>1, <1>4, <1>9

\* After the first of the line has left nobody is past the lock.
LEMMA LeavingKeeps ==
    ASSUME TypeOK, LineInv, NEW c \in Callers, line # <<>>, Head(line) = c, Leaves(c)
    PROVE  /\ line' \in Seq(Callers) /\ call' \in [Callers -> Call] /\ LineInv'
           /\ call'[c] = Idle /\ \A d \in Callers : d # c => call'[d] = call[d]
           /\ \A d \in Callers : call'[d].at \notin Past
<1>1. call' = [call EXCEPT ![c] = Idle] /\ line' = Tail(line)
    BY DEF Leaves
<1>2. call \in [Callers -> Call]
    BY DEF TypeOK, Call
<1>3. call' \in [Callers -> Call] /\ call'[c] = Idle /\ \A d \in Callers : d # c => call'[d] = call[d]
    BY <1>1, <1>2, IdleIs
<1>4. Len(line) >= 1 /\ line[1] = c
    BY DEF TypeOK
<1>5. /\ line' \in Seq(Callers) /\ Len(line') = Len(line) - 1
      /\ \A k \in 1..Len(line') : line'[k] = line[k + 1] /\ k + 1 \in 1..Len(line)
    BY <1>1, <1>4 DEF TypeOK
<1>6. \A d \in Callers : call'[d].at \notin Past
    BY <1>3, <1>4, IdleIs DEF LineInv, Past
<1>7. \A k, l \in 1..Len(line') : line'[k] = line'[l] => k = l
  <2> SUFFICES ASSUME NEW k \in 1..Len(line'), NEW l \in 1..Len(line'), line'[k] = line'[l]
               PROVE  k = l
      OBVIOUS
  <2>1. line[k + 1] = line[l + 1] /\ k + 1 \in 1..Len(line) /\ l + 1 \in 1..Len(line)
      BY <1>5
  <2>2. k + 1 = l + 1
      BY <2>1 DEF LineInv
  <2>3. QED
      BY <2>2
<1>8. \A k \in 1..Len(line') : call'[line'[k]].at # "idle"
  <2> SUFFICES ASSUME NEW k \in 1..Len(line') PROVE call'[line'[k]].at # "idle"
      OBVIOUS
  <2>1. line'[k] = line[k + 1] /\ k + 1 \in 1..Len(line) /\ 1 \in 1..Len(line)
      BY <1>4, <1>5 DEF TypeOK
  <2>2. line[k + 1] # c /\ line[k + 1] \in Callers
      BY <2>1, <1>4 DEF LineInv, TypeOK
  <2>3. QED
      BY <2>1, <2>2, <1>3 DEF LineInv
<1>9. LineInv'
    BY <1>6, <1>7, <1>8 DEF LineInv, Past
<1>10. QED
    BY <1>3, <1>5, <1>6, <1>9

\* The first of the line moves on.
LEMMA MovingKeeps ==
    ASSUME TypeOK, LineInv, NEW c \in Callers, line # <<>>, Head(line) = c,
           NEW e \in Call, e.at \in Past, call' = [call EXCEPT ![c] = e], UNCHANGED line
    PROVE  /\ line' \in Seq(Callers) /\ call' \in [Callers -> Call] /\ LineInv'
           /\ call'[c] = e /\ \A d \in Callers : d # c => call'[d] = call[d]
           /\ \A d \in Callers : d # c => call'[d].at \notin Past
<1>1. call \in [Callers -> Call]
    BY DEF TypeOK, Call
<1>2. call' \in [Callers -> Call] /\ call'[c] = e /\ \A d \in Callers : d # c => call'[d] = call[d]
    BY <1>1
<1>3. \A d \in Callers : d # c => call'[d].at \notin Past
    BY <1>2 DEF LineInv, Past
<1>4. \A k \in 1..Len(line') : call'[line'[k]].at # "idle"
  <2> SUFFICES ASSUME NEW k \in 1..Len(line) PROVE call'[line[k]].at # "idle"
      OBVIOUS
  <2>1. line[k] \in Callers
      BY DEF TypeOK
  <2>2. QED
      BY <2>1, <1>2 DEF LineInv, Past
<1>5. LineInv'
    BY <1>2, <1>3, <1>4 DEF LineInv, Past
<1>6. QED
    BY <1>2, <1>3, <1>5 DEF TypeOK

-----------------------------------------------------------------------------
(* The calls *)

\* A call that is not past the lock depends on nothing of the store.
LEMMA OthersWait ==
    ASSUME CallInv, NEW c \in Callers, Waiting(call[c])', Working(c)',
           \A d \in Callers : d # c => call'[d] = call[d] /\ call'[d].at \notin Past
    PROVE  CallInv'
<1> SUFFICES ASSUME NEW d \in Callers, d # c PROVE Waiting(call[d])' /\ Working(d)'
    BY DEF CallInv
<1>1. call'[d] = call[d] /\ call'[d].at \notin Past
    OBVIOUS
<1>2. Waiting(call[d])'
    BY <1>1 DEF CallInv, Waiting
<1>3. Working(d)'
    BY <1>1 DEF Working, Past
<1>4. QED
    BY <1>2, <1>3

LEMMA NobodyWorks ==
    ASSUME CallInv, \A d \in Callers : (call'[d] = call[d] \/ call'[d] = Idle) /\ call'[d].at \notin Past
    PROVE  CallInv'
<1> SUFFICES ASSUME NEW d \in Callers PROVE Waiting(call[d])' /\ Working(d)'
    BY DEF CallInv
<1>1. Waiting(call[d])'
    BY IdleIs DEF CallInv, Waiting
<1>2. Working(d)'
    BY DEF Working, Past
<1>3. QED
    BY <1>1, <1>2

\* A call that leaves with the store as it was.
LEMMA LeavingStep ==
    ASSUME FFInv, NEW c \in Callers, line # <<>>, Head(line) = c, Leaves(c),
           UNCHANGED <<jobs, pos, own, hedge, crashes>>
    PROVE  FFInv'
<1> USE DEF FFInv
<1>1. /\ line' \in Seq(Callers) /\ call' \in [Callers -> Call] /\ LineInv'
      /\ call'[c] = Idle /\ \A d \in Callers : d # c => call'[d] = call[d]
      /\ \A d \in Callers : call'[d].at \notin Past
    BY LeavingKeeps
<1>2. TypeOK'
    BY <1>1 DEF TypeOK, Call
<1>3. CallInv'
    BY <1>1, NobodyWorks
<1>4. OneOpen'
    BY DEF OneOpen
<1>5. QED
    BY <1>1, <1>2, <1>3, <1>4

LEMMA CallsStep ==
    ASSUME FFInv, NEW c \in Callers, NEW t \in Tickers, Calls(c, t)
    PROVE  FFInv'
<1> USE DEF FFInv
<1>1. UNCHANGED <<jobs, pos, own, hedge, crashes>>
    BY DEF Calls
<1>2. PICK op \in {"enter", "close"}, on \in [Legs -> Venues \cup {None}] :
          /\ Asks(c, op, t, on)
          /\ op = "enter" => on \in Pairs
  <2>1. Idle.on \in [Legs -> Venues \cup {None}] /\ \A on \in Pairs : on \in [Legs -> Venues \cup {None}]
      BY DEF Idle, Pairs
  <2>2. QED
      BY <2>1 DEF Calls
<1>3. /\ line' \in Seq(Callers) /\ call' \in [Callers -> Call] /\ LineInv'
      /\ \A d \in Callers : d # c => call'[d] = call[d]
      /\ call'[c].at = "lock" /\ call'[c].op = op /\ call'[c].ticker = t /\ call'[c].on = on
      /\ call'[c].due = Zero /\ call'[c].got = Zero /\ call'[c].back = Zero
    BY <1>2, AskingKeeps
<1>4. TypeOK'
    BY <1>1, <1>3 DEF TypeOK, Call
<1>5. CallInv'
  <2>1. Waiting(call[c])' /\ Working(c)'
      BY <1>2, <1>3 DEF Waiting, Working
  <2>2. ASSUME NEW d \in Callers, d # c PROVE Waiting(call[d])' /\ Working(d)'
    <3>1. call'[d] = call[d]
        BY <1>3, <2>2
    <3>2. Waiting(call[d])'
        BY <3>1 DEF CallInv, Waiting
    <3>3. Working(d)'
        BY <1>1, <3>1 DEF CallInv, Working, MayEnter, OpenJobs
    <3>4. QED
        BY <3>2, <3>3
  <2>3. QED
      BY <2>1, <2>2 DEF CallInv
<1>6. OneOpen'
    BY <1>1 DEF OneOpen
<1>7. QED
    BY <1>3, <1>4, <1>5, <1>6

LEMMA InsideIs ==
    ASSUME TypeOK, NEW c \in Callers, NEW at, Inside(c, at)
    PROVE  line # <<>> /\ Head(line) = c /\ call[c].at = at /\ call[c] \in Call
    BY DEF Inside, TypeOK, Call

\* The check is made with the lock, so that what it finds stays.
LEMMA BeginStep ==
    ASSUME FFInv, NEW c \in Callers, EnterBegins(c) \/ Unpriced(c)
    PROVE  /\ FFInv' /\ UNCHANGED <<jobs, own>>
           /\ \A d \in Callers : call'[d].at \notin {"orders", "undo", "close"}
<1> USE DEF FFInv
<1>1. line # <<>> /\ Head(line) = c /\ call[c] \in Call /\ UNCHANGED <<jobs, pos, own, hedge, crashes>>
    BY InsideIs DEF EnterBegins, Unpriced
<1>2. CASE Leaves(c)
  <2>1. FFInv'
      BY <1>1, <1>2, LeavingStep
  <2>2. \A d \in Callers : call'[d].at \notin Past
      BY <1>1, <1>2, LeavingKeeps
  <2>3. QED
      BY <1>1, <2>1, <2>2 DEF Past
<1>3. CASE EnterBegins(c) /\ MayEnter(call[c].ticker) /\ Goes(c, "prices") /\ UNCHANGED line
  <2> DEFINE e == [call[c] EXCEPT !.at = "prices"]
  <2>1. call[c].at = "lock" /\ call[c].op = "enter"
      BY <1>3 DEF EnterBegins, Inside
  <2>2. /\ e \in Call /\ e.at = "prices" /\ e.ticker = call[c].ticker /\ e.on = call[c].on
        /\ e.due = call[c].due /\ e.got = call[c].got /\ e.back = call[c].back
      BY <1>1 DEF Call
  <2>3. call' = [call EXCEPT ![c] = e]
      BY <1>3 DEF Goes, TypeOK
  <2>4. e.at \in Past
      BY <2>2 DEF Past
  <2> HIDE DEF e
  <2>5. /\ line' \in Seq(Callers) /\ call' \in [Callers -> Call] /\ LineInv'
        /\ call'[c] = e /\ \A d \in Callers : d # c => call'[d] = call[d]
        /\ \A d \in Callers : d # c => call'[d].at \notin Past
      BY <1>1, <1>3, <2>2, <2>3, <2>4, MovingKeeps
  <2>6. TypeOK'
      BY <1>1, <2>5 DEF TypeOK, Call
  <2>7. Waiting(call[c])'
      BY <2>1, <2>2, <2>5 DEF CallInv, Waiting
  <2>8. Working(c)'
    <3>1. call[c].on \in Pairs
        BY <2>1 DEF CallInv, Waiting
    <3>2. QED
        BY <1>1, <1>3, <2>2, <2>5, <3>1 DEF Working, MayEnter, OpenJobs
  <2>9. CallInv'
      BY <2>5, <2>7, <2>8, OthersWait
  <2>10. OneOpen'
      BY <1>1 DEF OneOpen
  <2>11. \A d \in Callers : call'[d].at \notin {"orders", "undo", "close"}
      BY <2>2, <2>5 DEF Past
  <2>12. QED
      BY <1>1, <2>5, <2>6, <2>9, <2>10, <2>11
<1>4. QED
    BY <1>2, <1>3 DEF EnterBegins, Unpriced

-----------------------------------------------------------------------------
(* The store *)

LEMMA RefreshedIs ==
    ASSUME NEW j \in Records, NEW closed \in Amounts
    PROVE  LET r == Refreshed(j, closed) IN
           /\ r \in Records /\ r.ticker = j.ticker /\ r.on = j.on /\ r.qty = j.qty
           /\ r.closed = closed /\ IsOpen(r) => IsOpen(j)
           /\ r.status = IF Less(j.qty, closed) = Zero THEN "closed" ELSE j.status
    BY DEF Refreshed, Records, IsOpen

LEMMA VerdictIs ==
    ASSUME NEW got \in Amounts, NEW back \in Amounts
    PROVE  /\ Verdict(got, back) \in {"ff_open", "ff_partial", "failed", "rolled_back", "rollback_failed"}
           /\ Verdict(got, back) \in {"ff_open", "ff_partial"} =>
                  /\ got # Zero
                  /\ \A leg \in Legs : got[leg] # 0 /\ Less(got, back)[leg] # 0
           /\ Verdict(got, back) = "rolled_back" => Less(got, back) = Zero
           /\ Verdict(got, back) = "failed" =>
                  \/ got = Zero
                  \/ /\ \A leg \in Legs : got[leg] # 0
                     /\ \E leg \in Legs : Less(got, back)[leg] = 0
    BY DEF Verdict

LEMMA JobsAre ==
    ASSUME TypeOK
    PROVE  /\ DOMAIN jobs = 1..Len(jobs) /\ Len(jobs) \in Nat /\ DOMAIN own = 1..Len(jobs)
           /\ \A i \in DOMAIN jobs : jobs[i] \in Records /\ own[i] \in Amounts
    BY DEF TypeOK

\* One job's record is rewritten: open then only if it was, or if nothing of its ticker was.
LEMMA RewritingKeeps ==
    ASSUME TypeOK, OneOpen, NEW i \in DOMAIN jobs, NEW r \in Records, r.ticker = jobs[i].ticker,
           jobs' = [jobs EXCEPT ![i] = r],
           IsOpen(r) => IsOpen(jobs[i]) \/ OpenJobs(r.ticker) = {}
    PROVE  /\ jobs' \in Seq(Records) /\ Len(jobs') = Len(jobs) /\ DOMAIN jobs' = DOMAIN jobs
           /\ jobs'[i] = r /\ \A k \in DOMAIN jobs : k # i => jobs'[k] = jobs[k]
           /\ OneOpen'
<1>1. /\ jobs' \in Seq(Records) /\ Len(jobs') = Len(jobs) /\ DOMAIN jobs' = DOMAIN jobs
      /\ jobs'[i] = r /\ \A k \in DOMAIN jobs : k # i => jobs'[k] = jobs[k]
    BY DEF TypeOK
<1>2. ASSUME NEW k \in DOMAIN jobs, NEW l \in DOMAIN jobs, IsOpen(jobs'[k]), IsOpen(jobs'[l]),
             jobs'[k].ticker = jobs'[l].ticker
      PROVE  k = l
  <2>1. CASE k # i /\ l # i
      BY <1>1, <1>2, <2>1 DEF OneOpen
  <2>2. ASSUME NEW m \in DOMAIN jobs, m # i, IsOpen(jobs[m]), IsOpen(r), jobs[m].ticker = r.ticker
        PROVE  FALSE
    <3>1. m \in OpenJobs(r.ticker)
        BY <2>2 DEF OpenJobs
    <3>2. IsOpen(jobs[i])
        BY <2>2, <3>1
    <3>3. QED
        BY <2>2, <3>2 DEF OneOpen
  <2>3. CASE k = i \/ l = i
      BY <1>1, <1>2, <2>2, <2>3
  <2>4. QED
      BY <2>1, <2>3
<1>3. OneOpen'
    BY <1>1, <1>2 DEF OneOpen
<1>4. QED
    BY <1>1, <1>3

\* A job is written before its orders, and is not open.
LEMMA SendsStep ==
    ASSUME FFInv, NEW c \in Callers, Sends(c)
    PROVE  /\ FFInv'
           /\ call'[c].at = "orders" /\ call'[c].got = Zero /\ call'[c].job = Len(jobs) + 1
           /\ jobs'[Len(jobs) + 1].closed = Zero /\ DOMAIN jobs' = 1..(Len(jobs) + 1)
           /\ \A d \in Callers : d # c => call'[d].at \notin Past
           /\ Len(jobs') = Len(jobs) + 1 /\ jobs'[Len(jobs) + 1].status = "requested"
           /\ own'[Len(jobs) + 1] = Zero
           /\ \A i \in DOMAIN jobs : jobs'[i] = jobs[i] /\ own'[i] = own[i]
<1> USE DEF FFInv
<1> DEFINE on == call[c].on
           target == Min({Norm(on[leg], Size) : leg \in Legs})
           due == [leg \in Legs |-> Norm(on[leg], target)]
           j == [ticker |-> call[c].ticker, on |-> on, status |-> "requested",
                 qty |-> Zero, closed |-> Zero]
           e == [call[c] EXCEPT !.at = "orders", !.job = Len(jobs) + 1, !.due = due]
<1>1. /\ line # <<>> /\ Head(line) = c /\ call[c].at = "prices" /\ call[c] \in Call
      /\ jobs' = Append(jobs, j) /\ own' = Append(own, Zero) /\ call' = [call EXCEPT ![c] = e]
      /\ UNCHANGED <<line, pos, hedge, crashes>>
    BY InsideIs DEF Sends
<1>2. /\ on \in Pairs /\ call[c].ticker \in Tickers /\ MayEnter(call[c].ticker)
      /\ call[c].got = Zero /\ call[c].back = Zero
    BY <1>1 DEF CallInv, Waiting, Working
<1>3. due \in Amounts
  <2>1. on["long"] \in Venues /\ on["short"] \in Venues /\ Size \in Nat
      BY <1>2, FFAssumption DEF Pairs, Legs
  <2>2. {Norm(on[leg], Size) : leg \in Legs} = {Norm(on["long"], Size), Norm(on["short"], Size)}
      BY DEF Legs
  <2>3. Norm(on["long"], Size) \in Nat /\ Norm(on["short"], Size) \in Nat
      BY <2>1, NormIs
  <2>4. target \in Nat
      BY <2>2, <2>3, MinOfTwo
  <2> HIDE DEF target
  <2>5. \A leg \in Legs : Norm(on[leg], target) \in Nat
      BY <1>2, <2>4, NormIs DEF Pairs
  <2>6. QED
      BY <2>5 DEF Amounts
<1> HIDE DEF due
<1>4. /\ e \in Call /\ e.at = "orders" /\ e.ticker = call[c].ticker /\ e.on = on
      /\ e.job = Len(jobs) + 1 /\ e.due = due /\ e.got = Zero /\ e.back = Zero
  <2>1. Len(jobs) + 1 \in Nat
      BY JobsAre
  <2>2. call[c] \in Call /\ due \in Amounts
      BY <1>1, <1>3
  <2> HIDE DEF FFInv, on
  <2>3. e \in Call
      BY <2>1, <2>2 DEF Call
  <2>4. /\ e.at = "orders" /\ e.ticker = call[c].ticker /\ e.on = call[c].on
        /\ e.job = Len(jobs) + 1 /\ e.due = due /\ e.got = call[c].got /\ e.back = call[c].back
      BY <2>2 DEF Call
  <2>5. QED
      BY <1>2, <2>3, <2>4 DEF on
<1>5. e.at \in Past
    BY <1>4 DEF Past
<1>6. j \in Records /\ ~ IsOpen(j)
    BY <1>2, ZeroIs DEF Records, IsOpen
<1>7. j.ticker = call[c].ticker /\ j.on = on /\ j.status = "requested" /\ j.closed = Zero
    OBVIOUS
<1> HIDE DEF e, j
<1>8. /\ line' \in Seq(Callers) /\ call' \in [Callers -> Call] /\ LineInv'
      /\ call'[c] = e /\ \A d \in Callers : d # c => call'[d] = call[d]
      /\ \A d \in Callers : d # c => call'[d].at \notin Past
    BY <1>1, <1>4, <1>5, MovingKeeps
<1>9. /\ jobs' \in Seq(Records) /\ Len(jobs') = Len(jobs) + 1 /\ DOMAIN jobs' = 1..(Len(jobs) + 1)
      /\ jobs'[Len(jobs) + 1] = j /\ \A i \in 1..Len(jobs) : jobs'[i] = jobs[i]
      /\ own' \in Seq(Amounts) /\ Len(own') = Len(jobs) + 1
      /\ own'[Len(jobs) + 1] = Zero /\ \A i \in 1..Len(jobs) : own'[i] = own[i]
    BY <1>1, <1>6, ZeroIs DEF TypeOK
<1>10. TypeOK'
    BY <1>1, <1>8, <1>9 DEF TypeOK, Call
<1>11. \A i \in DOMAIN jobs' : IsOpen(jobs'[i]) => i \in DOMAIN jobs /\ jobs'[i] = jobs[i]
    BY <1>6, <1>9, JobsAre
<1>12. OneOpen'
    BY <1>11 DEF OneOpen
<1>13. MayEnter(call[c].ticker) /\ hedge' = hedge /\ \A t : OpenJobs(t)' \subseteq OpenJobs(t)
    BY <1>1, <1>2, <1>11 DEF OpenJobs
<1>14. Waiting(call[c])'
    BY <1>2, <1>4, <1>8 DEF Waiting
<1>15. Working(c)'
  <2>1. Len(jobs) + 1 \in DOMAIN jobs'
      BY <1>9, JobsAre
  <2>2. PICK t : t = call[c].ticker
      OBVIOUS
  <2>3. OpenJobs(t)' = {} /\ hedge'[t] = None
      BY <1>13, <2>2 DEF MayEnter
  <2>4. MayEnter(call[c].ticker)'
      BY <1>4, <1>8, <2>2, <2>3 DEF MayEnter, OpenJobs
  <2>5. QED
      BY <1>2, <1>4, <1>7, <1>8, <1>9, <2>1, <2>4 DEF Working
<1>16. CallInv'
    BY <1>8, <1>14, <1>15, OthersWait
<1>17. QED
    BY <1>4, <1>7, <1>8, <1>9, <1>10, <1>12, <1>16, JobsAre

-----------------------------------------------------------------------------
(* The orders *)

\* Who works is first in the line, on a job of the store and two of its venues.
LEMMA WorkerIs ==
    ASSUME FFInv, NEW c \in Callers, call[c].at \in {"orders", "undo", "close"}
    PROVE  /\ line # <<>> /\ Head(line) = c /\ call[c] \in Call
           /\ call[c].job \in DOMAIN jobs /\ call[c].job \in DOMAIN own
           /\ call[c].ticker \in Tickers /\ call[c].on \in Pairs
           /\ jobs[call[c].job].ticker = call[c].ticker /\ jobs[call[c].job].on = call[c].on
<1> USE DEF FFInv
<1>1. line # <<>> /\ Head(line) = c
    BY DEF LineInv
<1>2. call[c] \in Call
    BY DEF TypeOK, Call
<1>3. /\ call[c].job \in DOMAIN jobs
      /\ jobs[call[c].job].ticker = call[c].ticker /\ jobs[call[c].job].on = call[c].on
    BY DEF CallInv, Working
<1>4. jobs[call[c].job] \in Records /\ call[c].job \in DOMAIN own
    BY <1>3, JobsAre
<1>5. call[c].ticker \in Tickers /\ call[c].on \in Pairs
    BY <1>3, <1>4 DEF Records
<1>6. QED
    BY <1>1, <1>2, <1>3, <1>4, <1>5

\* An order does what it does at its venue, and tells that or less.
LEMMA FillsIs ==
    ASSUME FFInv, NEW c \in Callers, NEW leg \in Legs, Fills(c, leg)
    PROVE  /\ call[c].at \in {"orders", "undo", "close"} /\ call[c].due[leg] > 0
           /\ UNCHANGED <<jobs, line, hedge, crashes>>
           /\ pos' \in [Tickers -> [Venues -> Int]]
           /\ \E did \in Nat, said \in Nat :
                 /\ said <= did /\ did <= call[c].due[leg]
                 /\ call[c].at = "orders" => said = did \/ "market" \in Quiet
                 /\ own' = [own EXCEPT ![call[c].job][leg] =
                               IF call[c].at = "orders" THEN @ + did ELSE Above(@ - did)]
                 /\ call' = [call EXCEPT ![c] =
                               IF call[c].at = "orders"
                               THEN [@ EXCEPT !.due[leg] = 0, !.got[leg] = said]
                               ELSE [@ EXCEPT !.due[leg] = 0, !.back[leg] = said]]
<1> USE DEF FFInv
<1>1. call[c].due[leg] > 0 /\ UNCHANGED <<jobs, line, hedge, crashes>>
    BY DEF Fills
<1>2. call[c] \in Call
    BY DEF TypeOK, Call
<1>3. call[c].at \in {"orders", "undo", "close"}
  <2>1. call[c].due # Zero
      BY <1>1, ZeroIs
  <2>2. call[c].at \notin {"idle", "lock", "prices"}
      BY <2>1 DEF CallInv, Waiting
  <2>3. QED
      BY <1>2, <2>2 DEF Call
<1> DEFINE e == call[c]
           market == e.at = "orders"
           v == e.on[leg]
           most == IF market THEN e.due[leg] ELSE Min({e.due[leg], Room(e.ticker, v, leg)})
           up == market = (leg = "long")
<1>4. e.ticker \in Tickers /\ v \in Venues
    BY <1>3, WorkerIs DEF Pairs
<1>5. e.due[leg] \in Nat
    BY <1>2 DEF Call, Amounts
<1>6. most \in Nat /\ most <= e.due[leg]
  <2>1. pos[e.ticker][v] \in Int
      BY <1>4 DEF TypeOK
  <2>2. Room(e.ticker, v, leg) \in Nat
      BY <2>1, AboveIs DEF Room
  <2>3. QED
      BY <1>5, <2>2, MinOfTwo
<1>7. PICK did \in 0..most :
          /\ pos' = [pos EXCEPT ![e.ticker][v] = IF up THEN @ + did ELSE @ - did]
          /\ own' = [own EXCEPT ![e.job][leg] = IF market THEN @ + did ELSE Above(@ - did)]
          /\ \E said \in 0..did :
               /\ said = did \/ (IF market THEN "market" ELSE "reduce") \in Quiet
               /\ call' = [call EXCEPT ![c] = IF market
                      THEN [@ EXCEPT !.due[leg] = 0, !.got[leg] = said]
                      ELSE [@ EXCEPT !.due[leg] = 0, !.back[leg] = said]]
    BY DEF Fills
<1> HIDE DEF most
<1>8. did \in Nat /\ did <= e.due[leg]
    BY <1>5, <1>6
<1>9. pos' \in [Tickers -> [Venues -> Int]]
    BY <1>4, <1>7, <1>8 DEF TypeOK
<1>10. PICK said \in 0..did :
          /\ said = did \/ (IF market THEN "market" ELSE "reduce") \in Quiet
          /\ call' = [call EXCEPT ![c] = IF market
                 THEN [@ EXCEPT !.due[leg] = 0, !.got[leg] = said]
                 ELSE [@ EXCEPT !.due[leg] = 0, !.back[leg] = said]]
    BY <1>7
<1>11. said \in Nat /\ said <= did
    BY <1>8
<1>12. market => said = did \/ "market" \in Quiet
    BY <1>10
<1>13. QED
    BY <1>1, <1>3, <1>7, <1>8, <1>9, <1>10, <1>11, <1>12

\* What the fill changes: the call's own figures, and what its job has at the venues.
LEMMA FillsStep ==
    ASSUME FFInv, NEW c \in Callers, NEW leg \in Legs, Fills(c, leg)
    PROVE  /\ FFInv'
           /\ \A d \in Callers : d # c => call'[d].at \notin Past
           /\ \E did \in Nat, said \in Nat, e \in Call :
                 /\ said <= did /\ did <= call[c].due[leg] /\ call'[c] = e
                 /\ call[c].at \in {"orders", "undo", "close"} /\ call[c].due[leg] > 0
                 /\ e.at = call[c].at /\ e.job = call[c].job /\ e.on = call[c].on
                 /\ e.due[leg] = 0 /\ e.due[Other(leg)] = call[c].due[Other(leg)]
                 /\ e.got[Other(leg)] = call[c].got[Other(leg)]
                 /\ e.back[Other(leg)] = call[c].back[Other(leg)]
                 /\ own'[e.job][Other(leg)] = own[e.job][Other(leg)]
                 /\ IF e.at = "orders"
                    THEN /\ said = did \/ "market" \in Quiet
                         /\ e.got[leg] = said /\ e.back = call[c].back
                         /\ own'[e.job][leg] = own[e.job][leg] + did
                    ELSE /\ e.back[leg] = said /\ e.got = call[c].got
                         /\ own'[e.job][leg] = Above(own[e.job][leg] - did)
                 /\ \A i \in DOMAIN jobs : i # e.job => own'[i] = own[i]
           /\ UNCHANGED <<jobs, hedge>>
<1> USE DEF FFInv
<1>1. /\ call[c].at \in {"orders", "undo", "close"} /\ call[c].due[leg] > 0
      /\ UNCHANGED <<jobs, line, hedge, crashes>>
      /\ pos' \in [Tickers -> [Venues -> Int]]
    BY FillsIs
<1>2. PICK did \in Nat, said \in Nat :
         /\ said <= did /\ did <= call[c].due[leg]
         /\ call[c].at = "orders" => said = did \/ "market" \in Quiet
         /\ own' = [own EXCEPT ![call[c].job][leg] =
                       IF call[c].at = "orders" THEN @ + did ELSE Above(@ - did)]
         /\ call' = [call EXCEPT ![c] =
                       IF call[c].at = "orders"
                       THEN [@ EXCEPT !.due[leg] = 0, !.got[leg] = said]
                       ELSE [@ EXCEPT !.due[leg] = 0, !.back[leg] = said]]
    BY FillsIs
<1>3. /\ line # <<>> /\ Head(line) = c /\ call[c] \in Call
      /\ call[c].job \in DOMAIN jobs /\ call[c].job \in DOMAIN own
      /\ call[c].ticker \in Tickers /\ call[c].on \in Pairs
    BY <1>1, WorkerIs
<1>4. Other(leg) \in Legs /\ Other(leg) # leg /\ \A l \in Legs : l = leg \/ l = Other(leg)
    BY DEF Legs, Other
<1> DEFINE new == IF call[c].at = "orders"
                  THEN [call[c] EXCEPT !.due[leg] = 0, !.got[leg] = said]
                  ELSE [call[c] EXCEPT !.due[leg] = 0, !.back[leg] = said]
<1>5. PICK e : e = new
    OBVIOUS
<1>6. e \in Call
  <2>1. CASE call[c].at = "orders"
      BY <1>3, <1>5, <2>1 DEF Call, Amounts
  <2>2. CASE call[c].at # "orders"
      BY <1>3, <1>5, <2>2 DEF Call, Amounts
  <2>3. QED
      BY <2>1, <2>2
<1>7. /\ e.at = call[c].at /\ e.job = call[c].job /\ e.on = call[c].on /\ e.ticker = call[c].ticker
      /\ e.op = call[c].op
    BY <1>3, <1>5 DEF Call
<1>8. e.due[leg] = 0 /\ e.due[Other(leg)] = call[c].due[Other(leg)]
    BY <1>3, <1>4, <1>5 DEF Call, Amounts
<1>9. IF call[c].at = "orders"
      THEN /\ e.got[leg] = said /\ e.got[Other(leg)] = call[c].got[Other(leg)]
           /\ e.back = call[c].back
      ELSE /\ e.back[leg] = said /\ e.back[Other(leg)] = call[c].back[Other(leg)]
           /\ e.got = call[c].got
    BY <1>3, <1>4, <1>5 DEF Call, Amounts
<1>10. call' = [call EXCEPT ![c] = e]
    BY <1>2, <1>5
<1> HIDE DEF new
<1>11. e.at \in Past
    BY <1>1, <1>7 DEF Past
<1>12. /\ line' \in Seq(Callers) /\ call' \in [Callers -> Call] /\ LineInv'
       /\ call'[c] = e /\ \A d \in Callers : d # c => call'[d] = call[d]
       /\ \A d \in Callers : d # c => call'[d].at \notin Past
    BY <1>1, <1>3, <1>6, <1>10, <1>11, MovingKeeps
<1>13. own[call[c].job] \in Amounts
    BY <1>3, JobsAre
<1>14. PICK o \in Amounts :
           /\ own' = [own EXCEPT ![call[c].job] = o]
           /\ o[Other(leg)] = own[call[c].job][Other(leg)]
           /\ o[leg] = IF call[c].at = "orders" THEN own[call[c].job][leg] + did
                       ELSE Above(own[call[c].job][leg] - did)
  <2>1. own[call[c].job][leg] \in Nat
      BY <1>13 DEF Amounts
  <2>2. own[call[c].job][leg] - did \in Int
      BY <2>1
  <2>3. Above(own[call[c].job][leg] - did) \in Nat
      BY <2>2, AboveIs
  <2> DEFINE x == IF call[c].at = "orders" THEN own[call[c].job][leg] + did
                  ELSE Above(own[call[c].job][leg] - did)
  <2>4. x \in Nat
      BY <2>1, <2>3
  <2>5. own' = [own EXCEPT ![call[c].job] = [own[call[c].job] EXCEPT ![leg] = x]]
      BY <1>2
  <2> HIDE DEF x
  <2>6. [own[call[c].job] EXCEPT ![leg] = x] \in Amounts
      BY <1>13, <2>4 DEF Amounts
  <2>7. /\ [own[call[c].job] EXCEPT ![leg] = x][leg] = x
        /\ [own[call[c].job] EXCEPT ![leg] = x][Other(leg)] = own[call[c].job][Other(leg)]
      BY <1>4, <1>13 DEF Amounts
  <2>8. QED
      BY <2>5, <2>6, <2>7 DEF x
<1>15. /\ own' \in Seq(Amounts) /\ Len(own') = Len(own)
       /\ own'[call[c].job] = o /\ \A i \in DOMAIN own : i # call[c].job => own'[i] = own[i]
    BY <1>3, <1>14 DEF TypeOK
<1>16. TypeOK'
    BY <1>1, <1>12, <1>15 DEF TypeOK, Call
<1>17. Waiting(call[c])' /\ Working(c)'
  <2>1. Waiting(call[c]) /\ Working(c)
      BY DEF CallInv
  <2>2. Waiting(call[c])'
      BY <1>1, <1>3, <1>7, <1>9, <1>12, <2>1 DEF Waiting
  <2>3. Working(c)'
      BY <1>1, <1>7, <1>12, <2>1 DEF Working, MayEnter, OpenJobs
  <2>4. QED
      BY <2>2, <2>3
<1>18. CallInv'
    BY <1>12, <1>17, OthersWait
<1>19. OneOpen'
    BY <1>1 DEF OneOpen
<1>20. \A i \in DOMAIN jobs : i \in DOMAIN own
    BY JobsAre
<1>21. FFInv'
    BY <1>12, <1>16, <1>18, <1>19
<1> HIDE DEF FFInv
<1>22. /\ said <= did /\ did <= call[c].due[leg]
       /\ call[c].at = "orders" => said = did \/ "market" \in Quiet
    BY <1>2
<1>23. /\ own'[e.job][Other(leg)] = own[e.job][Other(leg)]
       /\ own'[e.job][leg] = IF e.at = "orders" THEN own[e.job][leg] + did
                             ELSE Above(own[e.job][leg] - did)
       /\ \A i \in DOMAIN jobs : i # e.job => own'[i] = own[i]
    BY <1>7, <1>14, <1>15, <1>20
<1>24. /\ e.got[Other(leg)] = call[c].got[Other(leg)]
       /\ e.back[Other(leg)] = call[c].back[Other(leg)]
    BY <1>9
<1>25. IF e.at = "orders"
       THEN /\ said = did \/ "market" \in Quiet
            /\ e.got[leg] = said /\ e.back = call[c].back
            /\ own'[e.job][leg] = own[e.job][leg] + did
       ELSE /\ e.back[leg] = said /\ e.got = call[c].got
            /\ own'[e.job][leg] = Above(own[e.job][leg] - did)
    BY <1>7, <1>9, <1>22, <1>23
<1>26. call'[c] = e /\ \A d \in Callers : d # c => call'[d].at \notin Past
    BY <1>12
<1>27. UNCHANGED <<jobs, hedge>>
    BY <1>1
<1>28. QED
    BY <1>1, <1>6, <1>7, <1>8, <1>21, <1>22, <1>23, <1>24, <1>25, <1>26, <1>27

\* What filled too much is to be undone.
LEMMA UndoesStep ==
    ASSUME FFInv, NEW c \in Callers, Undoes(c)
    PROVE  /\ FFInv'
           /\ \A d \in Callers : d # c => call'[d].at \notin Past
           /\ call[c].at = "orders" /\ call'[c].at = "undo" /\ call'[c].job = call[c].job
           /\ call'[c].on = call[c].on /\ call'[c].got = call[c].got
           /\ call'[c].back = Zero /\ call'[c].due = Undo(call[c].on, call[c].got)
           /\ UNCHANGED <<jobs, own, hedge>>
<1> USE DEF FFInv
<1>1. /\ call[c].at = "orders" /\ UNCHANGED <<jobs, line, pos, own, hedge, crashes>>
    BY InsideIs DEF Undoes
<1>2. /\ line # <<>> /\ Head(line) = c /\ call[c] \in Call /\ call[c].on \in Pairs
    BY <1>1, WorkerIs
<1>3. PICK u \in Amounts : u = Undo(call[c].on, call[c].got)
    BY <1>2, UndoIs DEF Call
<1>4. PICK e : e = [call[c] EXCEPT !.at = "undo", !.due = u]
    OBVIOUS
<1>5. call' = [call EXCEPT ![c] = e]
    BY <1>3, <1>4 DEF Undoes
<1>6. /\ e \in Call /\ e.at = "undo" /\ e.due = u /\ e.got = call[c].got /\ e.back = call[c].back
      /\ e.job = call[c].job /\ e.on = call[c].on /\ e.ticker = call[c].ticker
    BY <1>2, <1>4 DEF Call
<1>7. e.at \in Past
    BY <1>6 DEF Past
<1>8. /\ line' \in Seq(Callers) /\ call' \in [Callers -> Call] /\ LineInv'
      /\ call'[c] = e /\ \A d \in Callers : d # c => call'[d] = call[d]
      /\ \A d \in Callers : d # c => call'[d].at \notin Past
    BY <1>1, <1>2, <1>5, <1>6, <1>7, MovingKeeps
<1>9. TypeOK'
    BY <1>1, <1>8 DEF TypeOK, Call
<1>10. Waiting(call[c]) /\ Working(c)
    BY DEF CallInv
<1>11. Waiting(call[c])'
    BY <1>1, <1>6, <1>8, <1>10 DEF Waiting
<1>12. Working(c)'
    BY <1>1, <1>6, <1>8, <1>10 DEF Working, MayEnter, OpenJobs
<1>13. CallInv'
    BY <1>8, <1>11, <1>12, OthersWait
<1>14. OneOpen'
    BY <1>1 DEF OneOpen
<1>15. call[c].back = Zero
    BY <1>1, <1>10 DEF Waiting
<1>16. FFInv'
    BY <1>8, <1>9, <1>13, <1>14
<1>17. QED
    BY <1>1, <1>3, <1>6, <1>8, <1>15, <1>16

\* The last of a call: it writes the record r of its job, and leaves.
LEMMA WritingStep ==
    ASSUME FFInv, NEW c \in Callers, call[c].at \in {"orders", "undo", "close"}, Leaves(c),
           NEW r \in Records, r.ticker = call[c].ticker,
           jobs' = [jobs EXCEPT ![call[c].job] = r],
           IsOpen(r) => IsOpen(jobs[call[c].job]) \/ OpenJobs(call[c].ticker) = {},
           UNCHANGED <<pos, own, hedge, crashes>>
    PROVE  /\ FFInv' /\ \A d \in Callers : call'[d].at \notin Past
           /\ DOMAIN jobs' = DOMAIN jobs /\ jobs'[call[c].job] = r
           /\ \A k \in DOMAIN jobs : k # call[c].job => jobs'[k] = jobs[k]
<1> USE DEF FFInv
<1>1. /\ line # <<>> /\ Head(line) = c /\ call[c].job \in DOMAIN jobs
      /\ jobs[call[c].job].ticker = call[c].ticker
    BY WorkerIs
<1>2. /\ line' \in Seq(Callers) /\ call' \in [Callers -> Call] /\ LineInv'
      /\ call'[c] = Idle /\ \A d \in Callers : d # c => call'[d] = call[d]
      /\ \A d \in Callers : call'[d].at \notin Past
    BY <1>1, LeavingKeeps
<1>3. /\ jobs' \in Seq(Records) /\ Len(jobs') = Len(jobs) /\ DOMAIN jobs' = DOMAIN jobs
      /\ jobs'[call[c].job] = r
      /\ \A k \in DOMAIN jobs : k # call[c].job => jobs'[k] = jobs[k]
      /\ OneOpen'
    BY <1>1, RewritingKeeps
<1>4. TypeOK'
    BY <1>2, <1>3 DEF TypeOK, Call
<1>5. CallInv'
    BY <1>2, NobodyWorks
<1>6. QED
    BY <1>2, <1>3, <1>4, <1>5

LEMMA EntryEndsStep ==
    ASSUME FFInv, NEW c \in Callers, EntryEnds(c)
    PROVE  /\ FFInv' /\ \A d \in Callers : call'[d].at \notin Past
           /\ call[c].at \in {"orders", "undo"}
           /\ DOMAIN jobs' = DOMAIN jobs
           /\ \A k \in DOMAIN jobs : k # call[c].job => jobs'[k] = jobs[k]
           /\ jobs'[call[c].job].ticker = call[c].ticker /\ jobs'[call[c].job].on = call[c].on
           /\ jobs'[call[c].job].status = Verdict(call[c].got, call[c].back)
           /\ IsOpen(jobs'[call[c].job]) => jobs'[call[c].job].qty = Less(call[c].got, call[c].back)
           /\ jobs'[call[c].job].closed = jobs[call[c].job].closed
           /\ UNCHANGED <<own, hedge>>
<1> USE DEF FFInv
<1>1. call[c].at \in {"orders", "undo"}
    BY DEF EntryEnds, Inside
<1>2. /\ call[c] \in Call /\ call[c].job \in DOMAIN jobs
      /\ jobs[call[c].job].ticker = call[c].ticker /\ jobs[call[c].job].on = call[c].on
    BY <1>1, WorkerIs
<1>3. jobs[call[c].job] \in Records
    BY <1>2, JobsAre
<1>4. call[c].got \in Amounts /\ call[c].back \in Amounts
    BY <1>2 DEF Call
<1> DEFINE verdict == Verdict(call[c].got, call[c].back)
           qty == IF verdict \in {"ff_open", "ff_partial"} THEN Less(call[c].got, call[c].back) ELSE Zero
<1>5. verdict \in {"ff_open", "ff_partial", "failed", "rolled_back", "rollback_failed"}
    BY <1>4, VerdictIs
<1>6. qty \in Amounts
    BY <1>4, LessIs, ZeroIs
<1>7. PICK r : r = [jobs[call[c].job] EXCEPT !.status = verdict, !.qty = qty]
    OBVIOUS
<1>8. jobs' = [jobs EXCEPT ![call[c].job] = r] /\ Leaves(c) /\ UNCHANGED <<pos, own, hedge, crashes>>
    BY <1>7 DEF EntryEnds
<1> HIDE DEF verdict, qty
<1>9. /\ r \in Records /\ r.status = verdict /\ r.qty = qty /\ r.ticker = call[c].ticker
      /\ r.on = call[c].on /\ r.closed = jobs[call[c].job].closed
    BY <1>2, <1>3, <1>5, <1>6, <1>7 DEF Records
<1>10. OpenJobs(call[c].ticker) = {}
    BY <1>1 DEF CallInv, Working, MayEnter
<1>11. /\ FFInv' /\ \A d \in Callers : call'[d].at \notin Past
       /\ DOMAIN jobs' = DOMAIN jobs /\ jobs'[call[c].job] = r
       /\ \A k \in DOMAIN jobs : k # call[c].job => jobs'[k] = jobs[k]
    BY <1>1, <1>8, <1>9, <1>10, WritingStep
<1>12. IsOpen(r) => r.qty = Less(call[c].got, call[c].back)
    BY <1>9 DEF IsOpen, qty
<1>13. QED
    BY <1>1, <1>8, <1>9, <1>11, <1>12 DEF verdict

LEMMA CloseEndsStep ==
    ASSUME FFInv, NEW c \in Callers, CloseEnds(c)
    PROVE  /\ FFInv' /\ \A d \in Callers : call'[d].at \notin Past
           /\ call[c].at = "close" /\ DOMAIN jobs' = DOMAIN jobs
           /\ \A k \in DOMAIN jobs : k # call[c].job => jobs'[k] = jobs[k]
           /\ jobs'[call[c].job] = Refreshed(jobs[call[c].job], call[c].back)
           /\ UNCHANGED <<own, hedge>>
<1> USE DEF FFInv
<1>1. call[c].at = "close"
    BY DEF CloseEnds, Inside
<1>2. /\ call[c] \in Call /\ call[c].job \in DOMAIN jobs
      /\ jobs[call[c].job].ticker = call[c].ticker
    BY <1>1, WorkerIs
<1>3. jobs[call[c].job] \in Records /\ call[c].back \in Amounts
    BY <1>2, JobsAre DEF Call
<1>4. PICK r : r = Refreshed(jobs[call[c].job], call[c].back)
    OBVIOUS
<1>5. r \in Records /\ r.ticker = call[c].ticker
    BY <1>2, <1>3, <1>4, RefreshedIs
<1>6. IsOpen(jobs[call[c].job])
    BY <1>1 DEF CallInv, Working
<1>7. jobs' = [jobs EXCEPT ![call[c].job] = r] /\ Leaves(c) /\ UNCHANGED <<pos, own, hedge, crashes>>
    BY <1>4 DEF CloseEnds
<1>8. /\ FFInv' /\ \A d \in Callers : call'[d].at \notin Past
      /\ DOMAIN jobs' = DOMAIN jobs /\ jobs'[call[c].job] = r
      /\ \A k \in DOMAIN jobs : k # call[c].job => jobs'[k] = jobs[k]
    BY <1>1, <1>5, <1>6, <1>7, WritingStep
<1>9. QED
    BY <1>1, <1>4, <1>7, <1>8

LEMMA OneIsLast ==
    ASSUME TypeOK, OneOpen, NEW t, OpenJobs(t) # {}
    PROVE  \E i \in DOMAIN jobs : /\ OpenJobs(t) = {i} /\ Max(OpenJobs(t)) = i
                                 /\ IsOpen(jobs[i]) /\ jobs[i].ticker = t
<1>1. PICK i \in DOMAIN jobs : IsOpen(jobs[i]) /\ jobs[i].ticker = t
    BY DEF OpenJobs
<1>2. OpenJobs(t) = {i}
    BY <1>1 DEF OpenJobs, OneOpen
<1>3. i \in Int
    BY JobsAre
<1>4. QED
    BY <1>1, <1>2, <1>3, MaxOfOne

\* A close takes the one open job of the ticker.
LEMMA CloseBeginsStep ==
    ASSUME FFInv, NEW c \in Callers, CloseBegins(c)
    PROVE  /\ FFInv' /\ \A d \in Callers : d # c => call'[d].at \notin Past
           /\ call'[c].at \in {"idle", "close"}
           /\ call'[c].at = "close" => call'[c].back = Zero
           /\ UNCHANGED <<jobs, own, hedge>>
<1> USE DEF FFInv
<1>1. /\ line # <<>> /\ Head(line) = c /\ call[c] \in Call /\ call[c].at = "lock"
      /\ UNCHANGED <<jobs, pos, own, hedge, crashes>>
    BY InsideIs DEF CloseBegins
<1>2. CASE Leaves(c)
  <2>1. FFInv'
      BY <1>1, <1>2, LeavingStep
  <2>2. call'[c] = Idle /\ \A d \in Callers : call'[d].at \notin Past
      BY <1>1, <1>2, LeavingKeeps
  <2>3. QED
      BY <1>1, <2>1, <2>2, IdleIs
<1>3. ASSUME ~ Leaves(c) PROVE
           /\ FFInv' /\ \A d \in Callers : d # c => call'[d].at \notin Past
           /\ call'[c].at \in {"idle", "close"}
           /\ call'[c].at = "close" => call'[c].back = Zero
           /\ UNCHANGED <<jobs, own, hedge>>
  <2> DEFINE k == Max(OpenJobs(call[c].ticker))
             todo == [leg \in Legs |-> Norm(jobs[k].on[leg], jobs[k].qty[leg])]
  <2>1. /\ OpenJobs(call[c].ticker) # {} /\ UNCHANGED line
        /\ call' = [call EXCEPT ![c] = [@ EXCEPT !.at = "close", !.job = k, !.on = jobs[k].on,
                                              !.due = todo]]
      BY <1>3 DEF CloseBegins
  <2>2. PICK i \in DOMAIN jobs : /\ k = i /\ IsOpen(jobs[i]) /\ jobs[i].ticker = call[c].ticker
      BY <2>1, OneIsLast
  <2>3. jobs[i] \in Records /\ i \in Nat
      BY JobsAre
  <2>4. todo \in Amounts
    <3>1. ASSUME NEW leg \in Legs PROVE Norm(jobs[i].on[leg], jobs[i].qty[leg]) \in Nat
      <4>1. jobs[i].on[leg] \in Venues /\ jobs[i].qty[leg] \in Nat
          BY <2>3 DEF Records, Pairs, Amounts
      <4>2. QED
          BY <4>1, NormIs
    <3>2. QED
        BY <2>2, <3>1 DEF Amounts
  <2>5. PICK due \in Amounts : due = todo
      BY <2>4
  <2>6. PICK e : e = [call[c] EXCEPT !.at = "close", !.job = i, !.on = jobs[i].on, !.due = due]
      OBVIOUS
  <2>7. call' = [call EXCEPT ![c] = e]
      BY <2>1, <2>2, <2>5, <2>6
  <2> HIDE DEF k, todo
  <2>8. jobs[i].on \in [Legs -> Venues \cup {None}]
      BY <2>3 DEF Records, Pairs
  <2>9. /\ e \in Call /\ e.at = "close" /\ e.job = i /\ e.on = jobs[i].on
        /\ e.ticker = call[c].ticker /\ e.got = call[c].got /\ e.back = call[c].back
      BY <1>1, <2>3, <2>6, <2>8 DEF Call
  <2>10. e.at \in Past
      BY <2>9 DEF Past
  <2>11. /\ line' \in Seq(Callers) /\ call' \in [Callers -> Call] /\ LineInv'
         /\ call'[c] = e /\ \A d \in Callers : d # c => call'[d] = call[d]
         /\ \A d \in Callers : d # c => call'[d].at \notin Past
      BY <1>1, <2>1, <2>7, <2>9, <2>10, MovingKeeps
  <2>12. TypeOK'
      BY <1>1, <2>11 DEF TypeOK, Call
  <2>13. call[c].ticker \in Tickers /\ call[c].back = Zero
      BY <1>1 DEF CallInv, Waiting
  <2>14. Waiting(call[c])'
      BY <2>9, <2>11, <2>13 DEF Waiting
  <2>15. Working(c)'
      BY <1>1, <2>2, <2>9, <2>11 DEF Working
  <2>16. CallInv'
      BY <2>11, <2>14, <2>15, OthersWait
  <2>17. OneOpen'
      BY <1>1 DEF OneOpen
  <2>18. FFInv'
      BY <2>11, <2>12, <2>16, <2>17
  <2>19. QED
      BY <1>1, <2>9, <2>11, <2>13, <2>18
<1>4. QED
    BY <1>2, <1>3

-----------------------------------------------------------------------------
(* The other hedges, and the process *)

LEMMA OutsideSteps ==
    ASSUME FFInv, (\E t \in Tickers : HedgeCloses(t) \/ \E v \in Venues : HedgeOpens(t, v)) \/ Crash
    PROVE  FFInv' /\ (\A d \in Callers : call'[d].at \notin Past) /\ UNCHANGED <<jobs, own>>
<1> USE DEF FFInv
<1>1. CASE \E t \in Tickers : HedgeCloses(t) \/ \E v \in Venues : HedgeOpens(t, v)
  <2>1. line = <<>> /\ UNCHANGED <<jobs, line, call, own, crashes>>
      BY <1>1 DEF HedgeCloses, HedgeOpens
  <2>2. pos' \in [Tickers -> [Venues -> Int]] /\ hedge' \in [Tickers -> Venues \cup {None}]
    <3>1. Size \in Int
        BY FFAssumption
    <3>2. ASSUME NEW t \in Tickers, NEW v \in Venues, HedgeOpens(t, v)
          PROVE  pos' \in [Tickers -> [Venues -> Int]] /\ hedge' \in [Tickers -> Venues \cup {None}]
        BY <3>1, <3>2 DEF HedgeOpens, TypeOK
    <3>3. ASSUME NEW t \in Tickers, HedgeCloses(t)
          PROVE  pos' \in [Tickers -> [Venues -> Int]] /\ hedge' \in [Tickers -> Venues \cup {None}]
      <4>1. hedge[t] \in Venues
          BY <3>3 DEF HedgeCloses, TypeOK
      <4>2. QED
          BY <3>1, <3>3, <4>1 DEF HedgeCloses, TypeOK
    <3>4. QED
        BY <1>1, <3>2, <3>3
  <2>3. TypeOK' /\ LineInv' /\ OneOpen'
      BY <2>1, <2>2 DEF TypeOK, LineInv, OneOpen
  <2>4. \A d \in Callers : call'[d] = call[d] /\ call'[d].at \notin Past
      BY <2>1 DEF LineInv, Past
  <2>5. CallInv'
      BY <2>4, NobodyWorks
  <2>6. QED
      BY <2>1, <2>3, <2>4, <2>5
<1>2. CASE Crash
  <2>1. /\ UNCHANGED <<jobs, pos, own, hedge>> /\ line' = <<>> /\ crashes' = crashes + 1
        /\ crashes < MaxCrashes /\ \A d \in Callers : call'[d] = Idle
      BY <1>2 DEF Crash
  <2>2. call' \in [Callers -> Call]
      BY <1>2, IdleIs DEF Crash
  <2>3. crashes' \in 0..MaxCrashes
      BY <2>1, FFAssumption DEF TypeOK
  <2>4. line' \in Seq(Callers) /\ Len(line') = 0
      BY <2>1
  <2>5. TypeOK'
      BY <2>1, <2>2, <2>3, <2>4 DEF TypeOK, Call
  <2>6. \A d \in Callers : call'[d].at \notin Past
      BY <2>1, IdleIs DEF Past
  <2>7. LineInv'
      BY <2>4, <2>6 DEF LineInv, Past
  <2>8. CallInv'
      BY <2>1, <2>6, NobodyWorks
  <2>9. OneOpen'
      BY <2>1 DEF OneOpen
  <2>10. QED
      BY <2>1, <2>5, <2>6, <2>7, <2>8, <2>9
<1>3. QED
    BY <1>1, <1>2

LEMMA FFStepKeeps ==
    ASSUME FFInv, [Next]_vars
    PROVE  FFInv'
<1>1. ASSUME NEW c \in Callers, Serves(c) PROVE FFInv'
    BY <1>1, BeginStep, SendsStep, UndoesStep, EntryEndsStep, CloseBeginsStep, CloseEndsStep,
       FillsStep DEF Serves
<1>2. ASSUME NEW c \in Callers, NEW t \in Tickers, Calls(c, t) PROVE FFInv'
    BY <1>2, CallsStep
<1>3. CASE UNCHANGED vars
    BY <1>3 DEF vars, FFInv, TypeOK, LineInv, CallInv, Waiting, Working, MayEnter, OpenJobs, OneOpen
<1>4. QED
    BY <1>1, <1>2, <1>3, OutsideSteps DEF Next

LEMMA FFStarts == Init => FFInv
<1> SUFFICES ASSUME Init PROVE FFInv
    OBVIOUS
<1>1. /\ jobs = <<>> /\ own = <<>> /\ line = <<>> /\ crashes = 0
      /\ \A d \in Callers : call[d] = Idle
    BY DEF Init
<1>2. /\ call \in [Callers -> Call] /\ pos \in [Tickers -> [Venues -> Int]]
      /\ hedge \in [Tickers -> Venues \cup {None}]
    BY IdleIs DEF Init
<1>3. /\ jobs \in Seq(Records) /\ own \in Seq(Amounts) /\ Len(own) = Len(jobs) /\ DOMAIN jobs = {}
      /\ line \in Seq(Callers) /\ Len(line) = 0
    BY <1>1
<1>4. crashes \in 0..MaxCrashes
    BY <1>1, FFAssumption
<1>5. TypeOK
    BY <1>2, <1>3, <1>4 DEF TypeOK, Call
<1>6. LineInv
    BY <1>1, <1>3, IdleIs DEF LineInv
<1>7. CallInv
    BY <1>1, IdleIs DEF CallInv, Waiting, Working
<1>8. OneOpen
    BY <1>3 DEF OneOpen
<1>9. QED
    BY <1>5, <1>6, <1>7, <1>8 DEF FFInv

\* The inductive invariant: only the first of the line is past the lock; an entry past its
\* check finds the ticker free, and its job never open, until it ends; a close works on the
\* one open job of its ticker, which has no other.
THEOREM FFInvHolds == Spec => []FFInv
    BY FFStarts, FFStepKeeps, PTL DEF Spec

\* Every variable has its type.
THEOREM TypeOKHolds == Spec => []TypeOK
<1>1. FFInv => TypeOK
    BY DEF FFInv
<1>2. QED
    BY <1>1, FFInvHolds, PTL

-----------------------------------------------------------------------------
(* What opens and closes *)

LEMMA JobsMove ==
    ASSUME [Next]_vars
    PROVE  jobs' = jobs \/ \E c \in Callers : Sends(c) \/ EntryEnds(c) \/ CloseEnds(c)
<1>1. ASSUME NEW c \in Callers, Serves(c), ~ (Sends(c) \/ EntryEnds(c) \/ CloseEnds(c))
      PROVE  jobs' = jobs
    BY <1>1 DEF Serves, EnterBegins, Unpriced, Undoes, CloseBegins, Fills
<1>2. ASSUME ~ \E c \in Callers : Serves(c) PROVE jobs' = jobs
    BY <1>2 DEF Next, Calls, HedgeOpens, HedgeCloses, Crash, vars
<1>3. QED
    BY <1>1, <1>2

\* Two legs are opened only for a ticker without a hedge of either kind, for any callers and
\* whatever is hedged and closed between the calls: the check and the orders are under one lock.
THEOREM OpensApartHolds == Spec => OpensApart
<1>1. ASSUME FFInv, [Next]_vars, NEW i \in DOMAIN jobs, IsOpen(jobs'[i]), ~ IsOpen(jobs[i])
      PROVE  OpenJobs(jobs[i].ticker) = {} /\ hedge[jobs[i].ticker] = None
  <2>1. PICK c \in Callers : Sends(c) \/ EntryEnds(c) \/ CloseEnds(c)
      BY <1>1, JobsMove
  <2>2. CASE Sends(c)
      BY <1>1, <2>2, SendsStep
  <2>3. CASE EntryEnds(c)
    <3>1. i = call[c].job /\ call[c].at \in {"orders", "undo"}
        BY <1>1, <2>3, EntryEndsStep
    <3>2. jobs[i].ticker = call[c].ticker /\ MayEnter(call[c].ticker)
        BY <1>1, <3>1 DEF FFInv, CallInv, Working
    <3>3. QED
        BY <3>2 DEF MayEnter
  <2>4. CASE CloseEnds(c)
    <3>1. i = call[c].job /\ call[c].at = "close"
        BY <1>1, <2>4, CloseEndsStep
    <3>2. QED
        BY <1>1, <3>1 DEF FFInv, CallInv, Working
  <2>5. QED
      BY <2>1, <2>2, <2>3, <2>4
<1>2. FFInv /\ [Next]_vars =>
          [\A i \in DOMAIN jobs : IsOpen(jobs'[i]) /\ ~ IsOpen(jobs[i]) =>
               OpenJobs(jobs[i].ticker) = {} /\ hedge[jobs[i].ticker] = None]_vars
    BY <1>1
<1>3. QED
    BY <1>2, FFInvHolds, PTL DEF Spec, OpensApart

-----------------------------------------------------------------------------
(* The book of hedges *)

\* What the book of js has for t, and its book.
OpenIn(js, t) == {i \in DOMAIN js : js[i].ticker = t /\ IsOpen(js[i])}
BookOf(js) == [t \in Tickers |-> IF OpenIn(js, t) = {} THEN None ELSE js[Max(OpenIn(js, t))].on]
OneIn(js) == \A i, k \in DOMAIN js :
    IsOpen(js[i]) /\ IsOpen(js[k]) /\ js[i].ticker = js[k].ticker => i = k

LEMMA BookIs ==
    ASSUME NEW js \in Seq(Records), OneIn(js), NEW t \in Tickers
    PROVE  /\ (\A i \in DOMAIN js : IsOpen(js[i]) => js[i].ticker # t) => BookOf(js)[t] = None
           /\ \A i \in DOMAIN js : IsOpen(js[i]) /\ js[i].ticker = t => BookOf(js)[t] = js[i].on
<1>1. ASSUME \A i \in DOMAIN js : IsOpen(js[i]) => js[i].ticker # t
      PROVE  BookOf(js)[t] = None
  <2>1. OpenIn(js, t) = {}
      BY <1>1 DEF OpenIn
  <2>2. QED
      BY <2>1 DEF BookOf
<1>2. ASSUME NEW i \in DOMAIN js, IsOpen(js[i]), js[i].ticker = t
      PROVE  BookOf(js)[t] = js[i].on
  <2>1. OpenIn(js, t) = {i}
      BY <1>2 DEF OpenIn, OneIn
  <2>2. i \in Int
      OBVIOUS
  <2>3. Max({i}) = i
      BY <2>2, MaxOfOne
  <2>4. QED
      BY <2>1, <2>3 DEF BookOf
<1>3. QED
    BY <1>1, <1>2

LEMMA ActiveIs == Active = BookOf(jobs) /\ Active' = BookOf(jobs')
<1>1. \A t : OpenJobs(t) = OpenIn(jobs, t) /\ OpenJobs(t)' = OpenIn(jobs', t)
    BY DEF OpenJobs, OpenIn
<1>2. Active = BookOf(jobs)
    BY <1>1 DEF Active, BookOf
<1>3. Active' = BookOf(jobs')
    BY <1>1 DEF Active, BookOf
<1>4. QED
    BY <1>2, <1>3

\* Books of stores that differ in the record of one job of one ticker differ there at most.
LEMMA BooksDiffer ==
    ASSUME NEW js \in Seq(Records), NEW ks \in Seq(Records), OneIn(js), OneIn(ks),
           DOMAIN js = DOMAIN ks, NEW i \in DOMAIN js, js[i].ticker = ks[i].ticker,
           js[i].on = ks[i].on, \A k \in DOMAIN js : k # i => js[k] = ks[k]
    PROVE  /\ \A t \in Tickers : t # js[i].ticker => BookOf(js)[t] = BookOf(ks)[t]
           /\ (IsOpen(js[i]) <=> IsOpen(ks[i])) => BookOf(js) = BookOf(ks)
<1>1. ASSUME NEW t \in Tickers, t # js[i].ticker \/ (IsOpen(js[i]) <=> IsOpen(ks[i]))
      PROVE  BookOf(js)[t] = BookOf(ks)[t]
  <2>1. \A k \in DOMAIN js : /\ (IsOpen(js[k]) /\ js[k].ticker = t <=> IsOpen(ks[k]) /\ ks[k].ticker = t)
                             /\ js[k].on = ks[k].on
      BY <1>1
  <2>2. CASE \E k \in DOMAIN js : IsOpen(js[k]) /\ js[k].ticker = t
    <3>1. PICK k \in DOMAIN js : IsOpen(js[k]) /\ js[k].ticker = t
        BY <2>2
    <3>2. BookOf(js)[t] = js[k].on
        BY <3>1, BookIs
    <3>3. BookOf(ks)[t] = ks[k].on
        BY <2>1, <3>1, BookIs
    <3>4. QED
        BY <2>1, <3>2, <3>3
  <2>3. CASE ~ \E k \in DOMAIN js : IsOpen(js[k]) /\ js[k].ticker = t
    <3>1. BookOf(js)[t] = None
        BY <2>3, BookIs
    <3>2. \A k \in DOMAIN ks : IsOpen(ks[k]) => ks[k].ticker # t
        BY <2>1, <2>3
    <3>3. BookOf(ks)[t] = None
        BY <3>2, BookIs
    <3>4. QED
        BY <3>1, <3>3
  <2>4. QED
      BY <2>2, <2>3
<1>2. ASSUME IsOpen(js[i]) <=> IsOpen(ks[i]) PROVE BookOf(js) = BookOf(ks)
    BY <1>1, <1>2 DEF BookOf
<1>3. QED
    BY <1>1, <1>2

LEMMA StepIsBooked ==
    ASSUME FFInv, FFInv', [Next]_vars
    PROVE  [Book!Next]_Active
<1>1. jobs \in Seq(Records) /\ jobs' \in Seq(Records) /\ OneIn(jobs) /\ OneIn(jobs')
    BY DEF FFInv, TypeOK, OneOpen, OneIn
<1>2. \A j \in Records : j.on \in Pairs /\ j.on # None /\ j.ticker \in Tickers
    BY FFAssumption DEF Records
<1>3. CASE jobs' = jobs
    BY <1>3, ActiveIs
<1>4. ASSUME NEW c \in Callers, Sends(c) PROVE Active' = Active
  <2>1. /\ \A i \in DOMAIN jobs : jobs'[i] = jobs[i]
        /\ \A i \in DOMAIN jobs' : IsOpen(jobs'[i]) => i \in DOMAIN jobs
        /\ DOMAIN jobs \subseteq DOMAIN jobs'
    <3>1. /\ \A i \in DOMAIN jobs : jobs'[i] = jobs[i]
          /\ DOMAIN jobs' = 1..(Len(jobs) + 1) /\ jobs'[Len(jobs) + 1].status = "requested"
        BY <1>4, SendsStep
    <3>2. DOMAIN jobs = 1..Len(jobs) /\ Len(jobs) \in Nat
        BY JobsAre DEF FFInv
    <3>3. ~ IsOpen(jobs'[Len(jobs) + 1])
        BY <3>1 DEF IsOpen
    <3>4. \A i \in DOMAIN jobs' : i = Len(jobs) + 1 \/ i \in DOMAIN jobs
        BY <3>1, <3>2
    <3>5. DOMAIN jobs \subseteq DOMAIN jobs'
        BY <3>1, <3>2
    <3>6. QED
        BY <3>1, <3>3, <3>4, <3>5
  <2>2. \A t : OpenIn(jobs', t) = OpenIn(jobs, t)
      BY <2>1 DEF OpenIn
  <2>3. \A t : OpenIn(jobs, t) # {} /\ t \in Tickers => BookOf(jobs')[t] = BookOf(jobs)[t]
    <3> SUFFICES ASSUME NEW t \in Tickers, OpenIn(jobs, t) # {}
                 PROVE  BookOf(jobs')[t] = BookOf(jobs)[t]
        OBVIOUS
    <3>1. PICK i \in DOMAIN jobs : IsOpen(jobs[i]) /\ jobs[i].ticker = t
        BY DEF OpenIn
    <3>2. BookOf(jobs)[t] = jobs[i].on
        BY <1>1, <3>1, BookIs
    <3>3. i \in DOMAIN jobs' /\ IsOpen(jobs'[i]) /\ jobs'[i].ticker = t
        BY <2>1, <3>1
    <3>4. BookOf(jobs')[t] = jobs'[i].on
        BY <1>1, <3>3, BookIs
    <3>5. QED
        BY <2>1, <3>2, <3>4
  <2>4. \A t \in Tickers : OpenIn(jobs, t) = {} => BookOf(jobs')[t] = BookOf(jobs)[t]
      BY <2>2 DEF BookOf
  <2>5. BookOf(jobs') = BookOf(jobs)
      BY <2>3, <2>4 DEF BookOf
  <2>6. QED
      BY <2>5, ActiveIs
<1>5. ASSUME NEW c \in Callers, EntryEnds(c) \/ CloseEnds(c) PROVE [Book!Next]_Active
  <2>1. PICK i : i = call[c].job
      OBVIOUS
  <2>2. call[c].at \in {"orders", "undo", "close"}
      BY <1>5, EntryEndsStep, CloseEndsStep
  <2>3. i \in DOMAIN jobs /\ jobs[i].ticker = call[c].ticker /\ jobs[i].on = call[c].on
      BY <2>1, <2>2, WorkerIs
  <2>4. jobs[i] \in Records /\ call[c].back \in Amounts
      BY <1>1, <2>2, <2>3, WorkerIs DEF Call
  <2>5. /\ DOMAIN jobs' = DOMAIN jobs /\ \A k \in DOMAIN jobs : k # i => jobs'[k] = jobs[k]
        /\ jobs'[i].ticker = jobs[i].ticker /\ jobs'[i].on = jobs[i].on
    <3>1. CASE EntryEnds(c)
        BY <2>1, <2>3, <3>1, EntryEndsStep
    <3>2. CASE CloseEnds(c)
        BY <2>1, <2>3, <2>4, <3>2, CloseEndsStep, RefreshedIs
    <3>3. QED
        BY <1>5, <3>1, <3>2
  <2>6. /\ \A t \in Tickers : t # jobs[i].ticker => BookOf(jobs)[t] = BookOf(jobs')[t]
        /\ (IsOpen(jobs[i]) <=> IsOpen(jobs'[i])) => BookOf(jobs) = BookOf(jobs')
      BY <1>1, <2>3, <2>5, BooksDiffer
  <2>7. PICK t \in Tickers : t = jobs[i].ticker
      BY <1>2, <2>4
  <2>8. CASE IsOpen(jobs[i]) <=> IsOpen(jobs'[i])
      BY <2>6, <2>8, ActiveIs
  <2>9. CASE IsOpen(jobs[i]) /\ ~ IsOpen(jobs'[i])
    <3>1. BookOf(jobs)[t] # None
        BY <1>1, <1>2, <2>3, <2>4, <2>7, <2>9, BookIs
    <3>2. \A k \in DOMAIN jobs' : IsOpen(jobs'[k]) => jobs'[k].ticker # t
        BY <1>1, <2>3, <2>5, <2>7, <2>9 DEF OneIn
    <3>3. BookOf(jobs')[t] = None
        BY <1>1, <3>2, BookIs
    <3>4. BookOf(jobs') = [BookOf(jobs) EXCEPT ![t] = None]
        BY <2>6, <2>7, <3>3 DEF BookOf
    <3>5. Book!Close(t)
        BY <3>1, <3>4, ActiveIs DEF Book!Close
    <3>6. QED
        BY <3>5 DEF Book!Next
  <2>10. CASE ~ IsOpen(jobs[i]) /\ IsOpen(jobs'[i])
    <3>1. EntryEnds(c) /\ call[c].at \in {"orders", "undo"}
      <4>1. CASE CloseEnds(c)
        <5>1. jobs'[i] = Refreshed(jobs[i], call[c].back)
            BY <2>1, <4>1, CloseEndsStep
        <5>2. PICK r : r = Refreshed(jobs[i], call[c].back)
            OBVIOUS
        <5>3. IsOpen(r) => IsOpen(jobs[i])
            BY <5>2 DEF Refreshed, IsOpen
        <5>4. IsOpen(r)
            BY <2>10, <5>1, <5>2
        <5>5. QED
            BY <2>10, <5>3, <5>4
      <4>2. CASE EntryEnds(c)
          BY <4>2, EntryEndsStep
      <4>3. QED
          BY <1>5, <4>1, <4>2
    <3>2. OpenJobs(call[c].ticker) = {}
        BY <3>1 DEF FFInv, CallInv, Working, MayEnter
    <3>3. \A k \in DOMAIN jobs : IsOpen(jobs[k]) => jobs[k].ticker # t
        BY <2>3, <2>7, <3>2 DEF OpenJobs
    <3>4. BookOf(jobs)[t] = None
        BY <1>1, <3>3, BookIs
    <3>5. BookOf(jobs')[t] = jobs'[i].on
        BY <1>1, <2>3, <2>5, <2>7, <2>10, BookIs
    <3>6. PICK on \in Pairs : on = jobs'[i].on
        BY <1>2, <2>4, <2>5
    <3>7. BookOf(jobs') = [BookOf(jobs) EXCEPT ![t] = on]
        BY <2>6, <2>7, <3>5, <3>6 DEF BookOf
    <3>8. Book!Open(t, on)
        BY <3>4, <3>7, ActiveIs DEF Book!Open
    <3>9. QED
        BY <3>8 DEF Book!Next
  <2>11. QED
      BY <2>8, <2>9, <2>10
<1>6. QED
    BY <1>3, <1>4, <1>5, JobsMove

\* The service implements the book of hedges, for any callers and tickers, with crashes at any
\* await: a ticker is on one pair of venues, and on another only once it is closed.
THEOREM BookSpecHolds == Spec => BookSpec
<1>1. Init => Book!Init
  <2> SUFFICES ASSUME Init PROVE Book!Init
      OBVIOUS
  <2>1. DOMAIN jobs = {}
      BY DEF Init
  <2>2. \A t : OpenJobs(t) = {}
      BY <2>1 DEF OpenJobs
  <2>3. QED
      BY <2>2 DEF Book!Init, Active
<1>2. FFInv /\ FFInv' /\ [Next]_vars => [Book!Next]_Active
    BY StepIsBooked
<1>3. QED
    BY <1>1, <1>2, FFInvHolds, PTL DEF Spec, BookSpec, Book!Spec

-----------------------------------------------------------------------------
(* What the records cover *)

\* What is left of a job at its venues is not more than its record says.
Covered(j, left) ==
    /\ j.status \in {"failed", "rolled_back", "closed"} => left = Zero
    /\ IsOpen(j) => \A leg \in Legs : left[leg] <= Less(j.qty, j.closed)[leg]

LEMMA CoversIs == RecordCovers <=> \A i \in DOMAIN jobs : Covered(jobs[i], own[i])
    BY DEF RecordCovers, Covered

LEMMA CoversThen == RecordCovers' <=> \A i \in DOMAIN jobs' : Covered(jobs'[i], own'[i])
    BY DEF RecordCovers, Covered

\* A call that is not at its orders has been told nothing.
LEMMA NobodyTold ==
    ASSUME \A d \in Callers : call'[d].at \notin {"orders", "undo", "close"}
    PROVE  ToldInv'
    BY DEF ToldInv, Told

LEMMA OneTold ==
    ASSUME NEW c \in Callers, Told(c)', \A d \in Callers : d # c => call'[d].at \notin Past
    PROVE  ToldInv'
<1> SUFFICES ASSUME NEW d \in Callers, d # c PROVE Told(d)'
    BY DEF ToldInv
<1>1. QED
    BY DEF Told, Past

\* A call that waits for the lock or has left it moves nothing.
LEMMA CoverCalls ==
    ASSUME FFInv, CoverInv, NEW c \in Callers, NEW t \in Tickers, Calls(c, t)
    PROVE  CoverInv'
<1>1. UNCHANGED <<jobs, own>>
    BY DEF Calls
<1>2. /\ call'[c].at = "lock" /\ \A d \in Callers : d # c => call'[d] = call[d]
  <2>1. PICK op, on : Asks(c, op, t, on)
      BY DEF Calls
  <2>2. QED
      BY <2>1 DEF Asks, Idle, FFInv, TypeOK
<1>3. ASSUME NEW d \in Callers PROVE Told(d)'
  <2>1. CASE d = c
      BY <1>2, <2>1 DEF Told
  <2>2. CASE d # c
    <3>1. call'[d] = call[d]
        BY <1>2, <2>2
    <3>2. Told(d)
        BY DEF CoverInv, ToldInv
    <3>3. QED
        BY <1>1, <3>1, <3>2 DEF Told
  <2>3. QED
      BY <2>1, <2>2
<1>4. RecordCovers'
    BY <1>1 DEF CoverInv, RecordCovers
<1>5. QED
    BY <1>3, <1>4 DEF CoverInv, ToldInv

LEMMA CoverSends ==
    ASSUME FFInv, CoverInv, NEW c \in Callers, Sends(c)
    PROVE  CoverInv'
<1>1. PICK n : n = Len(jobs) + 1
    OBVIOUS
<1>2. /\ call'[c].at = "orders" /\ call'[c].got = Zero /\ call'[c].job = n
      /\ jobs'[n].closed = Zero /\ jobs'[n].status = "requested" /\ own'[n] = Zero
      /\ DOMAIN jobs' = 1..n
      /\ \A d \in Callers : d # c => call'[d].at \notin Past
      /\ \A i \in DOMAIN jobs : jobs'[i] = jobs[i] /\ own'[i] = own[i]
    BY <1>1, SendsStep
<1>3. Told(c)'
    BY <1>2, ZeroIs DEF Told
<1>4. ToldInv'
    BY <1>2, <1>3, OneTold
<1>5. ASSUME NEW i \in DOMAIN jobs' PROVE Covered(jobs'[i], own'[i])
  <2>1. i = n \/ i \in DOMAIN jobs
      BY <1>1, <1>2, JobsAre DEF FFInv
  <2>2. CASE i = n
      BY <1>2, <2>2 DEF Covered, IsOpen
  <2>3. CASE i \in DOMAIN jobs
      BY <1>2, <2>3, CoversIs DEF CoverInv
  <2>4. QED
      BY <2>1, <2>2, <2>3
<1>6. QED
    BY <1>4, <1>5, CoversThen DEF CoverInv

LEMMA CoverUndoes ==
    ASSUME FFInv, CoverInv, NEW c \in Callers, Undoes(c)
    PROVE  CoverInv'
<1>1. /\ \A d \in Callers : d # c => call'[d].at \notin Past
      /\ call[c].at = "orders" /\ call'[c].at = "undo" /\ call'[c].job = call[c].job
      /\ call'[c].on = call[c].on /\ call'[c].got = call[c].got
      /\ call'[c].back = Zero /\ call'[c].due = Undo(call[c].on, call[c].got)
      /\ UNCHANGED <<jobs, own, hedge>>
    BY UndoesStep
<1>2. /\ call[c].on \in Pairs /\ call[c].got \in Amounts
      /\ call[c].job \in DOMAIN jobs
    BY <1>1, WorkerIs DEF Call
<1>3. own[call[c].job] = call[c].got /\ jobs[call[c].job].closed = Zero
    BY <1>1 DEF CoverInv, ToldInv, Told
<1>4. PICK u \in Amounts : u = Undo(call[c].on, call[c].got)
    BY <1>2, UndoIs
<1>5. PICK got \in Amounts : got = call[c].got
    BY <1>2
<1>6. \A leg \in Legs : /\ u[leg] <= u[leg] /\ Zero[leg] <= u[leg]
                        /\ got[leg] <= Less(got, Zero)[leg]
    BY ZeroIs, LessIs DEF Amounts
<1>7. Told(c)'
    BY <1>1, <1>3, <1>4, <1>5, <1>6 DEF Told
<1>8. ToldInv'
    BY <1>1, <1>7, OneTold
<1>9. RecordCovers'
    BY <1>1 DEF CoverInv, RecordCovers
<1>10. QED
    BY <1>8, <1>9 DEF CoverInv

\* One reply: what it leaves out of a reduce-only order stays on the safe side.
LEMMA FillTold ==
    ASSUME "market" \notin Quiet, FFInv, FFInv', CoverInv, NEW c \in Callers, NEW leg \in Legs,
           NEW did \in Nat, NEW said \in Nat, NEW e \in Call,
           said <= did, did <= call[c].due[leg], call'[c] = e, jobs' = jobs,
           call[c].at \in {"orders", "undo", "close"}, call[c].due[leg] > 0,
           e.at = call[c].at, e.job = call[c].job, e.on = call[c].on,
           e.due[leg] = 0, e.due[Other(leg)] = call[c].due[Other(leg)],
           e.got[Other(leg)] = call[c].got[Other(leg)],
           e.back[Other(leg)] = call[c].back[Other(leg)],
           own'[e.job][Other(leg)] = own[e.job][Other(leg)],
           IF e.at = "orders"
           THEN /\ said = did \/ "market" \in Quiet
                /\ e.got[leg] = said /\ e.back = call[c].back
                /\ own'[e.job][leg] = own[e.job][leg] + did
           ELSE /\ e.back[leg] = said /\ e.got = call[c].got
                /\ own'[e.job][leg] = Above(own[e.job][leg] - did)
    PROVE  /\ Told(c)'
           /\ e.at = "close" => \A l \in Legs : own'[e.job][l] <= own[e.job][l]
<1>1. /\ e.job \in DOMAIN jobs /\ e.on \in Pairs /\ call[c] \in Call
      /\ own[e.job] \in Amounts /\ own'[e.job] \in Amounts /\ jobs[e.job] \in Records
  <2>1. e.job \in DOMAIN jobs /\ e.on \in Pairs /\ call[c] \in Call
      BY WorkerIs
  <2>2. /\ \A i \in DOMAIN jobs : jobs[i] \in Records /\ own[i] \in Amounts
        /\ Len(own') = Len(jobs') /\ own' \in Seq(Amounts) /\ DOMAIN jobs = 1..Len(jobs)
      BY JobsAre DEF FFInv, TypeOK
  <2>3. QED
      BY <2>1, <2>2
<1>2. PICK o \in Amounts, n \in Amounts : o = own[e.job] /\ n = own'[e.job]
    BY <1>1
<1>3. PICK f \in Call : f = call[c]
    BY <1>1
<1>4. PICK j \in Records : j = jobs[e.job]
    BY <1>1
<1>5. /\ Other(leg) # leg /\ Other(leg) \in Legs /\ \A l \in Legs : l = leg \/ l = Other(leg)
    BY DEF Legs, Other
<1>6. \A l \in Legs : /\ o[l] \in Nat /\ n[l] \in Nat /\ e.due[l] \in Nat /\ f.due[l] \in Nat
                      /\ e.got[l] \in Nat /\ f.got[l] \in Nat
                      /\ e.back[l] \in Nat /\ f.back[l] \in Nat
    BY DEF Call, Amounts
<1>7. CASE e.at = "orders"
  <2>1. o = f.got /\ f.got[leg] = 0 /\ (\A l \in Legs : f.due[l] > 0 => f.got[l] = 0) /\ j.closed = Zero
      BY <1>2, <1>3, <1>4, <1>7 DEF CoverInv, ToldInv, Told
  <2>2. n[leg] = o[leg] + did /\ e.got[leg] = did /\ n[Other(leg)] = o[Other(leg)]
      BY <1>2, <1>7
  <2>3. \A l \in Legs : n[l] = e.got[l]
      BY <1>3, <1>5, <1>6, <2>1, <2>2
  <2>4. n = e.got
      BY <2>3 DEF Call, Amounts
  <2>5. \A l \in Legs : e.due[l] > 0 => e.got[l] = 0
      BY <1>3, <1>5, <1>6, <2>1
  <2>6. QED
      BY <1>2, <1>4, <1>7, <2>1, <2>4, <2>5 DEF Told
<1>8. CASE e.at # "orders"
  <2>1. /\ e.back[leg] = said /\ e.got = f.got /\ n[leg] = Above(o[leg] - did)
        /\ n[Other(leg)] = o[Other(leg)]
      BY <1>2, <1>3, <1>8
  <2>2. n[leg] = IF o[leg] > did THEN o[leg] - did ELSE 0
    <3>1. o[leg] - did \in Int
        BY <1>6
    <3>2. QED
        BY <1>6, <2>1, <3>1, AboveIs
  <2>3. \A l \in Legs : n[l] <= o[l]
      BY <1>5, <1>6, <2>1, <2>2
  <2>4. \A a \in Amounts : (\A l \in Legs : o[l] <= Less(a, f.back)[l])
                              => \A l \in Legs : n[l] <= Less(a, e.back)[l]
    <3> SUFFICES ASSUME NEW a \in Amounts, \A l \in Legs : o[l] <= Less(a, f.back)[l], NEW l \in Legs
                 PROVE  n[l] <= Less(a, e.back)[l]
        OBVIOUS
    <3>1. f.back \in Amounts /\ e.back \in Amounts /\ a[l] \in Nat
        BY DEF Call, Amounts
    <3>2. /\ Less(a, f.back)[l] = IF a[l] > f.back[l] THEN a[l] - f.back[l] ELSE 0
          /\ Less(a, e.back)[l] = IF a[l] > e.back[l] THEN a[l] - e.back[l] ELSE 0
        BY <3>1, LessIs
    <3>3. o[l] <= Less(a, f.back)[l]
        OBVIOUS
    <3>4. CASE l = leg
      <4>1. n[l] = (IF o[l] > did THEN o[l] - did ELSE 0) /\ e.back[l] = said
          BY <2>1, <2>2, <3>4
      <4>2. QED
          BY <1>6, <3>1, <3>2, <3>3, <4>1
    <3>5. CASE l = Other(leg)
      <4>1. n[l] = o[l] /\ e.back[l] = f.back[l]
          BY <1>3, <2>1, <3>5
      <4>2. QED
          BY <3>2, <3>3, <4>1
    <3>6. QED
        BY <1>5, <3>4, <3>5
  <2>5. CASE e.at = "undo"
    <3>1. PICK u \in Amounts : u = Undo(e.on, e.got)
        BY <1>1, UndoIs DEF Call
    <3>2. /\ \A l \in Legs : /\ f.due[l] <= u[l] /\ f.back[l] <= u[l]
                             /\ o[l] <= Less(e.got, f.back)[l]
          /\ j.closed = Zero
        BY <1>2, <1>3, <1>4, <2>1, <2>5, <3>1 DEF CoverInv, ToldInv, Told
    <3>3. \A l \in Legs : u[l] \in Nat
        BY DEF Amounts
    <3>4. \A l \in Legs : e.due[l] <= u[l] /\ e.back[l] <= u[l]
        BY <1>3, <1>5, <1>6, <2>1, <3>2, <3>3
    <3>5. \A l \in Legs : n[l] <= Less(e.got, e.back)[l]
        BY <2>4, <3>2 DEF Call
    <3>6. QED
        BY <1>2, <1>4, <2>5, <3>1, <3>2, <3>4, <3>5 DEF Told
  <2>6. CASE e.at = "close"
    <3>1. \A l \in Legs : o[l] <= Less(j.qty, f.back)[l]
        BY <1>2, <1>3, <1>4, <2>6 DEF CoverInv, ToldInv, Told
    <3>2. \A l \in Legs : n[l] <= Less(j.qty, e.back)[l]
        BY <2>4, <3>1 DEF Records
    <3>3. QED
        BY <1>2, <1>4, <2>3, <2>6, <3>2 DEF Told
  <2>7. QED
      BY <1>8, <2>5, <2>6
<1>9. QED
    BY <1>7, <1>8

LEMMA CoverFills ==
    ASSUME "market" \notin Quiet, FFInv, CoverInv, NEW c \in Callers, NEW leg \in Legs, Fills(c, leg)
    PROVE  CoverInv'
<1>1. /\ FFInv' /\ jobs' = jobs /\ \A d \in Callers : d # c => call'[d].at \notin Past
    BY FillsStep
<1>2. PICK did \in Nat, said \in Nat, e \in Call :
          /\ said <= did /\ did <= call[c].due[leg] /\ call'[c] = e
          /\ call[c].at \in {"orders", "undo", "close"} /\ call[c].due[leg] > 0
          /\ e.at = call[c].at /\ e.job = call[c].job /\ e.on = call[c].on
          /\ e.due[leg] = 0 /\ e.due[Other(leg)] = call[c].due[Other(leg)]
          /\ e.got[Other(leg)] = call[c].got[Other(leg)]
          /\ e.back[Other(leg)] = call[c].back[Other(leg)]
          /\ own'[e.job][Other(leg)] = own[e.job][Other(leg)]
          /\ IF e.at = "orders"
             THEN /\ said = did \/ "market" \in Quiet
                  /\ e.got[leg] = said /\ e.back = call[c].back
                  /\ own'[e.job][leg] = own[e.job][leg] + did
             ELSE /\ e.back[leg] = said /\ e.got = call[c].got
                  /\ own'[e.job][leg] = Above(own[e.job][leg] - did)
          /\ \A i \in DOMAIN jobs : i # e.job => own'[i] = own[i]
    BY FillsStep
<1>3. Told(c)' /\ (e.at = "close" => \A l \in Legs : own'[e.job][l] <= own[e.job][l])
    BY <1>1, <1>2, FillTold
<1>4. ToldInv'
    BY <1>1, <1>3, OneTold
<1>5. ASSUME NEW i \in DOMAIN jobs PROVE Covered(jobs[i], own'[i])
  <2>1. Covered(jobs[i], own[i])
      BY CoversIs DEF CoverInv
  <2>2. CASE i # e.job
      BY <1>2, <2>1, <2>2
  <2>3. CASE i = e.job /\ e.at \in {"orders", "undo"}
    <3>1. jobs[i].status = "requested"
        BY <1>2, <2>3 DEF FFInv, CallInv, Working
    <3>2. QED
        BY <3>1 DEF Covered, IsOpen
  <2>4. CASE i = e.job /\ e.at = "close"
    <3>1. IsOpen(jobs[i])
        BY <1>2, <2>4 DEF FFInv, CallInv, Working
    <3>2. PICK k \in Amounts : k = Less(jobs[i].qty, jobs[i].closed)
      <4>1. jobs[i] \in Records
          BY JobsAre DEF FFInv
      <4>2. QED
          BY <4>1, LessIs DEF Records
    <3>3. PICK o \in Amounts, n \in Amounts : o = own[i] /\ n = own'[i]
      <4>1. own[i] \in Amounts
          BY JobsAre DEF FFInv
      <4>2. own' \in Seq(Amounts) /\ Len(own') = Len(jobs') /\ DOMAIN jobs = 1..Len(jobs)
          BY <1>1, JobsAre DEF FFInv, TypeOK
      <4>3. QED
          BY <1>1, <4>1, <4>2
    <3>4. \A l \in Legs : o[l] <= k[l] /\ n[l] <= o[l]
        BY <1>3, <2>1, <2>4, <3>1, <3>2, <3>3 DEF Covered
    <3>5. \A l \in Legs : n[l] <= k[l]
        BY <3>4 DEF Amounts
    <3>6. QED
        BY <3>1, <3>2, <3>3, <3>5 DEF Covered, IsOpen
  <2>5. QED
      BY <1>2, <2>2, <2>3, <2>4
<1>6. QED
    BY <1>1, <1>4, <1>5, CoversThen DEF CoverInv

\* An entry ends: what it has told is its record.
LEMMA EntryTold ==
    ASSUME FFInv, CoverInv, NEW c \in Callers, EntryEnds(c), NEW got \in Amounts, NEW back \in Amounts,
           got = call[c].got, back = call[c].back
    PROVE  /\ \A leg \in Legs : own[call[c].job][leg] <= Less(got, back)[leg]
           /\ \A leg \in Legs :
                  back[leg] <= IF got[leg] > got[Other(leg)] THEN got[leg] - got[Other(leg)] ELSE 0
           /\ jobs[call[c].job].closed = Zero
<1>1. call[c].at \in {"orders", "undo"} /\ jobs[call[c].job].closed = Zero
    BY EntryEndsStep DEF CoverInv, ToldInv, Told
<1>2. call[c].on \in Pairs
    BY <1>1, WorkerIs
<1>3. PICK u \in Amounts : u = Undo(call[c].on, got)
    BY <1>2, UndoIs
<1>4. \A leg \in Legs :
          u[leg] <= IF got[leg] > got[Other(leg)] THEN got[leg] - got[Other(leg)] ELSE 0
    BY <1>2, <1>3, UndoIs
<1>5. \A leg \in Legs : /\ got[leg] \in Nat /\ back[leg] \in Nat /\ u[leg] \in Nat
                        /\ got[Other(leg)] \in Nat
    BY LegsAre DEF Amounts
<1>6. CASE call[c].at = "orders"
  <2>1. back = Zero /\ own[call[c].job] = got
      BY <1>6 DEF FFInv, CallInv, Waiting, CoverInv, ToldInv, Told
  <2>2. \A leg \in Legs : got[leg] <= Less(got, back)[leg] /\ back[leg] = 0
      BY <1>5, <2>1, LessIs, ZeroIs
  <2>3. \A leg \in Legs :
            back[leg] <= IF got[leg] > got[Other(leg)] THEN got[leg] - got[Other(leg)] ELSE 0
      BY <1>5, <2>2
  <2>4. QED
      BY <1>1, <2>1, <2>2, <2>3
<1>7. CASE call[c].at = "undo"
  <2>1. \A leg \in Legs : own[call[c].job][leg] <= Less(got, back)[leg] /\ back[leg] <= u[leg]
      BY <1>3, <1>7 DEF CoverInv, ToldInv, Told
  <2>2. \A leg \in Legs :
            back[leg] <= IF got[leg] > got[Other(leg)] THEN got[leg] - got[Other(leg)] ELSE 0
      BY <1>4, <1>5, <2>1
  <2>3. QED
      BY <1>1, <2>1, <2>2
<1>8. QED
    BY <1>1, <1>6, <1>7

LEMMA CoverEntryEnds ==
    ASSUME FFInv, CoverInv, NEW c \in Callers, EntryEnds(c)
    PROVE  CoverInv'
<1>1. PICK i : i = call[c].job
    OBVIOUS
<1>2. /\ \A d \in Callers : call'[d].at \notin Past
      /\ call[c].at \in {"orders", "undo"}
      /\ DOMAIN jobs' = DOMAIN jobs
      /\ \A k \in DOMAIN jobs : k # i => jobs'[k] = jobs[k]
      /\ jobs'[i].status = Verdict(call[c].got, call[c].back)
      /\ IsOpen(jobs'[i]) => jobs'[i].qty = Less(call[c].got, call[c].back)
      /\ jobs'[i].closed = jobs[i].closed
      /\ UNCHANGED <<own, hedge>>
    BY <1>1, EntryEndsStep
<1>3. i \in DOMAIN jobs /\ call[c].got \in Amounts /\ call[c].back \in Amounts
    BY <1>1, <1>2, WorkerIs DEF Call
<1>4. PICK got \in Amounts, back \in Amounts : got = call[c].got /\ back = call[c].back
    BY <1>3
<1>5. PICK o \in Amounts : o = own[i]
    BY <1>3, JobsAre DEF FFInv
<1>6. PICK net \in Amounts : net = Less(got, back)
    BY LessIs
<1>7. /\ \A leg \in Legs : o[leg] <= net[leg]
      /\ \A leg \in Legs :
             back[leg] <= IF got[leg] > got[Other(leg)] THEN got[leg] - got[Other(leg)] ELSE 0
      /\ jobs[i].closed = Zero
    BY <1>1, <1>4, <1>5, <1>6, EntryTold
<1>8. \A leg \in Legs : /\ o[leg] \in Nat /\ net[leg] \in Nat /\ got[leg] \in Nat /\ back[leg] \in Nat
                        /\ got[Other(leg)] \in Nat /\ Other(leg) \in Legs
                        /\ net[leg] = IF got[leg] > back[leg] THEN got[leg] - back[leg] ELSE 0
    BY <1>6, LessIs, LegsAre DEF Amounts
<1>9. Verdict(got, back) = "rolled_back" => net = Zero
    BY <1>6, VerdictIs
<1>10. Verdict(got, back) = "failed" => net = Zero
  <2>1. ASSUME got = Zero PROVE net = Zero
    <3>1. \A leg \in Legs : net[leg] = 0
        BY <1>8, <2>1, ZeroIs
    <3>2. QED
        BY <3>1, ZeroIs
  <2>2. ASSUME \A leg \in Legs : got[leg] # 0, NEW leg \in Legs, net[leg] = 0 PROVE FALSE
    <3>1. got[leg] # 0 /\ got[Other(leg)] # 0
        BY <1>8, <2>2
    <3>2. got[leg] <= back[leg]
        BY <1>8, <2>2
    <3>3. back[leg] <= IF got[leg] > got[Other(leg)] THEN got[leg] - got[Other(leg)] ELSE 0
        BY <1>7
    <3>4. QED
        BY <1>8, <3>1, <3>2, <3>3
  <2>3. QED
      BY <1>6, <2>1, <2>2, VerdictIs
<1>11. net = Zero => o = Zero
  <2>1. ASSUME net = Zero PROVE \A leg \in Legs : o[leg] = 0
      BY <1>7, <1>8, <2>1, ZeroIs
  <2>2. QED
      BY <2>1, ZeroIs
<1>12. Covered(jobs'[i], o)
  <2>1. jobs'[i].status = Verdict(got, back) /\ Verdict(got, back) # "closed"
      BY <1>2, <1>4, VerdictIs
  <2>2. jobs'[i].status \in {"failed", "rolled_back", "closed"} => o = Zero
      BY <1>9, <1>10, <1>11, <2>1
  <2>3. ASSUME IsOpen(jobs'[i]), NEW leg \in Legs
        PROVE  o[leg] <= Less(jobs'[i].qty, jobs'[i].closed)[leg]
    <3>1. jobs'[i].qty = net /\ jobs'[i].closed = Zero
        BY <1>2, <1>4, <1>6, <1>7, <2>3
    <3>2. Less(net, Zero)[leg] = IF net[leg] > Zero[leg] THEN net[leg] - Zero[leg] ELSE 0
        BY ZeroIs, LessIs
    <3>3. o[leg] <= Less(net, Zero)[leg]
        BY <1>7, <1>8, <3>2, ZeroIs
    <3>4. QED
        BY <3>1, <3>3
  <2>4. QED
      BY <2>2, <2>3 DEF Covered
<1>13. \A k \in DOMAIN jobs' : Covered(jobs'[k], own'[k])
    BY <1>2, <1>5, <1>12, CoversIs DEF CoverInv
<1>14. ToldInv'
    BY <1>2, NobodyTold DEF Past
<1>15. QED
    BY <1>13, <1>14, CoversThen DEF CoverInv

\* A close begins with what the record had left: what an earlier close told is told again.
LEMMA CoverCloseBegins ==
    ASSUME FFInv, CoverInv, NEW c \in Callers, CloseBegins(c)
    PROVE  CoverInv'
<1>1. /\ FFInv' /\ \A d \in Callers : d # c => call'[d].at \notin Past
      /\ call'[c].at \in {"idle", "close"}
      /\ call'[c].at = "close" => call'[c].back = Zero
      /\ UNCHANGED <<jobs, own, hedge>>
    BY CloseBeginsStep
<1>2. RecordCovers'
    BY <1>1 DEF CoverInv, RecordCovers
<1>3. ASSUME call'[c].at = "close" PROVE Told(c)'
  <2>1. PICK i : i = call'[c].job
      OBVIOUS
  <2>2. i \in DOMAIN jobs /\ IsOpen(jobs[i])
      BY <1>1, <1>3, <2>1 DEF FFInv, CallInv, Working
  <2>3. jobs[i] \in Records /\ own[i] \in Amounts
      BY <2>2, JobsAre DEF FFInv
  <2>4. PICK q \in Amounts, b \in Amounts, o \in Amounts :
            q = jobs[i].qty /\ b = jobs[i].closed /\ o = own[i]
      BY <2>3 DEF Records
  <2>5. \A leg \in Legs : o[leg] <= Less(q, b)[leg]
      BY <2>2, <2>4 DEF CoverInv, RecordCovers
  <2>6. \A leg \in Legs : o[leg] <= Less(q, Zero)[leg]
    <3> SUFFICES ASSUME NEW leg \in Legs PROVE o[leg] <= Less(q, Zero)[leg]
        OBVIOUS
    <3>1. q[leg] \in Nat /\ b[leg] \in Nat /\ o[leg] \in Nat /\ Zero[leg] = 0
        BY ZeroIs DEF Amounts
    <3>2. /\ Less(q, b)[leg] = IF q[leg] > b[leg] THEN q[leg] - b[leg] ELSE 0
          /\ Less(q, Zero)[leg] = IF q[leg] > Zero[leg] THEN q[leg] - Zero[leg] ELSE 0
        BY LessIs, ZeroIs
    <3>3. QED
        BY <2>5, <3>1, <3>2
  <2>7. QED
      BY <1>1, <1>3, <2>1, <2>4, <2>6 DEF Told
<1>4. Told(c)'
    BY <1>1, <1>3 DEF Told
<1>5. ToldInv'
    BY <1>1, <1>4, OneTold
<1>6. QED
    BY <1>2, <1>5 DEF CoverInv

\* A close ends: it writes what it was told, and the job is closed when that leaves nothing.
LEMMA CoverCloseEnds ==
    ASSUME FFInv, CoverInv, NEW c \in Callers, CloseEnds(c)
    PROVE  CoverInv'
<1>1. PICK i : i = call[c].job
    OBVIOUS
<1>2. /\ \A d \in Callers : call'[d].at \notin Past
      /\ call[c].at = "close" /\ DOMAIN jobs' = DOMAIN jobs
      /\ \A k \in DOMAIN jobs : k # i => jobs'[k] = jobs[k]
      /\ jobs'[i] = Refreshed(jobs[i], call[c].back)
      /\ UNCHANGED <<own, hedge>>
    BY <1>1, CloseEndsStep
<1>3. i \in DOMAIN jobs /\ call[c].back \in Amounts /\ IsOpen(jobs[i])
    BY <1>1, <1>2, WorkerIs DEF Call, FFInv, CallInv, Working
<1>4. jobs[i] \in Records /\ own[i] \in Amounts
    BY <1>3, JobsAre DEF FFInv
<1>5. PICK j \in Records, back \in Amounts, o \in Amounts :
          j = jobs[i] /\ back = call[c].back /\ o = own[i]
    BY <1>3, <1>4
<1>6. PICK net \in Amounts : net = Less(j.qty, back)
    BY LessIs DEF Records
<1>7. \A leg \in Legs : o[leg] <= net[leg]
    BY <1>1, <1>2, <1>5, <1>6 DEF CoverInv, ToldInv, Told
<1>8. net = Zero => o = Zero
  <2>1. ASSUME net = Zero PROVE \A leg \in Legs : o[leg] = 0
      BY <1>7, <2>1, ZeroIs DEF Amounts
  <2>2. QED
      BY <2>1, ZeroIs
<1>9. PICK r : r = Refreshed(j, back)
    OBVIOUS
<1>10. /\ r.qty = j.qty /\ r.closed = back
       /\ r.status = IF net = Zero THEN "closed" ELSE j.status
    BY <1>6, <1>9 DEF Refreshed, Records
<1>11. j.status \in {"ff_open", "ff_partial"}
    BY <1>3, <1>5 DEF IsOpen
<1>12. Covered(r, o)
    BY <1>6, <1>7, <1>8, <1>10, <1>11 DEF Covered, IsOpen
<1>13. \A k \in DOMAIN jobs' : Covered(jobs'[k], own'[k])
    BY <1>2, <1>5, <1>9, <1>12, CoversIs DEF CoverInv
<1>14. ToldInv'
    BY <1>2, NobodyTold DEF Past
<1>15. QED
    BY <1>13, <1>14, CoversThen DEF CoverInv

LEMMA CoverStepKeeps ==
    ASSUME "market" \notin Quiet, FFInv, CoverInv, [Next]_vars
    PROVE  CoverInv'
<1>1. CASE UNCHANGED vars
    BY <1>1 DEF vars, CoverInv, ToldInv, Told, RecordCovers
<1>2. ASSUME NEW c \in Callers, NEW t \in Tickers, Calls(c, t) PROVE CoverInv'
    BY <1>2, CoverCalls
<1>3. ASSUME NEW c \in Callers, EnterBegins(c) \/ Unpriced(c) PROVE CoverInv'
    BY <1>3, BeginStep, NobodyTold DEF CoverInv, RecordCovers
<1>4. ASSUME NEW c \in Callers, Sends(c) PROVE CoverInv'
    BY <1>4, CoverSends
<1>5. ASSUME NEW c \in Callers, NEW leg \in Legs, Fills(c, leg) PROVE CoverInv'
    BY <1>5, CoverFills
<1>6. ASSUME NEW c \in Callers, Undoes(c) PROVE CoverInv'
    BY <1>6, CoverUndoes
<1>7. ASSUME NEW c \in Callers, EntryEnds(c) PROVE CoverInv'
    BY <1>7, CoverEntryEnds
<1>8. ASSUME NEW c \in Callers, CloseBegins(c) PROVE CoverInv'
    BY <1>8, CoverCloseBegins
<1>9. ASSUME NEW c \in Callers, CloseEnds(c) PROVE CoverInv'
    BY <1>9, CoverCloseEnds
<1>10. ASSUME (\E t \in Tickers : HedgeCloses(t) \/ \E v \in Venues : HedgeOpens(t, v)) \/ Crash
       PROVE  CoverInv'
    BY <1>10, OutsideSteps, NobodyTold DEF CoverInv, RecordCovers, Past
<1>11. QED
    BY <1>1, <1>2, <1>3, <1>4, <1>5, <1>6, <1>7, <1>8, <1>9, <1>10 DEF Next, Serves

\* A job that failed, was rolled back or was closed has nothing left at its venues, and an open
\* one not more than its record says, for any callers, venues, lots and crashes: whatever the
\* replies of its reduce-only orders keep back, if those of its own orders tell in full.
THEOREM RecordCoversHolds ==
    ASSUME "market" \notin Quiet
    PROVE  Spec => []RecordCovers
<1>1. Init => CoverInv
    BY DEF Init, Idle, CoverInv, ToldInv, Told, RecordCovers
<1>2. FFInv /\ CoverInv /\ [Next]_vars => CoverInv'
    BY CoverStepKeeps
<1>3. CoverInv => RecordCovers
    BY DEF CoverInv
<1>4. QED
    BY <1>1, <1>2, <1>3, FFInvHolds, PTL DEF Spec
=============================================================================
