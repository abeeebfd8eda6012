------------------------- MODULE ListingDesk_proofs -------------------------
(***************************************************************************)
(* What the three strategies that trade listings keep, for any tickers,    *)
(* notices, caps and numbers of jobs: first each service, then the desk.   *)
(***************************************************************************)
EXTENDS ListingDesk, FiniteSetTheorems, TLAPS

-----------------------------------------------------------------------------
(* The world *)

LEMMA MaxOfZero ==
    ASSUME NEW a \in Int
    PROVE  Max({0, a}) \in Nat /\ Max({0, a}) = (IF a > 0 THEN a ELSE 0)
    BY DEF Max

LEMMA MinOfTwo ==
    ASSUME NEW a \in Int, NEW b \in Int
    PROVE  Min({a, b}) \in {a, b} /\ Min({a, b}) <= a /\ Min({a, b}) <= b
    BY DEF Min

\* A reduce-only order leaves no less than nothing.
LEMMA ReduceOnly ==
    ASSUME WorldTypeOK, NEW t \in Tickers, NEW most \in Nat
    PROVE  /\ \A q \in Fills(Min({most, ToBuy(t)})) : q \in Nat /\ q <= sold[t]
           /\ \A q \in Fills(Min({most, ToSell(t)})) : q \in Nat /\ q <= bought[t]
<1>1. sold[t] \in Nat /\ bought[t] \in Nat
    BY DEF WorldTypeOK
<1>2. ToBuy(t) \in Nat /\ ToBuy(t) <= sold[t] /\ ToSell(t) \in Nat /\ ToSell(t) <= bought[t]
  <2>1. PICK a \in Int, b \in Int : a = sold[t] - bought[t] /\ b = bought[t] - sold[t]
    BY <1>1
  <2>2. ToBuy(t) = Max({0, a}) /\ ToSell(t) = Max({0, b})
    BY <2>1 DEF ToBuy, ToSell
  <2>3. /\ ToBuy(t) \in Nat /\ ToBuy(t) = (IF a > 0 THEN a ELSE 0)
        /\ ToSell(t) \in Nat /\ ToSell(t) = (IF b > 0 THEN b ELSE 0)
    BY <2>2, MaxOfZero
  <2>4. QED
    BY <1>1, <2>1, <2>3
<1>3. /\ Min({most, ToBuy(t)}) <= ToBuy(t) /\ Min({most, ToBuy(t)}) \in Nat
      /\ Min({most, ToSell(t)}) <= ToSell(t) /\ Min({most, ToSell(t)}) \in Nat
  <2> SUFFICES ASSUME NEW b \in Nat PROVE Min({most, b}) <= b /\ Min({most, b}) \in Nat
    BY <1>2
  <2>1. Min({most, b}) \in {most, b} /\ Min({most, b}) <= b
    BY MinOfTwo
  <2>2. QED
    BY <2>1
<1>4. QED
    BY <1>1, <1>2, <1>3 DEF Fills

LEMMA WorldStarts ==
    ASSUME WorldAssumption, WorldInit
    PROVE  WorldTypeOK /\ InboxInv /\ day = 0
    BY DEF WorldAssumption, WorldInit, WorldTypeOK, InboxInv

LEMMA WorldKeeps ==
    ASSUME WorldAssumption, WorldTypeOK, InboxInv, WorldNext
    PROVE  WorldTypeOK' /\ InboxInv' /\ day \in Nat /\ day' \in Nat /\ day <= day'
<1>1. ASSUME NEW n \in Notices, Announce(n) PROVE WorldTypeOK' /\ InboxInv'
  <2>1. announced[n] = 0 /\ announced' = [announced EXCEPT ![n] = 1]
    BY <1>1 DEF Announce, Feed!Announce, WorldTypeOK
  <2>2. WorldTypeOK'
    BY <1>1, <2>1 DEF Announce, WorldTypeOK
  <2>3. ASSUME NEW x \in inbox' PROVE announced'[x[2]] = 1
    BY <1>1, <2>1, <2>3 DEF Announce, InboxInv, WorldTypeOK
  <2>4. QED
    BY <2>2, <2>3 DEF InboxInv
<1>2. CASE Midnight
    BY <1>2 DEF Midnight, WorldTypeOK, InboxInv, WorldAssumption
<1>3. ASSUME NEW t \in Tickers, UpbitLists(t) PROVE WorldTypeOK' /\ InboxInv'
    BY <1>3 DEF UpbitLists, WorldTypeOK, InboxInv
<1>4. day \in Nat /\ day' \in Nat /\ day <= day'
    BY DEF WorldNext, Announce, Midnight, UpbitLists, WorldTypeOK, WorldAssumption
<1>5. QED
    BY <1>1, <1>2, <1>3, <1>4 DEF WorldNext

-----------------------------------------------------------------------------
(* The Bithumb follower *)

LEMMA FollowStarts ==
    ASSUME WorldAssumption, FollowInit, day = 0
    PROVE  FollowTypeOK /\ FollowInv
<1>1. Full \in Nat
    BY DEF WorldAssumption
<1>2. FollowTypeOK
    BY DEF FollowInit, FollowTypeOK
<1>3. BoughtOnce /\ EnteredIsMonitored
    BY <1>1 DEF FollowInit, BoughtOnce, EnteredIsMonitored
<1>4. QED
    BY <1>2, <1>3 DEF FollowInit, FollowInv

LEMMA FollowAside ==
    ASSUME FollowTypeOK, FollowInv, UNCHANGED followVars, day \in Nat, day' \in Nat, day <= day'
    PROVE  FollowTypeOK' /\ FollowInv'
    BY DEF followVars, FollowTypeOK, FollowInv, BoughtOnce, EnteredIsMonitored

\* What is bought was fired first, so nothing is bought twice; a watch that ends takes its
\* job along, and what it hands over is the monitor's.
LEMMA FollowKeeps ==
    ASSUME WorldAssumption, FollowerAssumption, FollowTypeOK, FollowInv, WorldTypeOK, FollowNext
    PROVE  FollowTypeOK' /\ FollowInv'
<1> USE DEF FollowTypeOK, FollowInv, BoughtOnce, EnteredIsMonitored, WorldTypeOK
<1>1. Full \in Nat /\ Full > 0 /\ day \in Nat /\ About \in [Notices -> Tickers]
    BY DEF WorldAssumption
<1>2. ASSUME NEW n \in Notices, Follows(n) PROVE FollowTypeOK' /\ FollowInv'
    BY <1>1, <1>2 DEF Follows
<1>3. ASSUME NEW t \in Tickers, GivesUp(t) PROVE FollowTypeOK' /\ FollowInv'
    BY <1>1, <1>3 DEF GivesUp, WatchEnds, worldVars
<1>4. ASSUME NEW t \in Tickers, Refuses(t) PROVE FollowTypeOK' /\ FollowInv'
    BY <1>1, <1>4 DEF Refuses, WatchEnds, RollFollowDay, worldVars
<1>5. ASSUME NEW t \in Tickers, Buys(t) PROVE FollowTypeOK' /\ FollowInv'
    BY <1>1, <1>5 DEF Buys, RollFollowDay, worldVars
<1>6. ASSUME NEW t \in Tickers, BuysDry(t) PROVE FollowTypeOK' /\ FollowInv'
    BY <1>1, <1>6 DEF BuysDry, WatchEnds, RollFollowDay, worldVars
<1>7. ASSUME NEW t \in Tickers, Bought(t) PROVE FollowTypeOK' /\ FollowInv'
    BY <1>1, <1>7 DEF Bought, WatchEnds, worldVars
<1>8. ASSUME NEW t \in Tickers, BuyRaises(t) PROVE FollowTypeOK' /\ FollowInv'
    BY <1>1, <1>8 DEF BuyRaises, WatchEnds, worldVars
<1>9. ASSUME NEW t \in Tickers, Closes(t) PROVE FollowTypeOK' /\ FollowInv'
    BY <1>1, <1>9 DEF Closes, worldVars
<1>10. ASSUME NEW t \in Tickers, Sold(t) PROVE FollowTypeOK' /\ FollowInv'
    BY <1>1, <1>10 DEF Sold, worldVars
<1>11. ASSUME NEW t \in Tickers, Aborts(t) PROVE FollowTypeOK' /\ FollowInv'
    BY <1>1, <1>11 DEF Aborts, worldVars
<1>12. QED
    BY <1>2, <1>3, <1>4, <1>5, <1>6, <1>7, <1>8, <1>9, <1>10, <1>11 DEF FollowNext

LEMMA FollowTrades ==
    ASSUME WorldTypeOK, InboxInv, FollowNext
    PROVE  WorldTypeOK' /\ InboxInv' /\ day' = day /\ UNCHANGED <<bought, announced>>
           /\ inbox' \subseteq inbox
    BY DEF FollowNext, Follows, GivesUp, Refuses, Buys, BuysDry, Bought, BuyRaises, Closes, Sold, Aborts,
           WatchEnds, RollFollowDay, worldVars, WorldTypeOK, InboxInv

-----------------------------------------------------------------------------
(* The executor *)

\* One unit more of what is multiplied by the size of an order.
LEMMA OneMore ==
    ASSUME NEW f \in Nat, NEW c \in Nat
    PROVE  f * (c + 1) = f * c + f /\ f * c \in Nat
    OBVIOUS

LEMMA MonotoneTimes ==
    ASSUME NEW f \in Nat, NEW a \in Nat, NEW b \in Nat, a <= b
    PROVE  f * a <= f * b
    OBVIOUS

LEMMA UnderBoth ==
    ASSUME NEW f \in Nat, NEW c \in Nat, NEW s \in Nat, NEW x \in Nat, NEW y \in Nat,
           s + f <= c, y <= x + f
    PROVE  s + y <= c + x
    OBVIOUS

\* The bound of the day's shorts.
Bound == ShortCap + Full * Max({0, Cardinality(Tickers) - 1})

LEMMA BoundIs ==
    ASSUME WorldAssumption, ExecutorAssumption
    PROVE  \E c \in Nat : c + 1 = Cardinality(Tickers) /\ Bound = ShortCap + Full * c /\ Full * c \in Nat
<1>1. IsFiniteSet(Tickers) /\ Cardinality(Tickers) \in Nat /\ Full \in Nat /\ ShortCap \in Nat
    BY FS_CardinalityType DEF WorldAssumption, ExecutorAssumption
<1>2. Cardinality(Tickers) # 0
    BY <1>1, FS_EmptySet DEF WorldAssumption
<1>3. PICK c \in Nat : c = Cardinality(Tickers) - 1
    BY <1>1, <1>2
<1>4. Max({0, c}) = c
    BY MaxOfZero
<1>5. Bound = ShortCap + Full * c
    BY <1>3, <1>4 DEF Bound
<1>6. QED
    BY <1>1, <1>3, <1>5, OneMore

LEMMA ExecStarts ==
    ASSUME WorldAssumption, ExecutorAssumption, ExecInit, day = 0
    PROVE  ExecTypeOK /\ ShortInv
<1>1. shorting = {} /\ IsFiniteSet(shorting) /\ Cardinality(shorting) = 0
    BY FS_EmptySet DEF ExecInit
<1>2. ExecTypeOK
    BY DEF ExecInit, ExecTypeOK, NoClose, WorldAssumption
<1>3. ShortSpentBounded
  <2>1. Full * 0 = 0 /\ ShortCap \in Nat
    BY DEF WorldAssumption, ExecutorAssumption
  <2>2. 0 <= Bound
    BY <2>1, BoundIs
  <2>3. QED
    BY <1>1, <2>1, <2>2 DEF ExecInit, ShortSpentBounded, Bound
<1>4. QED
    BY <1>1, <1>2, <1>3 DEF ShortInv

LEMMA ExecAside ==
    ASSUME ExecTypeOK, ShortInv, UNCHANGED shortVars, day \in Nat, day' \in Nat, day <= day'
    PROVE  ExecTypeOK' /\ ShortInv'
    BY DEF shortVars, ExecTypeOK, ShortInv, ShortSpentBounded

\* The orders in flight are of as many tickers.
LEMMA InflightFits ==
    ASSUME WorldAssumption, NEW S \in SUBSET Notices, IsFiniteSet(S),
           \A m, n \in S : m # n => About[m] # About[n]
    PROVE  Cardinality(S) <= Cardinality(Tickers)
<1> DEFINE f == [n \in S |-> About[n]]
<1>1. f \in Injection(S, Tickers)
    BY DEF WorldAssumption, Injection, IsInjective
<1>2. QED
    BY <1>1, FS_Injection DEF WorldAssumption

LEMMA ExecKeeps ==
    ASSUME WorldAssumption, ExecutorAssumption, ExecTypeOK, ShortInv, WorldTypeOK, ExecNext
    PROVE  ExecTypeOK' /\ ShortInv'
<1>1. /\ Full \in Nat /\ Full > 0 /\ day \in Nat /\ About \in [Notices -> Tickers] /\ ShortCap \in Nat
      /\ shortSpent \in Nat /\ shortDay \in 0..day /\ shorting \subseteq Notices /\ IsFiniteSet(shorting)
      /\ Cardinality(shorting) \in Nat
    BY FS_CardinalityType DEF WorldAssumption, ExecutorAssumption, WorldTypeOK, ExecTypeOK, ShortInv
<1>2. /\ shortSpent + Full * Cardinality(shorting) <= Bound /\ Full * Cardinality(shorting) \in Nat
      /\ Bound \in Nat
  <2>1. shortSpent + Full * Cardinality(shorting) <= Bound
    BY DEF ShortInv, ShortSpentBounded, Bound
  <2>2. Full * Cardinality(shorting) \in Nat
    BY <1>1, OneMore
  <2>3. Bound \in Nat
    BY <1>1, BoundIs
  <2>4. QED
    BY <2>1, <2>2, <2>3
<1>3. ASSUME NEW n \in Notices, ShortSkips(n) PROVE ExecTypeOK' /\ ShortInv'
  <2>1. UNCHANGED <<liveShort, shorting, book, hot, closing, day>>
    BY <1>3 DEF ShortSkips
  <2>2. shortSpent' \in Nat /\ shortSpent' <= shortSpent /\ shortDay' \in 0..day'
    BY <1>1, <1>3, <2>1 DEF ShortSkips, RollShortDay
  <2>3. QED
    BY <1>1, <1>2, <2>1, <2>2 DEF ExecTypeOK, ShortInv, ShortSpentBounded, Bound
<1>4. ASSUME NEW n \in Notices, ShortBegins(n) PROVE ExecTypeOK' /\ ShortInv'
  <2>1. /\ About[n] \notin Inflight /\ book[About[n]] = 0 /\ day' = day /\ UNCHANGED <<book, closing, liveShort>>
        /\ shortDay' = day /\ shortSpent' + Full <= ShortCap /\ shortSpent' \in Nat
        /\ shorting' \in {shorting, shorting \cup {n}} /\ hot' \in {hot, hot \cup {About[n]}}
    BY <1>1, <1>4 DEF ShortBegins, Admits, RollShortDay
  <2>2. n \notin shorting /\ \A m \in shorting : About[m] # About[n]
    BY <2>1 DEF Inflight
  <2>3. shorting' \in SUBSET Notices /\ IsFiniteSet(shorting') /\ \A l, m \in shorting' : l # m => About[l] # About[m]
    BY <1>1, <2>1, <2>2, FS_AddElement DEF ShortInv
  <2>4. Cardinality(shorting') \in Nat /\ Cardinality(shorting') <= Cardinality(Tickers)
    BY <2>3, InflightFits, FS_CardinalityType
  <2>5. PICK c \in Nat : c + 1 = Cardinality(Tickers) /\ Bound = ShortCap + Full * c /\ Full * c \in Nat
    BY BoundIs
  <2>6. Full * Cardinality(shorting') <= Full * c + Full /\ Full * Cardinality(shorting') \in Nat
    BY <1>1, <2>4, <2>5, MonotoneTimes, OneMore
  <2>7. shortSpent' + Full * Cardinality(shorting') <= Bound
    <3>1. PICK x \in Nat, y \in Nat : x = Full * c /\ y = Full * Cardinality(shorting')
      BY <2>5, <2>6
    <3>2. y <= x + Full /\ Bound = ShortCap + x
      BY <2>5, <2>6, <3>1
    <3>3. PICK s \in Nat : s = shortSpent' /\ s + Full <= ShortCap
      BY <2>1
    <3>4. Full \in Nat /\ ShortCap \in Nat
      BY <1>1
    <3>5. s + y <= ShortCap + x
      BY ONLY <3>2, <3>3, <3>4, UnderBoth
    <3>6. QED
      BY <3>1, <3>2, <3>3, <3>5
  <2>8. \A m \in shorting' : book'[About[m]] = 0
    BY <2>1 DEF ShortInv
  <2>9. ExecTypeOK'
    BY <1>1, <2>1, <2>3 DEF ExecTypeOK
  <2>10. QED
    BY <2>3, <2>7, <2>8, <2>9 DEF ShortInv, ShortSpentBounded, Bound
<1>5. ASSUME NEW n \in Notices, n \in shorting,
             shorting' = shorting \ {n}
      PROVE  /\ IsFiniteSet(shorting') /\ Cardinality(shorting') \in Nat
             /\ Full * Cardinality(shorting') \in Nat
             /\ Full * Cardinality(shorting) = Full * Cardinality(shorting') + Full
  <2>1. IsFiniteSet(shorting') /\ Cardinality(shorting') = Cardinality(shorting) - 1 /\ Cardinality(shorting') \in Nat
    BY <1>1, <1>5, FS_RemoveElement, FS_CardinalityType
  <2>2. Cardinality(shorting) = Cardinality(shorting') + 1
    BY <1>1, <2>1
  <2>3. QED
    BY <1>1, <2>1, <2>2, OneMore
<1>6. ASSUME NEW n \in Notices, ShortOpens(n) PROVE ExecTypeOK' /\ ShortInv'
  <2>1. /\ n \in shorting /\ shorting' = shorting \ {n} /\ shortSpent' = shortSpent + Full
        /\ UNCHANGED <<day, shortDay, closing, liveShort>> /\ hot' = hot \cup {About[n]}
        /\ \E q \in 1..Full : book' = [book EXCEPT ![About[n]] = q]
    <3>1. Fills(Full) \ {0} = 1..Full
      BY <1>1 DEF Fills
    <3>2. QED
      BY <1>6, <3>1 DEF ShortOpens
  <2>2. ExecTypeOK'
    BY <1>1, <2>1 DEF ExecTypeOK
  <2>3. \A m \in shorting' : book'[About[m]] = 0
    BY <1>1, <2>1 DEF ShortInv, ExecTypeOK
  <2>4. IsFiniteSet(shorting') /\ shortSpent' + Full * Cardinality(shorting') <= Bound
    <3>1. /\ IsFiniteSet(shorting') /\ Full * Cardinality(shorting') \in Nat
          /\ Full * Cardinality(shorting) = Full * Cardinality(shorting') + Full
      BY <1>5, <2>1
    <3>2. QED
      BY <1>1, <1>2, <2>1, <3>1
  <2>5. QED
    BY <2>1, <2>2, <2>3, <2>4 DEF ShortInv, ShortSpentBounded, Bound
<1>7. ASSUME NEW n \in Notices, ShortFails(n) PROVE ExecTypeOK' /\ ShortInv'
  <2>1. /\ n \in shorting /\ shorting' = shorting \ {n}
        /\ UNCHANGED <<day, shortSpent, shortDay, closing, liveShort, book, hot>>
    BY <1>7 DEF ShortFails
  <2>2. ExecTypeOK'
    BY <1>1, <2>1 DEF ExecTypeOK
  <2>3. IsFiniteSet(shorting') /\ shortSpent' + Full * Cardinality(shorting') <= Bound
    <3>1. /\ IsFiniteSet(shorting') /\ Full * Cardinality(shorting') \in Nat
          /\ Full * Cardinality(shorting) = Full * Cardinality(shorting') + Full
      BY <1>5, <2>1
    <3>2. QED
      BY <1>1, <1>2, <2>1, <3>1
  <2>4. QED
    BY <2>1, <2>2, <2>3 DEF ShortInv, ShortSpentBounded, Bound
<1>8. ASSUME NEW t \in Tickers, Cools(t) PROVE ExecTypeOK' /\ ShortInv'
    BY <1>8 DEF Cools, worldVars, ExecTypeOK, ShortInv, ShortSpentBounded
<1>9. ASSUME NEW c \in Closers, NEW t \in Tickers, CloseBegins(c, t) PROVE ExecTypeOK' /\ ShortInv'
    BY <1>1, <1>9 DEF CloseBegins, worldVars, ExecTypeOK, ShortInv, ShortSpentBounded
<1>10. ASSUME NEW c \in Closers, CloseEnds(c) PROVE ExecTypeOK' /\ ShortInv'
  <2>1. closing[c] \in Tickers \X (1..Full)
    BY <1>10 DEF CloseEnds, ExecTypeOK
  <2>2. /\ book' \in [Tickers -> 0..Full] /\ \A t \in Tickers : book[t] = 0 => book'[t] = 0
        /\ UNCHANGED <<day, liveShort, shorting, hot, shortSpent, shortDay>>
        /\ closing' = [closing EXCEPT ![c] = NoClose]
    BY <1>1, <1>10, <2>1 DEF CloseEnds, ExecTypeOK
  <2>3. QED
    BY <1>1, <2>2 DEF ExecTypeOK, ShortInv, ShortSpentBounded
<1>11. QED
    BY <1>3, <1>4, <1>6, <1>7, <1>8, <1>9, <1>10 DEF ExecNext

\* Its orders leave what was sold and bought natural numbers.
LEMMA ExecTrades ==
    ASSUME WorldAssumption, ExecTypeOK, WorldTypeOK, InboxInv, ExecNext
    PROVE  WorldTypeOK' /\ InboxInv' /\ day' = day /\ bought' = bought /\ announced' = announced
           /\ inbox' \subseteq inbox /\ UNCHANGED <<started, upbit>>
<1>1. Full \in Nat /\ About \in [Notices -> Tickers]
    BY DEF WorldAssumption
<1>2. UNCHANGED <<started, announced, day, upbit, bought>> /\ inbox' \subseteq inbox
    BY DEF ExecNext, ShortSkips, ShortBegins, ShortOpens, ShortFails, Cools, CloseBegins, CloseEnds, worldVars
<1>3. sold' \in [Tickers -> Nat]
  <2>1. CASE sold' = sold
    BY <2>1 DEF WorldTypeOK
  <2>2. ASSUME NEW n \in Notices, ShortOpens(n) \/ ShortFails(n) PROVE sold' \in [Tickers -> Nat]
    BY <1>1, <2>2 DEF ShortOpens, ShortFails, Fills, WorldTypeOK
  <2>3. ASSUME NEW c \in Closers, CloseEnds(c) PROVE sold' \in [Tickers -> Nat]
    <3>1. PICK t \in Tickers, most \in Nat : closing[c][1] = t /\ closing[c][2] = most
      BY <1>1, <2>3 DEF CloseEnds, ExecTypeOK
    <3>2. PICK q \in Fills(Min({most, ToBuy(t)})) : sold' = [sold EXCEPT ![t] = @ - q]
      BY <2>3, <3>1, Zenon DEF CloseEnds
    <3>3. q \in Nat /\ q <= sold[t]
      BY <3>2, ReduceOnly
    <3>4. QED
      BY <3>2, <3>3 DEF WorldTypeOK
  <2>4. QED
    BY <2>1, <2>2, <2>3 DEF ExecNext, ShortSkips, ShortBegins, Cools, CloseBegins, worldVars
<1>4. QED
    BY <1>2, <1>3 DEF WorldTypeOK, InboxInv

\* In flight or open, and not twice.
LEMMA ShortInvIsOne ==
    ASSUME ExecTypeOK, WorldAssumption, ShortInv
    PROVE  OneShort
<1> SUFFICES ASSUME NEW t \in Tickers
             PROVE  Cardinality({n \in shorting : About[n] = t}) + (IF book[t] > 0 THEN 1 ELSE 0) <= 1
    BY DEF OneShort
<1> DEFINE S == {n \in shorting : About[n] = t}
<1>1. CASE \E n \in shorting : About[n] = t
  <2>1. PICK n \in shorting : About[n] = t
    BY <1>1
  <2>2. S = {n}
    BY <2>1 DEF ShortInv
  <2>3. Cardinality(S) = 1
    BY <2>2, FS_Singleton
  <2>4. ~(book[t] > 0)
    BY <2>1 DEF ShortInv
  <2>5. QED
    <3> HIDE DEF S
    <3>1. Cardinality(S) + (IF book[t] > 0 THEN 1 ELSE 0) <= 1
      BY <2>3, <2>4
    <3>2. QED
      BY <3>1 DEF S
<1>2. CASE ~\E n \in shorting : About[n] = t
  <2>1. S = {}
    BY <1>2
  <2>2. Cardinality(S) = 0
    BY <2>1, FS_EmptySet
  <2>3. QED
    <3> HIDE DEF S
    <3>1. Cardinality(S) + (IF book[t] > 0 THEN 1 ELSE 0) <= 1
      BY <2>2
    <3>2. QED
      BY <3>1 DEF S
<1>3. QED
    BY <1>1, <1>2

-----------------------------------------------------------------------------
(* The cross-listing long *)

\* What a step does to one job, the others being left alone.
OnlyJob(i) == jobs' \in [JobIds -> Job] /\ \A k \in JobIds \ {i} : jobs'[k] = jobs[k]
Job5(j, t, pc, status, closed, qty) ==
    j.t = t /\ j.pc = pc /\ j.status = status /\ j.closed = closed /\ j.qty = qty

LEMMA JobFields ==
    ASSUME NEW t \in Tickers, NEW closed \in BOOLEAN, NEW qty \in Nat, NEW pc \in Pcs,
           NEW status \in Statuses
    PROVE  [t |-> t, closed |-> closed, qty |-> qty, pc |-> pc, status |-> status] \in Job
    BY DEF Job

LEMMA JobOf ==
    ASSUME LongTypeOK, NEW i \in JobIds
    PROVE  /\ jobs[i] \in Job /\ jobs[i].t \in Tickers /\ jobs[i].closed \in BOOLEAN /\ jobs[i].qty \in Nat
           /\ jobs[i].pc \in Pcs /\ jobs[i].status \in Statuses
    BY DEF LongTypeOK, Job

LEMMA JobsAfter ==
    ASSUME LongTypeOK, NEW i \in JobIds, NEW j \in Job, jobs' = [jobs EXCEPT ![i] = j]
    PROVE  OnlyJob(i) /\ jobs'[i] = j
    BY DEF LongTypeOK, OnlyJob

LEMMA NoJobIs ==
    ASSUME WorldAssumption
    PROVE  NoJob \in Job /\ \E t \in Tickers : Job5(NoJob, t, "free", "none", FALSE, 0)
    BY DEF NoJob, Job, Pcs, Statuses, WorldAssumption, Job5

LEMMA AtMeans ==
    ASSUME LongTypeOK, NEW i \in JobIds, NEW pc \in Pcs, At(i, pc)
    PROVE  OnlyJob(i) /\ Job5(jobs'[i], jobs[i].t, pc, jobs[i].status, jobs[i].closed, jobs[i].qty)
<1>1. [jobs[i] EXCEPT !.pc = pc] \in Job
    BY JobOf DEF Job
<1>2. QED
    BY <1>1, JobsAfter, JobOf DEF At, Job5, Job, LongTypeOK

LEMMA SkipMeans ==
    ASSUME LongTypeOK, NEW i \in JobIds, NEW status \in Statuses, Skip(i, status)
    PROVE  OnlyJob(i) /\ Job5(jobs'[i], jobs[i].t, "done", status, TRUE, jobs[i].qty)
<1>1. jobs' = [jobs EXCEPT ![i] = [jobs[i] EXCEPT !.status = status, !.closed = TRUE, !.pc = "done"]]
    BY DEF Skip, LongTypeOK
<1>2. "done" \in Pcs
    BY DEF Pcs, Statuses
<1>3. PICK j \in Job : j = jobs[i]
    BY JobOf
<1>4. /\ [j EXCEPT !.status = status, !.closed = TRUE, !.pc = "done"] \in Job
      /\ Job5([j EXCEPT !.status = status, !.closed = TRUE, !.pc = "done"], j.t, "done", status, TRUE, j.qty)
    BY <1>2 DEF Job, Job5
<1>5. QED
    BY <1>1, <1>3, <1>4, JobsAfter

LEMMA ChecksMeans ==
    ASSUME LongTypeOK, NEW i \in JobIds, NEW t \in Tickers,
           jobs' = [jobs EXCEPT ![i].t = t, ![i].pc = "checking"]
    PROVE  OnlyJob(i) /\ Job5(jobs'[i], t, "checking", jobs[i].status, jobs[i].closed, jobs[i].qty)
<1>1. jobs' = [jobs EXCEPT ![i] = [jobs[i] EXCEPT !.t = t, !.pc = "checking"]]
    BY DEF LongTypeOK
<1>2. "checking" \in Pcs
    BY DEF Pcs, Statuses
<1>3. PICK j \in Job : j = jobs[i]
    BY JobOf
<1>4. /\ [j EXCEPT !.t = t, !.pc = "checking"] \in Job
      /\ Job5([j EXCEPT !.t = t, !.pc = "checking"], t, "checking", j.status, j.closed, j.qty)
    BY <1>2 DEF Job, Job5
<1>5. QED
    BY <1>1, <1>3, <1>4, JobsAfter

LEMMA AsksMeans ==
    ASSUME LongTypeOK, NEW i \in JobIds, NEW t \in Tickers, EnterManual(i, t)
    PROVE  OnlyJob(i) /\ Job5(jobs'[i], t, "asking", jobs[i].status, jobs[i].closed, jobs[i].qty)
<1>1. jobs' = [jobs EXCEPT ![i] = [jobs[i] EXCEPT !.t = t, !.pc = "asking"]]
    BY DEF EnterManual, LongTypeOK
<1>2. "asking" \in Pcs
    BY DEF Pcs, Statuses
<1>3. PICK j \in Job : j = jobs[i]
    BY JobOf
<1>4. /\ [j EXCEPT !.t = t, !.pc = "asking"] \in Job
      /\ Job5([j EXCEPT !.t = t, !.pc = "asking"], t, "asking", j.status, j.closed, j.qty)
    BY <1>2 DEF Job, Job5
<1>5. QED
    BY <1>1, <1>3, <1>4, JobsAfter

LEMMA ObservesMeans ==
    ASSUME LongTypeOK, NEW i \in JobIds, 
           jobs' = [jobs EXCEPT ![i].status = "OBSERVING", ![i].pc = "observing"]
    PROVE  OnlyJob(i) /\ Job5(jobs'[i], jobs[i].t, "observing", "OBSERVING", jobs[i].closed, jobs[i].qty)
<1>1. jobs' = [jobs EXCEPT ![i] = [jobs[i] EXCEPT !.status = "OBSERVING", !.pc = "observing"]]
    BY DEF LongTypeOK
<1>2. "observing" \in Pcs /\ "OBSERVING" \in Statuses
    BY DEF Pcs, Statuses
<1>3. PICK j \in Job : j = jobs[i]
    BY JobOf
<1>4. /\ [j EXCEPT !.status = "OBSERVING", !.pc = "observing"] \in Job
      /\ Job5([j EXCEPT !.status = "OBSERVING", !.pc = "observing"], j.t, "observing", "OBSERVING", j.closed, j.qty)
    BY <1>2 DEF Job, Job5
<1>5. QED
    BY <1>1, <1>3, <1>4, JobsAfter

LEMMA StartsMeans ==
    ASSUME LongTypeOK, NEW i \in JobIds, ManualStarts(i)
    PROVE  OnlyJob(i) /\ Job5(jobs'[i], jobs[i].t, "starting", "CANDIDATE", jobs[i].closed, jobs[i].qty)
<1>1. jobs' = [jobs EXCEPT ![i] = [jobs[i] EXCEPT !.pc = "starting", !.status = "CANDIDATE"]]
    BY DEF ManualStarts, LongTypeOK
<1>2. "starting" \in Pcs /\ "CANDIDATE" \in Statuses
    BY DEF Pcs, Statuses
<1>3. PICK j \in Job : j = jobs[i]
    BY JobOf
<1>4. /\ [j EXCEPT !.pc = "starting", !.status = "CANDIDATE"] \in Job
      /\ Job5([j EXCEPT !.pc = "starting", !.status = "CANDIDATE"], j.t, "starting", "CANDIDATE", j.closed, j.qty)
    BY <1>2 DEF Job, Job5
<1>5. QED
    BY <1>1, <1>3, <1>4, JobsAfter

LEMMA EntersMeans ==
    ASSUME LongTypeOK, NEW i \in JobIds, NEW q \in Nat, NEW pc \in Pcs,
           jobs' = [jobs EXCEPT ![i].status = "ENTERED", ![i].qty = q, ![i].pc = pc]
    PROVE  OnlyJob(i) /\ Job5(jobs'[i], jobs[i].t, pc, "ENTERED", jobs[i].closed, q)
<1>1. jobs' = [jobs EXCEPT ![i] = [jobs[i] EXCEPT !.status = "ENTERED", !.qty = q, !.pc = pc]]
    BY DEF LongTypeOK
<1>2. "ENTERED" \in Statuses
    BY DEF Pcs, Statuses
<1>3. PICK j \in Job : j = jobs[i]
    BY JobOf
<1>4. /\ [j EXCEPT !.status = "ENTERED", !.qty = q, !.pc = pc] \in Job
      /\ Job5([j EXCEPT !.status = "ENTERED", !.qty = q, !.pc = pc], j.t, pc, "ENTERED", j.closed, q)
    BY <1>2 DEF Job, Job5
<1>5. QED
    BY <1>1, <1>3, <1>4, JobsAfter

LEMMA SoldMeans ==
    ASSUME LongTypeOK, NEW i \in JobIds, NEW who, LongSold(i, who)
    PROVE  OnlyJob(i) /\ Job5(jobs'[i], jobs[i].t, IF who = "monitor" THEN "done" ELSE jobs[i].pc,
                              "CLOSED", TRUE, jobs[i].qty)
<1>1. PICK pc \in Pcs : pc = IF who = "monitor" THEN "done" ELSE jobs[i].pc
    BY JobOf DEF Pcs
<1>2. jobs' = [jobs EXCEPT ![i] = [jobs[i] EXCEPT !.status = "CLOSED", !.closed = TRUE, !.pc = pc]]
    BY <1>1 DEF LongSold, LongTypeOK
<1>3. PICK j \in Job : j = jobs[i]
    BY JobOf
<1>4. /\ [j EXCEPT !.status = "CLOSED", !.closed = TRUE, !.pc = pc] \in Job
      /\ Job5([j EXCEPT !.status = "CLOSED", !.closed = TRUE, !.pc = pc], j.t, pc, "CLOSED", TRUE, j.qty)
  <2>1. "CLOSED" \in Statuses
    BY DEF Statuses
  <2>2. QED
    BY <2>1 DEF Job, Job5
<1>5. QED
    BY <1>1, <1>2, <1>3, <1>4, JobsAfter

\* What the manual exit of job i makes of job k.
LEMMA ExitMeans ==
    ASSUME LongTypeOK, NEW i \in JobIds, ExitManual(i)
    PROVE  /\ jobs' \in [JobIds -> Job]
           /\ \A k \in JobIds :
                 Job5(jobs'[k], jobs[k].t, IF k \in active[jobs[i].t] THEN "done" ELSE jobs[k].pc,
                      IF k = i THEN "CLOSED" ELSE jobs[k].status, IF k = i THEN TRUE ELSE jobs[k].closed,
                      jobs[k].qty)
<1> DEFINE at(k) == IF k \in active[jobs[i].t] THEN "done" ELSE jobs[k].pc
           f(k) == IF k = i THEN [jobs[k] EXCEPT !.closed = TRUE, !.status = "CLOSED", !.pc = at(k)]
                            ELSE [jobs[k] EXCEPT !.pc = at(k)]
<1>1. jobs' = [k \in JobIds |-> f(k)]
    BY DEF ExitManual
<1>2. ASSUME NEW k \in JobIds
      PROVE  /\ f(k) \in Job
             /\ Job5(f(k), jobs[k].t, at(k), IF k = i THEN "CLOSED" ELSE jobs[k].status,
                     IF k = i THEN TRUE ELSE jobs[k].closed, jobs[k].qty)
  <2>1. at(k) \in Pcs /\ jobs[k] \in Job
    BY JobOf DEF Pcs
  <2> HIDE DEF at
  <2>2. QED
    BY <2>1 DEF Job, Statuses, Job5
<1> HIDE DEF f
<1>3. QED
    BY <1>1, <1>2

LEMMA LongStarts ==
    ASSUME WorldAssumption, CrossAssumption, LongInit, day = 0
    PROVE  LongTypeOK /\ SavedInv /\ EntryInv /\ TaskInv /\ DoorInv
<1>1. PICK u \in Tickers : Job5(NoJob, u, "free", "none", FALSE, 0) /\ NoJob \in Job
    BY NoJobIs
<1>2. LongTypeOK
    BY <1>1 DEF LongInit, LongTypeOK, WorldAssumption
<1>3. SavedInv /\ TaskInv /\ DoorInv
  <2>1. \A i \in JobIds : jobs[i].pc = "free" /\ closers[i] = {}
    BY <1>1 DEF LongInit, Job5
  <2>2. inflight = {} /\ \A t \in Tickers : active[t] = {}
    BY DEF LongInit
  <2>3. \A i \in JobIds : ~Running(i) /\ ~Busy(i)
    BY <2>1 DEF Running, AtWork, Busy
  <2>4. SavedInv
    BY <2>1 DEF SavedInv
  <2>5. TaskInv
    BY <2>1, <2>2 DEF TaskInv
  <2>6. DoorInv
    BY <2>1, <2>3 DEF DoorInv
  <2>7. QED
    BY <2>4, <2>5, <2>6
<1>4. EntryInv
  <2>1. {i \in JobIds : InMarket(jobs[i])} = {}
    BY <1>1 DEF LongInit, InMarket, Job5
  <2>2. MaxOpen \in Nat /\ 0 < MaxOpen
    BY DEF CrossAssumption
  <2>3. Cardinality({i \in JobIds : InMarket(jobs[i])}) < MaxOpen
    BY <2>1, <2>2, FS_EmptySet
  <2>4. QED
    BY <1>1, <2>3 DEF LongInit, EntryInv, EntryShape, Job5
<1>5. QED
    BY <1>2, <1>3, <1>4


LEMMA OpensMeans ==
    ASSUME LongTypeOK, WorldAssumption, CrossAssumption, NEW i \in JobIds, LongOpens(i)
    PROVE  OnlyJob(i) /\ \E q \in Nat \ {0}, pc \in {"telling", "monitoring"} :
              Job5(jobs'[i], jobs[i].t, pc, "ENTERED", jobs[i].closed, q)
<1>1. notional \in Nat \ {0}
    BY DEF WorldAssumption, CrossAssumption, LongTypeOK
<1>2. "telling" \in Pcs /\ "monitoring" \in Pcs
    BY DEF Pcs
<1>3. CASE liveLong
  <2>1. PICK q \in Fills(notional) \ {0} :
           jobs' = [jobs EXCEPT ![i].status = "ENTERED", ![i].qty = q, ![i].pc = "telling"]
    BY <1>3, Zenon DEF LongOpens
  <2>2. q \in Nat \ {0}
    BY <1>1 DEF Fills
  <2>3. QED
    BY <1>2, <2>1, <2>2, EntersMeans
<1>4. CASE ~liveLong
  <2>1. jobs' = [jobs EXCEPT ![i].status = "ENTERED", ![i].qty = notional, ![i].pc = "monitoring"]
    BY <1>4, Zenon DEF LongOpens
  <2>2. QED
    BY <1>1, <1>2, <2>1, EntersMeans
<1>5. QED
    BY <1>3, <1>4

LEMMA LongJobs ==
    ASSUME WorldAssumption, CrossAssumption, LongTypeOK, LongNext
    PROVE  jobs' \in [JobIds -> Job]
<1>1. ASSUME NEW n \in Notices, LongWins(n) PROVE jobs' \in [JobIds -> Job]
    BY <1>1 DEF LongWins, LongTypeOK
<1>2. ASSUME NEW n \in Notices, NEW i \in JobIds, LongChecks(n, i) PROVE jobs' \in [JobIds -> Job]
  <2>1. About[n] \in Tickers
    BY DEF WorldAssumption
  <2>2. CASE jobs' = jobs
    BY <2>2 DEF LongTypeOK
  <2>3. CASE jobs' = [jobs EXCEPT ![i].t = About[n], ![i].pc = "checking"]
    BY <2>1, <2>3, ChecksMeans DEF OnlyJob
  <2>4. QED
    BY <1>2, <2>2, <2>3 DEF LongChecks
<1>3. ASSUME NEW i \in JobIds, LongAccepts(i) PROVE jobs' \in [JobIds -> Job]
  <2>1. CASE jobs' = [jobs EXCEPT ![i] = NoJob]
    BY <2>1, NoJobIs, JobsAfter DEF OnlyJob
  <2>2. CASE At(i, "scoring")
    BY <2>2, AtMeans DEF OnlyJob, Pcs
  <2>3. QED
    BY <1>3, <2>1, <2>2 DEF LongAccepts
<1>4. ASSUME NEW i \in JobIds, Scored(i) PROVE jobs' \in [JobIds -> Job]
    BY <1>4, ObservesMeans, SkipMeans DEF Scored, OnlyJob, Statuses
<1>5. ASSUME NEW i \in JobIds, Pumped(i) PROVE jobs' \in [JobIds -> Job]
    BY <1>5, SkipMeans DEF Pumped, OnlyJob, Statuses
<1>6. ASSUME NEW i \in JobIds, Enters(i) PROVE jobs' \in [JobIds -> Job]
    BY <1>6, AtMeans, SkipMeans DEF Enters, OnlyJob, Statuses, Pcs
<1>7. ASSUME NEW i \in JobIds, LongOpens(i) PROVE jobs' \in [JobIds -> Job]
    BY <1>7, OpensMeans DEF OnlyJob
<1>8. ASSUME NEW i \in JobIds, LongTold(i) PROVE jobs' \in [JobIds -> Job]
    BY <1>8, AtMeans DEF LongTold, OnlyJob, Pcs
<1>9. ASSUME NEW i \in JobIds, LongFails(i) PROVE jobs' \in [JobIds -> Job]
    BY <1>9, SkipMeans DEF LongFails, OnlyJob, Statuses
<1>10. ASSUME NEW i \in JobIds, LongLeaves(i) PROVE jobs' \in [JobIds -> Job]
    BY <1>10, AtMeans DEF LongLeaves, OnlyJob, Pcs
<1>11. ASSUME NEW i \in JobIds, MonitorSells(i) PROVE jobs' \in [JobIds -> Job]
    BY <1>11, AtMeans DEF MonitorSells, OnlyJob, Pcs
<1>12. ASSUME NEW i \in JobIds, NoticeSells(i) \/ UserSells(i) PROVE jobs' \in [JobIds -> Job]
    BY <1>12 DEF NoticeSells, UserSells, LongTypeOK
<1>13. ASSUME NEW i \in JobIds, NEW who \in {"monitor", "notice", "user"}, LongSold(i, who) PROVE jobs' \in [JobIds -> Job]
    BY <1>13, SoldMeans DEF OnlyJob
<1>14. ASSUME NEW i \in JobIds, ManualStarts(i) PROVE jobs' \in [JobIds -> Job]
    BY <1>14, StartsMeans DEF OnlyJob
<1>15. ASSUME NEW i \in JobIds, ExitManual(i) PROVE jobs' \in [JobIds -> Job]
    BY <1>15, ExitMeans
<1>16. ASSUME NEW i \in JobIds, NEW t \in Tickers, EnterManual(i, t) PROVE jobs' \in [JobIds -> Job]
    BY <1>16, AsksMeans DEF OnlyJob
<1>17. ASSUME NEW t \in Tickers, WarmEnds(t) PROVE jobs' \in [JobIds -> Job]
    BY <1>17 DEF WarmEnds, LongTypeOK
<1>18. QED
    BY <1>1, <1>2, <1>3, <1>4, <1>5, <1>6, <1>7, <1>8, <1>9, <1>10, <1>11, <1>12, <1>13, <1>14, <1>15, <1>16, <1>17 DEF LongNext

\* What is typed but the jobs.
OtherTypes ==
    /\ liveLong \in BOOLEAN
    /\ closers \in [JobIds -> SUBSET {"monitor", "notice", "user"}] /\ due \subseteq JobIds
    /\ inflight \subseteq Tickers /\ active \in [Tickers -> SUBSET JobIds] /\ warm \subseteq Tickers
    /\ notional \in Overrides \cup {Full} /\ saved \in [JobIds -> Overrides \cup {0, Full}]
    /\ longSpent \in Nat /\ longDay \in 0..day

LEMMA LongOthers ==
    ASSUME WorldAssumption, CrossAssumption, WorldTypeOK, LongTypeOK, SavedInv, LongNext
    PROVE  OtherTypes'
<1> USE DEF OtherTypes
<1>0. /\ OtherTypes /\ day \in Nat /\ notional \in Nat /\ About \in [Notices -> Tickers]
      /\ \A i \in JobIds : jobs[i].t \in Tickers
    BY JobOf DEF LongTypeOK, WorldTypeOK, WorldAssumption, CrossAssumption
<1>1. ASSUME NEW n \in Notices, LongWins(n) PROVE OtherTypes'
  <2>1. due' \subseteq JobIds
    BY <1>0, <1>1 DEF LongWins
  <2>2. /\ UNCHANGED <<liveLong, closers, inflight, active, warm, notional, saved, day>>
        /\ longSpent' \in {0, longSpent} /\ longDay' = day
    BY <1>0, <1>1 DEF LongWins, RollLongDay
  <2>3. QED
    BY <1>0, <2>1, <2>2
<1>2. ASSUME NEW n \in Notices, NEW i \in JobIds, LongChecks(n, i) PROVE OtherTypes'
    BY <1>0, <1>2 DEF LongChecks, RollLongDay
<1>3. ASSUME NEW i \in JobIds, LongAccepts(i) PROVE OtherTypes'
    BY <1>0, <1>3 DEF LongAccepts, TaskMade, worldVars
<1>4. ASSUME NEW i \in JobIds, Scored(i) PROVE OtherTypes'
    BY <1>0, <1>4 DEF Scored, Skip, TaskDone, RollLongDay, worldVars
<1>5. ASSUME NEW i \in JobIds, Pumped(i) PROVE OtherTypes'
    BY <1>0, <1>5 DEF Pumped, Skip, TaskDone, worldVars
<1>6. ASSUME NEW i \in JobIds, Enters(i) PROVE OtherTypes'
    BY <1>0, <1>6 DEF Enters, Skip, TaskDone, RollLongDay, worldVars
<1>7. ASSUME NEW i \in JobIds, LongOpens(i) PROVE OtherTypes'
  <2>1. UNCHANGED <<liveLong, closers, due, inflight, active, notional, saved, longDay, day>>
    BY <1>7 DEF LongOpens
  <2>2. /\ warm' = warm \/ warm' = warm \cup {jobs[i].t}
        /\ longSpent' = longSpent \/ longSpent' = longSpent + notional
    BY <1>7, Zenon DEF LongOpens
  <2>3. QED
    BY <1>0, <2>1, <2>2
<1>8. ASSUME NEW i \in JobIds, LongTold(i) PROVE OtherTypes'
    BY <1>0, <1>8 DEF LongTold, worldVars
<1>9. ASSUME NEW i \in JobIds, LongFails(i) PROVE OtherTypes'
    BY <1>0, <1>9 DEF LongFails, Skip, TaskDone
<1>10. ASSUME NEW i \in JobIds, LongLeaves(i) PROVE OtherTypes'
    BY <1>0, <1>10 DEF LongLeaves, TaskDone, worldVars
<1>11. ASSUME NEW i \in JobIds, MonitorSells(i) PROVE OtherTypes'
    BY <1>0, <1>11 DEF MonitorSells, Sells, worldVars
<1>12. ASSUME NEW i \in JobIds, NoticeSells(i) \/ UserSells(i) PROVE OtherTypes'
  <2>1. /\ UNCHANGED <<liveLong, inflight, active, warm, notional, saved, longSpent, longDay, day>>
        /\ due' \subseteq due
        /\ \E S \in SUBSET {"monitor", "notice", "user"} : closers' = [closers EXCEPT ![i] = @ \cup S]
    <3>1. CASE UserSells(i)
      BY <3>1 DEF UserSells, Sells, worldVars
    <3>2. CASE NoticeSells(i) /\ jobs[i].closed
      <4>1. closers' = [closers EXCEPT ![i] = @ \cup {}]
        BY <1>0, <3>2 DEF NoticeSells
      <4>2. QED
        BY <3>2, <4>1 DEF NoticeSells, worldVars
    <3>3. CASE NoticeSells(i) /\ ~jobs[i].closed
      BY <3>3 DEF NoticeSells, Sells, worldVars
    <3>4. QED
      BY <1>12, <3>1, <3>2, <3>3
  <2>2. PICK S \in SUBSET {"monitor", "notice", "user"} : closers' = [closers EXCEPT ![i] = @ \cup S]
    BY <2>1
  <2>0. closers[i] \in SUBSET {"monitor", "notice", "user"}
    BY <1>0
  <2>3. closers[i] \cup S \in SUBSET {"monitor", "notice", "user"}
    BY <2>0, Zenon
  <2>4. closers' \in [JobIds -> SUBSET {"monitor", "notice", "user"}]
    BY <1>0, <2>2, <2>3
  <2>5. QED
    BY <1>0, <2>1, <2>4
<1>13. ASSUME NEW i \in JobIds, NEW who \in {"monitor", "notice", "user"}, LongSold(i, who) PROVE OtherTypes'
    BY <1>0, <1>13 DEF LongSold, TaskDone
<1>14. ASSUME NEW i \in JobIds, ManualStarts(i) PROVE OtherTypes'
    BY <1>0, <1>14 DEF ManualStarts, TaskMade, worldVars, SavedInv
<1>15. ASSUME NEW i \in JobIds, ExitManual(i) PROVE OtherTypes'
  <2>1. UNCHANGED <<liveLong, due, notional, saved, longSpent, longDay, day>> /\ warm' = warm \cup {jobs[i].t}
    BY <1>15 DEF ExitManual
  <2>2. active' \in [Tickers -> SUBSET JobIds] /\ inflight' \subseteq Tickers
    <3>1. TaskDone(jobs[i].t) \/ UNCHANGED <<active, inflight>>
      BY <1>15, Zenon DEF ExitManual
    <3>2. QED
      BY <1>0, <3>1 DEF TaskDone
  <2>3. closers' \in [JobIds -> SUBSET {"monitor", "notice", "user"}]
    <3>1. closers' = [k \in JobIds |-> IF k \in active[jobs[i].t] THEN closers[k] \ {"monitor"} ELSE closers[k]]
      BY <1>15 DEF ExitManual
    <3>2. QED
      BY <1>0, <3>1
  <2>4. QED
    BY <1>0, <2>1, <2>2, <2>3
<1>16. ASSUME NEW i \in JobIds, NEW t \in Tickers, EnterManual(i, t) PROVE OtherTypes'
    BY <1>0, <1>16 DEF EnterManual, RollLongDay, worldVars
<1>17. ASSUME NEW t \in Tickers, WarmEnds(t) PROVE OtherTypes'
    BY <1>0, <1>17 DEF WarmEnds, worldVars
<1>18. QED
    BY <1>1, <1>2, <1>3, <1>4, <1>5, <1>6, <1>7, <1>8, <1>9, <1>10, <1>11, <1>12, <1>13, <1>14, <1>15, <1>16, <1>17 DEF LongNext

LEMMA LongTypes ==
    ASSUME WorldAssumption, CrossAssumption, WorldTypeOK, LongTypeOK, SavedInv, LongNext
    PROVE  LongTypeOK'
    BY LongJobs, LongOthers DEF LongTypeOK, OtherTypes

(* At most max_open are entered: who awaits its entry counts already. *)

LEMMA InMarketFinite ==
    ASSUME CrossAssumption
    PROVE  IsFiniteSet({i \in JobIds : InMarket(jobs[i])})
    BY FS_Subset DEF CrossAssumption

LEMMA EntryCounts ==
    ASSUME CrossAssumption, NEW S, IsFiniteSet(S), Cardinality(S) < MaxOpen,
           {i \in JobIds : InMarket(jobs'[i])} \subseteq S
    PROVE  Cardinality({i \in JobIds : InMarket(jobs'[i])}) < MaxOpen
<1> DEFINE T == {i \in JobIds : InMarket(jobs'[i])}
<1>1. T \subseteq S
    OBVIOUS
<1> HIDE DEF T
<1>2. Cardinality(T) \in Nat /\ Cardinality(S) \in Nat /\ Cardinality(T) <= Cardinality(S) /\ MaxOpen \in Nat
    BY <1>1, FS_Subset, FS_CardinalityType DEF CrossAssumption
<1>3. Cardinality(T) < MaxOpen
    BY <1>2
<1>4. QED
    BY <1>3 DEF T

LEMMA EntryMoves ==
    ASSUME CrossAssumption, EntryInv, NEW i \in JobIds, OnlyJob(i), EntryShape(jobs'[i]),
           InMarket(jobs'[i]) => InMarket(jobs[i])
    PROVE  EntryInv'
<1>1. {k \in JobIds : InMarket(jobs'[k])} \subseteq {k \in JobIds : InMarket(jobs[k])}
    BY DEF OnlyJob
<1>2. Cardinality({k \in JobIds : InMarket(jobs'[k])}) < MaxOpen
    BY <1>1, InMarketFinite, EntryCounts DEF EntryInv
<1>3. QED
    BY <1>2 DEF EntryInv, OnlyJob

LEMMA EntryAside ==
    ASSUME EntryInv, jobs' = jobs
    PROVE  EntryInv'
    BY DEF EntryInv

LEMMA EntrySkips ==
    ASSUME WorldAssumption, CrossAssumption, LongTypeOK, EntryInv, NEW i \in JobIds,
           NEW status \in Statuses, Skip(i, status)
    PROVE  EntryInv'
<1>1. OnlyJob(i) /\ Job5(jobs'[i], jobs[i].t, "done", status, TRUE, jobs[i].qty)
    BY SkipMeans
<1>2. QED
    BY <1>1, EntryMoves DEF EntryShape, InMarket, Job5

LEMMA EntryKeeps ==
    ASSUME WorldAssumption, CrossAssumption, LongTypeOK, EntryInv, SoldInv, LongNext
    PROVE  EntryInv'
<1>1. ASSUME NEW n \in Notices, LongWins(n) PROVE EntryInv'
    BY <1>1, EntryAside DEF LongWins
<1>2. ASSUME NEW n \in Notices, NEW i \in JobIds, LongChecks(n, i) PROVE EntryInv'
  <2>1. CASE jobs' = jobs
    BY <2>1, EntryAside
  <2>2. CASE Free(i) /\ jobs' = [jobs EXCEPT ![i].t = About[n], ![i].pc = "checking"]
    <3>1. OnlyJob(i) /\ Job5(jobs'[i], About[n], "checking", jobs[i].status, jobs[i].closed, jobs[i].qty)
      BY <2>2, ChecksMeans DEF WorldAssumption
    <3>2. jobs[i].pc = "free"
      BY <2>2 DEF Free
    <3>3. QED
      BY <3>1, <3>2, EntryMoves DEF EntryInv, EntryShape, InMarket, Job5
  <2>3. QED
    BY <1>2, <2>1, <2>2 DEF LongChecks
<1>3. ASSUME NEW i \in JobIds, LongAccepts(i) PROVE EntryInv'
  <2>1. CASE jobs' = [jobs EXCEPT ![i] = NoJob]
    <3>1. OnlyJob(i) /\ \E t \in Tickers : Job5(jobs'[i], t, "free", "none", FALSE, 0)
      <4>1. NoJob \in Job /\ \E t \in Tickers : Job5(NoJob, t, "free", "none", FALSE, 0)
        BY NoJobIs
      <4>2. OnlyJob(i) /\ jobs'[i] = NoJob
        BY <2>1, <4>1, JobsAfter
      <4>3. QED
        BY <4>1, <4>2, Zenon
    <3>2. QED
      BY <3>1, EntryMoves DEF EntryShape, InMarket, Job5
  <2>2. CASE At(i, "scoring")
    <3>1. OnlyJob(i) /\ Job5(jobs'[i], jobs[i].t, "scoring", jobs[i].status, jobs[i].closed, jobs[i].qty)
      BY <2>2, AtMeans DEF Pcs
    <3>2. jobs[i].pc = "checking"
      BY <1>3 DEF LongAccepts
    <3>3. QED
      BY <3>1, <3>2, EntryMoves DEF EntryInv, EntryShape, InMarket, Job5
  <2>3. QED
    BY <1>3, <2>1, <2>2 DEF LongAccepts
<1>4. ASSUME NEW i \in JobIds, Scored(i) PROVE EntryInv'
  <2>1. CASE Skip(i, "SKIPPED")
    BY <2>1, EntrySkips DEF Statuses
  <2>2. CASE jobs' = [jobs EXCEPT ![i].status = "OBSERVING", ![i].pc = "observing"]
    <3>1. OnlyJob(i) /\ Job5(jobs'[i], jobs[i].t, "observing", "OBSERVING", jobs[i].closed, jobs[i].qty)
      BY <2>2, ObservesMeans
    <3>2. jobs[i].pc = "scoring"
      BY <1>4 DEF Scored
    <3>3. QED
      BY <3>1, <3>2, EntryMoves DEF EntryInv, EntryShape, InMarket, Job5
  <2>3. QED
    BY <1>4, <2>1, <2>2 DEF Scored
<1>5. ASSUME NEW i \in JobIds, Pumped(i) \/ LongFails(i) PROVE EntryInv'
    BY <1>5, EntrySkips DEF Pumped, LongFails, Statuses
<1>6. ASSUME NEW i \in JobIds, Enters(i) PROVE EntryInv'
  <2>1. CASE Skip(i, "SKIPPED")
    BY <2>1, EntrySkips DEF Statuses
  <2>2. CASE CanEnter(notional, Cardinality(OpenJobs)) /\ At(i, "entering")
    <3>1. OnlyJob(i) /\ Job5(jobs'[i], jobs[i].t, "entering", jobs[i].status, jobs[i].closed, jobs[i].qty)
      BY <2>2, AtMeans DEF Pcs
    <3>2. jobs[i].pc \in {"observing", "starting"} /\ EntryShape(jobs[i])
      BY <1>6 DEF Enters, EntryInv
    <3>3. EntryShape(jobs'[i])
      BY <3>1, <3>2 DEF EntryShape, Job5
    <3>4. CASE InMarket(jobs[i]) \/ ~InMarket(jobs'[i])
      BY <3>1, <3>3, <3>4, EntryMoves
    <3>5. CASE ~InMarket(jobs[i]) /\ InMarket(jobs'[i])
      <4>1. i \in OpenJobs
        BY <3>1, <3>2, <3>5 DEF OpenJobs, Counted, EntryShape, InMarket, Job5
      <4>2. {k \in JobIds : InMarket(jobs'[k])} \subseteq OpenJobs
        <5>1. ASSUME NEW k \in JobIds \ {i}, InMarket(jobs[k]) PROVE k \in OpenJobs
          BY <5>1, JobOf DEF OpenJobs, Counted, EntryInv, EntryShape, InMarket
        <5>2. QED
          BY <3>1, <4>1, <5>1 DEF OnlyJob
      <4>3. IsFiniteSet(OpenJobs) /\ Cardinality(OpenJobs) < MaxOpen
        <5>1. IsFiniteSet(JobIds) /\ OpenJobs \subseteq JobIds
          BY DEF CrossAssumption, OpenJobs
        <5>2. QED
          BY <2>2, <5>1, FS_Subset DEF CanEnter
      <4>4. QED
        BY <3>1, <3>3, <4>2, <4>3, EntryCounts DEF EntryInv, OnlyJob
    <3>6. QED
      BY <3>4, <3>5
  <2>3. QED
    BY <1>6, <2>1, <2>2 DEF Enters
<1>7. ASSUME NEW i \in JobIds, LongOpens(i) PROVE EntryInv'
  <2>1. PICK q \in Nat \ {0}, pc \in {"telling", "monitoring"} :
           OnlyJob(i) /\ Job5(jobs'[i], jobs[i].t, pc, "ENTERED", jobs[i].closed, q)
    BY <1>7, OpensMeans
  <2>2. jobs[i].pc = "entering"
    BY <1>7 DEF LongOpens
  <2>3. EntryShape(jobs'[i]) /\ (InMarket(jobs'[i]) => InMarket(jobs[i]))
    BY <2>1, <2>2 DEF EntryShape, InMarket, Job5
  <2>4. QED
    BY <2>1, <2>3, EntryMoves
<1>8. ASSUME NEW i \in JobIds, LongTold(i) \/ LongLeaves(i) \/ MonitorSells(i) PROVE EntryInv'
  <2>1. PICK pc \in {"monitoring", "done", "closing"} :
           OnlyJob(i) /\ Job5(jobs'[i], jobs[i].t, pc, jobs[i].status, jobs[i].closed, jobs[i].qty)
    BY <1>8, AtMeans DEF LongTold, LongLeaves, MonitorSells, Pcs
  <2>2. jobs[i].pc \in {"telling", "monitoring"} /\ EntryShape(jobs[i])
    BY <1>8 DEF LongTold, LongLeaves, MonitorSells, EntryInv
  <2>3. EntryShape(jobs'[i]) /\ (InMarket(jobs'[i]) => InMarket(jobs[i]))
    BY <2>1, <2>2 DEF EntryShape, InMarket, Job5
  <2>4. QED
    BY <2>1, <2>3, EntryMoves
<1>9. ASSUME NEW i \in JobIds, NoticeSells(i) \/ UserSells(i) PROVE EntryInv'
    BY <1>9, EntryAside DEF NoticeSells, UserSells
<1>10. ASSUME NEW i \in JobIds, NEW who \in {"monitor", "notice", "user"}, LongSold(i, who) PROVE EntryInv'
  <2>1. OnlyJob(i) /\ Job5(jobs'[i], jobs[i].t, IF who = "monitor" THEN "done" ELSE jobs[i].pc,
                        "CLOSED", TRUE, jobs[i].qty)
    BY <1>10, SoldMeans
  <2>2. jobs[i].qty > 0 /\ EntryShape(jobs[i])
    BY <1>10 DEF LongSold, SoldInv, Entered, EntryInv
  <2>3. QED
    BY <2>1, <2>2, JobOf, EntryMoves DEF EntryShape, InMarket, Job5
<1>11. ASSUME NEW i \in JobIds, ManualStarts(i) PROVE EntryInv'
  <2>1. OnlyJob(i) /\ Job5(jobs'[i], jobs[i].t, "starting", "CANDIDATE", jobs[i].closed, jobs[i].qty)
    BY <1>11, StartsMeans
  <2>2. jobs[i].pc = "asking"
    BY <1>11 DEF ManualStarts
  <2>3. QED
    BY <2>1, <2>2, EntryMoves DEF EntryInv, EntryShape, InMarket, Job5
<1>12. ASSUME NEW i \in JobIds, ExitManual(i) PROVE EntryInv'
  <2>1. ASSUME NEW k \in JobIds
        PROVE  Job5(jobs'[k], jobs[k].t, IF k \in active[jobs[i].t] THEN "done" ELSE jobs[k].pc,
                    IF k = i THEN "CLOSED" ELSE jobs[k].status, IF k = i THEN TRUE ELSE jobs[k].closed,
                    jobs[k].qty)
    BY <1>12, ExitMeans
  <2>2. jobs[i].status \in {"CANDIDATE", "OBSERVING"}
    BY <1>12 DEF ExitManual
  <2>3. ASSUME NEW k \in JobIds PROVE EntryShape(jobs'[k]) /\ (InMarket(jobs'[k]) => InMarket(jobs[k]))
    <3>1. EntryShape(jobs[k]) /\ jobs[k].closed \in BOOLEAN
      BY JobOf DEF EntryInv
    <3>2. PICK pc : pc = (IF k \in active[jobs[i].t] THEN "done" ELSE jobs[k].pc)
      OBVIOUS
    <3>3. CASE k = i
      <4>1. Job5(jobs'[k], jobs[k].t, pc, "CLOSED", TRUE, jobs[k].qty)
        BY <2>1, <3>2, <3>3
      <4>2. QED
        BY <2>2, <3>1, <3>2, <3>3, <4>1 DEF EntryShape, InMarket, Job5
    <3>4. CASE k # i
      <4>1. Job5(jobs'[k], jobs[k].t, pc, jobs[k].status, jobs[k].closed, jobs[k].qty)
        BY <2>1, <3>2, <3>4
      <4>2. QED
        BY <3>1, <3>2, <4>1 DEF EntryShape, InMarket, Job5
    <3>5. QED
      BY <3>3, <3>4
  <2>4. QED
    BY <2>3, EntryCounts, InMarketFinite DEF EntryInv
<1>13. ASSUME NEW i \in JobIds, NEW t \in Tickers, EnterManual(i, t) PROVE EntryInv'
  <2>1. OnlyJob(i) /\ Job5(jobs'[i], t, "asking", jobs[i].status, jobs[i].closed, jobs[i].qty)
    BY <1>13, AsksMeans
  <2>2. jobs[i].pc = "free"
    BY <1>13 DEF EnterManual, Free
  <2>3. QED
    BY <2>1, <2>2, EntryMoves DEF EntryInv, EntryShape, InMarket, Job5
<1>14. ASSUME NEW t \in Tickers, WarmEnds(t) PROVE EntryInv'
    BY <1>14, EntryAside DEF WarmEnds
<1>15. QED
    BY <1>1, <1>2, <1>3, <1>4, <1>5, <1>6, <1>7, <1>8, <1>9, <1>10, <1>11, <1>12, <1>13, <1>14 DEF LongNext

LEMMA EntryInvBounds ==
    ASSUME CrossAssumption, EntryInv
    PROVE  EnteredBounded
<1> DEFINE S == {i \in JobIds : Entered(i) /\ ~jobs[i].closed}
           T == {i \in JobIds : InMarket(jobs[i])}
<1>1. S \subseteq T
    BY DEF Entered, InMarket
<1>2. IsFiniteSet(T) /\ Cardinality(T) < MaxOpen /\ MaxOpen \in Nat
    BY InMarketFinite DEF EntryInv, CrossAssumption
<1> HIDE DEF S, T
<1>3. Cardinality(S) < MaxOpen
    BY <1>1, <1>2, FS_Subset, FS_CardinalityType
<1>4. QED
    BY <1>3 DEF EnteredBounded, S

(* Whose task is in _active_tasks runs, and a ticker in flight has such a task. *)

LEMMA TaskAside ==
    ASSUME TaskInv, UNCHANGED <<jobs, active, inflight>>,
           UNCHANGED closers \/ \A k \in JobIds : "monitor" \in closers'[k] => "monitor" \in closers[k]
    PROVE  TaskInv'
    BY DEF TaskInv, Running

\* Only whose job is being closed by its monitor has it among those who close it.
MonitorsClose == \A k \in JobIds : "monitor" \in closers[k] => jobs[k].pc = "closing"

LEMMA MonitorsStay ==
    ASSUME TaskInv, NEW i \in JobIds, OnlyJob(i), closers' = closers, jobs[i].pc # "closing"
    PROVE  MonitorsClose'
    BY DEF TaskInv, MonitorsClose, OnlyJob

\* A job moves on, in its task or outside of one.
LEMMA TaskSame ==
    ASSUME TaskInv, LongTypeOK, NEW i \in JobIds, OnlyJob(i), UNCHANGED <<active, inflight>>, MonitorsClose',
           jobs[i].pc \in AtWork => jobs'[i].t = jobs[i].t /\ jobs'[i].pc \in AtWork
    PROVE  TaskInv'
    BY DEF TaskInv, Running, OnlyJob, LongTypeOK, MonitorsClose

\* Its task ends: the ticker is freed, and only jobs of that ticker had it.
LEMMA TaskEnds ==
    ASSUME TaskInv, LongTypeOK, NEW i \in JobIds, OnlyJob(i), TaskDone(jobs[i].t), MonitorsClose'
    PROVE  TaskInv'
    BY JobOf DEF TaskInv, Running, OnlyJob, LongTypeOK, TaskDone, MonitorsClose

LEMMA TaskSkips ==
    ASSUME TaskInv, LongTypeOK, NEW i \in JobIds, NEW status \in Statuses, Skip(i, status), closers' = closers,
           jobs[i].pc # "closing"
    PROVE  TaskInv'
    BY SkipMeans, MonitorsStay, TaskEnds DEF Skip

\* Its task is made.
LEMMA TaskBegins ==
    ASSUME TaskInv, LongTypeOK, NEW i \in JobIds, NEW t \in Tickers, OnlyJob(i), TaskMade(i, t),
           MonitorsClose', jobs[i].pc \notin AtWork,
           jobs'[i].t = t, jobs'[i].pc \in AtWork
    PROVE  TaskInv'
    BY DEF TaskInv, Running, OnlyJob, LongTypeOK, TaskMade, MonitorsClose

LEMMA TaskKeeps ==
    ASSUME WorldAssumption, CrossAssumption, LongTypeOK, TaskInv, LongNext
    PROVE  TaskInv'
<1>1. ASSUME NEW n \in Notices, LongWins(n) PROVE TaskInv'
    BY <1>1, TaskAside DEF LongWins
<1>2. ASSUME NEW n \in Notices, NEW i \in JobIds, LongChecks(n, i) PROVE TaskInv'
  <2>1. UNCHANGED <<active, inflight, closers>>
    BY <1>2 DEF LongChecks
  <2>2. CASE jobs' = jobs
    BY <2>1, <2>2, TaskAside
  <2>3. CASE Free(i) /\ jobs' = [jobs EXCEPT ![i].t = About[n], ![i].pc = "checking"]
    <3>1. OnlyJob(i)
      BY <2>3, ChecksMeans DEF WorldAssumption
    <3>2. jobs[i].pc = "free"
      BY <2>3 DEF Free
    <3>3. QED
      BY <2>1, <3>1, <3>2, MonitorsStay, TaskSame DEF AtWork
  <2>4. QED
    BY <1>2, <2>2, <2>3 DEF LongChecks
<1>3. ASSUME NEW i \in JobIds, LongAccepts(i) PROVE TaskInv'
  <2>1. jobs[i].pc = "checking" /\ closers' = closers
    BY <1>3 DEF LongAccepts
  <2>2. CASE jobs' = [jobs EXCEPT ![i] = NoJob] /\ UNCHANGED <<active, inflight>>
    <3>1. OnlyJob(i)
      BY <2>2, NoJobIs, JobsAfter
    <3>2. QED
      BY <2>1, <2>2, <3>1, MonitorsStay, TaskSame DEF AtWork
  <2>3. CASE At(i, "scoring") /\ TaskMade(i, jobs[i].t)
    <3>1. OnlyJob(i) /\ jobs'[i].t = jobs[i].t /\ jobs'[i].pc = "scoring"
      BY <2>3, AtMeans DEF Pcs, Job5
    <3>2. QED
      BY <2>1, <2>3, <3>1, JobOf, MonitorsStay, TaskBegins DEF AtWork
  <2>4. QED
    BY <1>3, <2>2, <2>3 DEF LongAccepts
<1>4. ASSUME NEW i \in JobIds, Scored(i) \/ Enters(i) PROVE TaskInv'
  <2>1. jobs[i].pc \in {"scoring", "observing", "starting"} /\ closers' = closers
    BY <1>4 DEF Scored, Enters
  <2>2. CASE Skip(i, "SKIPPED")
    BY <2>1, <2>2, TaskSkips DEF Statuses
  <2>3. CASE /\ UNCHANGED <<active, inflight>>
             /\ \/ jobs' = [jobs EXCEPT ![i].status = "OBSERVING", ![i].pc = "observing"]
                \/ At(i, "entering")
    <3>1. OnlyJob(i) /\ jobs'[i].t = jobs[i].t /\ jobs'[i].pc \in AtWork
      BY <2>3, ObservesMeans, AtMeans DEF Pcs, Job5, AtWork
    <3>2. QED
      BY <2>1, <2>3, <3>1, MonitorsStay, TaskSame
  <2>4. QED
    BY <1>4, <2>2, <2>3 DEF Scored, Enters
<1>5. ASSUME NEW i \in JobIds, Pumped(i) \/ LongFails(i) PROVE TaskInv'
  <2>1. jobs[i].pc \in {"observing", "entering"} /\ closers' = closers
    BY <1>5 DEF Pumped, LongFails
  <2>2. QED
    BY <1>5, <2>1, TaskSkips DEF Pumped, LongFails, Statuses
<1>6. ASSUME NEW i \in JobIds, LongOpens(i) \/ LongTold(i) PROVE TaskInv'
  <2>1. jobs[i].pc \in {"entering", "telling"} /\ UNCHANGED <<closers, active, inflight>>
    BY <1>6 DEF LongOpens, LongTold
  <2>2. OnlyJob(i) /\ jobs'[i].t = jobs[i].t /\ jobs'[i].pc \in AtWork
    BY <1>6, OpensMeans, AtMeans DEF LongTold, Pcs, AtWork, Job5
  <2>3. QED
    BY <2>1, <2>2, MonitorsStay, TaskSame
<1>7. ASSUME NEW i \in JobIds, LongLeaves(i) PROVE TaskInv'
  <2>1. jobs[i].pc = "monitoring" /\ closers' = closers /\ TaskDone(jobs[i].t)
    BY <1>7 DEF LongLeaves
  <2>2. OnlyJob(i)
    BY <1>7, AtMeans DEF LongLeaves, Pcs
  <2>3. QED
    BY <2>1, <2>2, MonitorsStay, TaskEnds
<1>8. ASSUME NEW i \in JobIds, MonitorSells(i) PROVE TaskInv'
  <2>1. OnlyJob(i) /\ jobs'[i].t = jobs[i].t /\ jobs'[i].pc = "closing" /\ UNCHANGED <<active, inflight>>
    BY <1>8, AtMeans DEF MonitorSells, Pcs, Job5
  <2>2. \A k \in JobIds \ {i} : closers'[k] = closers[k]
    BY <1>8 DEF MonitorSells, Sells, LongTypeOK
  <2>3. MonitorsClose'
    BY <2>1, <2>2 DEF TaskInv, OnlyJob, MonitorsClose
  <2>4. QED
    BY <2>1, <2>3, TaskSame DEF AtWork
<1>9. ASSUME NEW i \in JobIds, NoticeSells(i) \/ UserSells(i) PROVE TaskInv'
  <2>1. ASSUME NEW k \in JobIds, "monitor" \in closers'[k] PROVE "monitor" \in closers[k]
    BY <1>9, <2>1 DEF NoticeSells, UserSells, Sells, LongTypeOK
  <2>2. QED
    BY <1>9, <2>1, TaskAside DEF NoticeSells, UserSells
<1>10. ASSUME NEW i \in JobIds, NEW who \in {"monitor", "notice", "user"}, LongSold(i, who) PROVE TaskInv'
  <2>1. /\ OnlyJob(i) /\ jobs'[i].t = jobs[i].t
        /\ jobs'[i].pc = (IF who = "monitor" THEN "done" ELSE jobs[i].pc)
    BY <1>10, SoldMeans DEF Job5
  <2>2. /\ who \in closers[i] /\ closers' = [closers EXCEPT ![i] = @ \ {who}]
        /\ IF who = "monitor" THEN TaskDone(jobs[i].t) ELSE UNCHANGED <<active, inflight>>
    BY <1>10 DEF LongSold
  <2>3. MonitorsClose'
    BY <2>1, <2>2 DEF TaskInv, OnlyJob, LongTypeOK, MonitorsClose
  <2>4. QED
    BY <2>1, <2>2, <2>3, TaskSame, TaskEnds
<1>11. ASSUME NEW i \in JobIds, ManualStarts(i) PROVE TaskInv'
  <2>1. jobs[i].pc = "asking" /\ closers' = closers /\ TaskMade(i, jobs[i].t)
    BY <1>11 DEF ManualStarts
  <2>2. OnlyJob(i) /\ jobs'[i].t = jobs[i].t /\ jobs'[i].pc = "starting"
    BY <1>11, StartsMeans DEF Job5
  <2>3. QED
    BY <2>1, <2>2, JobOf, MonitorsStay, TaskBegins DEF AtWork
<1>12. ASSUME NEW i \in JobIds, ExitManual(i) PROVE TaskInv'
  <2> DEFINE t == jobs[i].t
             cut == active[t]
  <2>1. t \in Tickers
    BY JobOf
  <2>2. ASSUME NEW k \in JobIds
        PROVE  jobs'[k].t = jobs[k].t /\ jobs'[k].pc = IF k \in cut THEN "done" ELSE jobs[k].pc
    BY <1>12, ExitMeans DEF Job5
  <2>3. closers' = [k \in JobIds |-> IF k \in cut THEN closers[k] \ {"monitor"} ELSE closers[k]]
    BY <1>12 DEF ExitManual
  <2>4. \/ cut = {} /\ UNCHANGED <<active, inflight>>
        \/ active' = [active EXCEPT ![t] = {}] /\ inflight' = inflight \ {t}
    BY <1>12, Zenon DEF ExitManual, TaskDone
  <2>5. \A k \in cut : k \in JobIds /\ jobs[k].t = t
    BY <2>1 DEF TaskInv, LongTypeOK
  <2> HIDE DEF t, cut
  <2>6. ASSUME NEW k \in JobIds, "monitor" \in closers'[k] PROVE jobs'[k].pc = "closing"
    BY <2>2, <2>3, <2>6 DEF TaskInv
  <2>7. CASE cut = {} /\ UNCHANGED <<active, inflight>>
    BY <2>2, <2>6, <2>7 DEF TaskInv, Running, LongTypeOK
  <2>8. CASE active' = [active EXCEPT ![t] = {}] /\ inflight' = inflight \ {t}
    <3>1. ASSUME NEW u \in Tickers, NEW k \in active'[u] PROVE jobs'[k].t = u /\ Running(k)'
      BY <2>1, <2>2, <2>5, <2>8, <3>1 DEF TaskInv, Running, LongTypeOK
    <3>2. ASSUME NEW u \in inflight' PROVE \E k \in JobIds : Running(k)' /\ jobs'[k].t = u
      BY <2>2, <2>5, <2>8, <3>2 DEF TaskInv, Running
    <3>3. QED
      BY <2>6, <3>1, <3>2 DEF TaskInv
  <2>9. QED
    BY <2>4, <2>7, <2>8
<1>13. ASSUME NEW i \in JobIds, NEW t \in Tickers, EnterManual(i, t) PROVE TaskInv'
  <2>1. OnlyJob(i)
    BY <1>13, AsksMeans
  <2>2. jobs[i].pc = "free" /\ UNCHANGED <<closers, active, inflight>>
    BY <1>13 DEF EnterManual, Free
  <2>3. QED
    BY <2>1, <2>2, MonitorsStay, TaskSame DEF AtWork
<1>14. ASSUME NEW t \in Tickers, WarmEnds(t) PROVE TaskInv'
    BY <1>14, TaskAside DEF WarmEnds
<1>15. QED
    BY <1>1, <1>2, <1>3, <1>4, <1>5, <1>6, <1>7, <1>8, <1>9, <1>10, <1>11, <1>12, <1>13, <1>14 DEF LongNext

(* What a call puts back, and what is being sold. *)

CallsInv == SavedInv /\ SoldInv

LEMMA CallsMove ==
    ASSUME CallsInv, LongTypeOK, NEW i \in JobIds, OnlyJob(i), jobs'[i].pc # "asking",
           jobs[i].qty > 0 => jobs'[i].qty > 0,
           \A k \in JobIds : k # i => saved'[k] = saved[k],
           \A k \in JobIds : closers'[k] # {} \/ k \in due' => closers[k] # {} \/ k \in due \/ jobs[k].qty > 0
    PROVE  CallsInv'
    BY DEF CallsInv, SavedInv, SoldInv, Entered, OnlyJob

LEMMA CallsKeep ==
    ASSUME WorldAssumption, CrossAssumption, LongTypeOK, EntryInv, CallsInv, LongNext
    PROVE  CallsInv'
<1>1. ASSUME NEW n \in Notices, LongWins(n) PROVE CallsInv'
    BY <1>1 DEF LongWins, CallsInv, SavedInv, SoldInv, Entered
<1>2. ASSUME NEW n \in Notices, NEW i \in JobIds, LongChecks(n, i) PROVE CallsInv'
  <2>1. UNCHANGED <<saved, closers, due>>
    BY <1>2 DEF LongChecks
  <2>2. CASE jobs' = jobs
    BY <2>1, <2>2 DEF CallsInv, SavedInv, SoldInv, Entered
  <2>3. CASE Free(i) /\ jobs' = [jobs EXCEPT ![i].t = About[n], ![i].pc = "checking"]
    <3>1. OnlyJob(i) /\ jobs'[i].pc = "checking" /\ jobs'[i].qty = jobs[i].qty
      BY <2>3, ChecksMeans DEF WorldAssumption, Job5
    <3>2. QED
      BY <2>1, <3>1, CallsMove
  <2>4. QED
    BY <1>2, <2>2, <2>3 DEF LongChecks
<1>3. ASSUME NEW i \in JobIds, LongAccepts(i) PROVE CallsInv'
  <2>1. UNCHANGED <<saved, closers, due>>
    BY <1>3 DEF LongAccepts
  <2>2. CASE jobs' = [jobs EXCEPT ![i] = NoJob]
    <3>1. OnlyJob(i) /\ jobs'[i].pc = "free"
      <4>1. OnlyJob(i) /\ jobs'[i] = NoJob
        BY <2>2, NoJobIs, JobsAfter
      <4>2. QED
        BY <4>1, NoJobIs DEF Job5
    <3>2. jobs[i].qty = 0
      BY <1>3 DEF LongAccepts, EntryInv, EntryShape
    <3>3. QED
      BY <2>1, <3>1, <3>2, CallsMove
  <2>3. CASE At(i, "scoring")
    <3>1. OnlyJob(i) /\ jobs'[i].pc = "scoring" /\ jobs'[i].qty = jobs[i].qty
      BY <2>3, AtMeans DEF Pcs, Job5
    <3>2. QED
      BY <2>1, <3>1, CallsMove
  <2>4. QED
    BY <1>3, <2>2, <2>3 DEF LongAccepts
<1>4. ASSUME NEW i \in JobIds, Scored(i) \/ Enters(i) \/ Pumped(i) \/ LongFails(i) PROVE CallsInv'
  <2>1. UNCHANGED <<saved, closers, due>>
    BY <1>4 DEF Scored, Enters, Pumped, LongFails
  <2>2. OnlyJob(i) /\ jobs'[i].pc # "asking" /\ jobs'[i].qty = jobs[i].qty
    <3>1. CASE \E status \in Statuses : Skip(i, status)
      BY <3>1, SkipMeans DEF Job5
    <3>2. CASE jobs' = [jobs EXCEPT ![i].status = "OBSERVING", ![i].pc = "observing"]
      BY <3>2, ObservesMeans DEF Job5
    <3>3. CASE At(i, "entering")
      BY <3>3, AtMeans DEF Job5, Pcs
    <3>4. QED
      BY <1>4, <3>1, <3>2, <3>3 DEF Scored, Enters, Pumped, LongFails, Statuses
  <2>3. QED
    BY <2>1, <2>2, CallsMove
<1>5. ASSUME NEW i \in JobIds, LongOpens(i) PROVE CallsInv'
  <2>1. UNCHANGED <<saved, closers, due>>
    BY <1>5 DEF LongOpens
  <2>2. OnlyJob(i) /\ jobs'[i].pc # "asking" /\ jobs'[i].qty > 0
    BY <1>5, OpensMeans DEF Job5
  <2>3. QED
    BY <2>1, <2>2, CallsMove
<1>6. ASSUME NEW i \in JobIds, LongTold(i) \/ LongLeaves(i) PROVE CallsInv'
  <2>1. UNCHANGED <<saved, closers, due>>
    BY <1>6 DEF LongTold, LongLeaves
  <2>2. OnlyJob(i) /\ jobs'[i].pc # "asking" /\ jobs'[i].qty = jobs[i].qty
    BY <1>6, AtMeans DEF LongTold, LongLeaves, Job5, Pcs
  <2>3. QED
    BY <2>1, <2>2, CallsMove
<1>7. ASSUME NEW i \in JobIds, MonitorSells(i) PROVE CallsInv'
  <2>1. OnlyJob(i) /\ jobs'[i].pc # "asking" /\ jobs'[i].qty = jobs[i].qty
    BY <1>7, AtMeans DEF MonitorSells, Job5, Pcs
  <2>2. jobs[i].qty > 0
    BY <1>7 DEF MonitorSells, EntryInv, EntryShape
  <2>3. UNCHANGED <<saved, due>> /\ \A k \in JobIds \ {i} : closers'[k] = closers[k]
    BY <1>7 DEF MonitorSells, Sells, LongTypeOK
  <2>4. QED
    BY <2>1, <2>2, <2>3, CallsMove
<1>8. ASSUME NEW i \in JobIds, NoticeSells(i) \/ UserSells(i) PROVE CallsInv'
  <2>1. jobs[i].qty > 0
    BY <1>8 DEF NoticeSells, UserSells, CallsInv, SoldInv, Entered
  <2>2. UNCHANGED <<saved, jobs>> /\ due' \subseteq due /\ \A k \in JobIds \ {i} : closers'[k] = closers[k]
    BY <1>8 DEF NoticeSells, UserSells, Sells, LongTypeOK
  <2>3. QED
    BY <2>1, <2>2 DEF CallsInv, SavedInv, SoldInv, Entered
<1>9. ASSUME NEW i \in JobIds, NEW who \in {"monitor", "notice", "user"}, LongSold(i, who) PROVE CallsInv'
  <2>1. OnlyJob(i) /\ jobs'[i].qty = jobs[i].qty /\ jobs'[i].pc \in {"done", jobs[i].pc}
    BY <1>9, SoldMeans DEF Job5
  <2>2. who \in closers[i] /\ saved' = saved /\ due' \subseteq due
    BY <1>9 DEF LongSold
  <2>3. \A k \in JobIds : closers'[k] \subseteq closers[k]
    BY <1>9 DEF LongSold, LongTypeOK
  <2>4. jobs[i].qty > 0 /\ jobs[i].pc # "asking"
    BY <2>2 DEF CallsInv, SoldInv, Entered, EntryInv, EntryShape
  <2>5. QED
    BY <2>1, <2>2, <2>3, <2>4, CallsMove
<1>10. ASSUME NEW i \in JobIds, ManualStarts(i) PROVE CallsInv'
  <2>1. OnlyJob(i) /\ jobs'[i].pc = "starting" /\ jobs'[i].qty = jobs[i].qty
    BY <1>10, StartsMeans DEF Job5
  <2>2. UNCHANGED <<closers, due>> /\ \A k \in JobIds \ {i} : saved'[k] = saved[k]
    BY <1>10 DEF ManualStarts, LongTypeOK
  <2>3. QED
    BY <2>1, <2>2, CallsMove
<1>11. ASSUME NEW i \in JobIds, ExitManual(i) PROVE CallsInv'
  <2>1. ASSUME NEW k \in JobIds
        PROVE  jobs'[k].qty = jobs[k].qty /\ (jobs'[k].pc = "asking" => jobs[k].pc = "asking")
    BY <1>11, ExitMeans DEF Job5
  <2>2. UNCHANGED <<saved, due>> /\ \A k \in JobIds : closers'[k] \subseteq closers[k]
    BY <1>11 DEF ExitManual
  <2>3. QED
    BY <2>1, <2>2 DEF CallsInv, SavedInv, SoldInv, Entered
<1>12. ASSUME NEW i \in JobIds, NEW t \in Tickers, EnterManual(i, t) PROVE CallsInv'
  <2>1. OnlyJob(i) /\ jobs'[i].qty = jobs[i].qty
    BY <1>12, AsksMeans DEF Job5
  <2>2. UNCHANGED <<closers, due>> /\ saved' = [saved EXCEPT ![i] = notional]
    BY <1>12 DEF EnterManual
  <2>3. QED
    BY <2>1, <2>2 DEF CallsInv, SavedInv, SoldInv, Entered, OnlyJob, LongTypeOK
<1>13. ASSUME NEW t \in Tickers, WarmEnds(t) PROVE CallsInv'
    BY <1>13 DEF WarmEnds, CallsInv, SavedInv, SoldInv, Entered
<1>14. QED
    BY <1>1, <1>2, <1>3, <1>4, <1>5, <1>6, <1>7, <1>8, <1>9, <1>10, <1>11, <1>12, <1>13 DEF LongNext

(* One job of a ticker at a time, where a ticker has one door. *)

LEMMA NoticedStays ==
    ASSUME announced' = announced, \A n \in Notices : <<"long", n>> \in inbox' => <<"long", n>> \in inbox
    PROVE  \A t : Noticed(t) => Noticed(t)'
    BY DEF Noticed

LEMMA DoorAside ==
    ASSUME DoorInv, UNCHANGED <<jobs, inflight>>, UNCHANGED announced,
           \A n \in Notices : <<"long", n>> \in inbox' => <<"long", n>> \in inbox
    PROVE  DoorInv'
    BY NoticedStays DEF DoorInv, Busy, Running

\* What is announced later is another notice.
LEMMA DoorAnnounces ==
    ASSUME WorldTypeOK, DoorInv, jobs' = jobs, inflight' = inflight, WorldNext
    PROVE  DoorInv'
<1>1. ASSUME NEW n \in Notices, announced[n] = 1, <<"long", n>> \notin inbox
      PROVE  announced'[n] = 1 /\ <<"long", n>> \notin inbox'
    BY <1>1 DEF WorldNext, Announce, Midnight, UpbitLists, Feed!Announce, WorldTypeOK
<1>2. \A t : Noticed(t) => Noticed(t)'
    BY <1>1 DEF Noticed
<1>3. QED
    BY <1>2 DEF DoorInv, Busy, Running

\* What a step of one job has to show.
OneMoved(i) == \A k \in JobIds : k # i =>
    jobs'[k].pc = jobs[k].pc /\ jobs'[k].t = jobs[k].t /\ jobs'[k].closed = jobs[k].closed

LEMMA OnlyIsOne ==
    ASSUME NEW i \in JobIds, OnlyJob(i)
    PROVE  OneMoved(i)
    BY DEF OnlyJob, OneMoved

\* No job goes anywhere.
LEMMA DoorKeptBy ==
    ASSUME DoorInv, inflight' = inflight, \A t : Noticed(t) => Noticed(t)',
           \A k \in JobIds : jobs'[k].pc = jobs[k].pc /\ jobs'[k].t = jobs[k].t /\ (jobs[k].closed => jobs'[k].closed)
    PROVE  DoorInv'
<1>1. ASSUME NEW k \in JobIds, jobs'[k].pc = "checking" PROVE Noticed(jobs[k].t)'
  <2>1. PICK t : t = jobs[k].t
    OBVIOUS
  <2>2. Noticed(t)'
    BY <1>1, <2>1 DEF DoorInv
  <2>3. QED
    BY <2>1, <2>2 DEF Noticed
<1>2. QED
    BY <1>1 DEF DoorInv, Busy, Running

LEMMA DoorOnly ==
    ASSUME DoorInv, NEW i \in JobIds, OneMoved(i), \A t : Noticed(t) => Noticed(t)',
           Busy(i)' => \A k \in JobIds : k # i /\ Busy(k) => jobs[k].t # jobs'[i].t,
           jobs'[i].pc = "checking" => Noticed(jobs[i].t)',
           jobs'[i].pc = "asking" => jobs'[i].t \in ByHand /\ \A k \in JobIds : k # i => jobs[k].pc # "asking",
           jobs'[i].pc \in AtWork => jobs'[i].t \in inflight',
           \A k \in JobIds : k # i /\ jobs[k].pc \in AtWork => jobs[k].t \in inflight',
           jobs'[i].pc = "done" => jobs'[i].closed
    PROVE  DoorInv'
<1>0. \A k \in JobIds : k # i => /\ jobs'[k].pc = jobs[k].pc /\ jobs'[k].t = jobs[k].t
                                 /\ jobs'[k].closed = jobs[k].closed
    BY DEF OneMoved
<1>1. ASSUME NEW k \in JobIds, NEW l \in JobIds, k # l, Busy(k)', Busy(l)' PROVE jobs'[k].t # jobs'[l].t
    BY <1>0, <1>1 DEF DoorInv, Busy
<1>2. ASSUME NEW k \in JobIds, jobs'[k].pc = "checking" PROVE Noticed(jobs[k].t)'
  <2>1. CASE k = i
    BY <1>2, <2>1
  <2>2. CASE k # i
    <3>1. Noticed(jobs[k].t) /\ jobs'[k].t = jobs[k].t
      BY <1>0, <1>2, <2>2 DEF DoorInv
    <3>2. PICK t : t = jobs[k].t
      OBVIOUS
    <3>3. Noticed(t)'
      BY <3>1, <3>2
    <3>4. QED
      BY <3>1, <3>2, <3>3 DEF Noticed
  <2>3. QED
    BY <2>1, <2>2
<1>3. ASSUME NEW k \in JobIds, jobs'[k].pc = "asking" PROVE jobs'[k].t \in ByHand
    BY <1>0, <1>3 DEF DoorInv
<1>4. ASSUME NEW k \in JobIds, NEW l \in JobIds, jobs'[k].pc = "asking", jobs'[l].pc = "asking" PROVE k = l
    BY <1>0, <1>4 DEF DoorInv
<1>5. ASSUME NEW k \in JobIds, Running(k)' PROVE jobs'[k].t \in inflight'
    BY <1>0, <1>5 DEF Running
<1>6. ASSUME NEW k \in JobIds, jobs'[k].pc = "done" PROVE jobs'[k].closed
    BY <1>0, <1>6 DEF DoorInv
<1>7. QED
    BY <1>1, <1>2, <1>3, <1>4, <1>5, <1>6 DEF DoorInv

LEMMA WorkIsBusy ==
    /\ \A k \in JobIds : jobs[k].pc \in AtWork => Busy(k)
    /\ \A pc \in AtWork : pc \notin {"free", "checking", "asking", "done"}
    BY DEF AtWork, Busy

\* A job at work goes on with its work, or one that was checked or asked for begins it.
LEMMA DoorMoves ==
    ASSUME DoorInv, NEW i \in JobIds, OnlyJob(i), UNCHANGED <<announced, inbox>>,
           \/ jobs[i].pc \in AtWork /\ inflight' = inflight
           \/ Busy(i) /\ inflight' = inflight \cup {jobs[i].t},
           jobs'[i].t = jobs[i].t, jobs'[i].pc \in AtWork
    PROVE  DoorInv'
<1>1. Busy(i) /\ jobs'[i].t \in inflight' /\ inflight \subseteq inflight'
    BY WorkIsBusy DEF DoorInv, Running
<1>2. jobs'[i].pc \notin {"free", "done", "checking", "asking"}
    BY WorkIsBusy
<1>3. \A k \in JobIds : k # i /\ Busy(k) => jobs[k].t # jobs'[i].t
    BY <1>1 DEF DoorInv
<1>4. \A k \in JobIds : k # i /\ jobs[k].pc \in AtWork => jobs[k].t \in inflight'
    BY <1>1 DEF DoorInv, Running
<1>5. QED
    BY <1>1, <1>2, <1>3, <1>4, NoticedStays, OnlyIsOne, DoorOnly

LEMMA DoorEnds ==
    ASSUME DoorInv, NEW i \in JobIds, OnlyJob(i), UNCHANGED <<announced, inbox>>, jobs[i].pc \in AtWork,
           TaskDone(jobs[i].t), jobs'[i].t = jobs[i].t, jobs'[i].pc = "done", jobs'[i].closed
    PROVE  DoorInv'
<1>1. Busy(i) /\ inflight' = inflight \ {jobs[i].t} /\ jobs'[i].pc \notin AtWork /\ ~Busy(i)'
    BY WorkIsBusy DEF TaskDone, Busy
<1>2. \A k \in JobIds : k # i /\ jobs[k].pc \in AtWork => jobs[k].t \in inflight'
    BY <1>1, WorkIsBusy DEF DoorInv, Running
<1>3. QED
    BY <1>1, <1>2, NoticedStays, OnlyIsOne, DoorOnly

LEMMA DoorSkips ==
    ASSUME LongTypeOK, DoorInv, NEW i \in JobIds, UNCHANGED <<announced, inbox>>, jobs[i].pc \in AtWork,
           NEW status \in Statuses, Skip(i, status)
    PROVE  DoorInv'
    BY SkipMeans, DoorEnds DEF Skip, Job5

LEMMA DoorKeeps ==
    ASSUME WorldAssumption, CrossAssumption, OneDoor, LongTypeOK, InboxInv, EntryInv, TaskInv, DoorInv, LongNext
    PROVE  DoorInv'
<1>1. ASSUME NEW n \in Notices, LongWins(n) PROVE DoorInv'
  <2>1. \A m \in Notices : <<"long", m>> \in inbox' => <<"long", m>> \in inbox
    BY <1>1 DEF LongWins
  <2>2. QED
    BY <1>1, <2>1, DoorAside DEF LongWins
<1>2. ASSUME NEW n \in Notices, NEW i \in JobIds, LongChecks(n, i) PROVE DoorInv'
  <2> DEFINE t == About[n]
  <2>1. /\ UNCHANGED <<active, inflight, announced>> /\ t \in Tickers /\ Source[n] = "bithumb"
        /\ <<"long", n>> \in inbox /\ inbox' = inbox \ {<<"long", n>>}
    BY <1>2 DEF LongChecks, WorldAssumption
  <2>2. announced[n] = 1
    BY <2>1 DEF InboxInv
  <2>3. CASE jobs' = jobs
    BY <2>1, <2>3, DoorAside
  <2>4. CASE t \notin inflight /\ Free(i) /\ jobs' = [jobs EXCEPT ![i].t = t, ![i].pc = "checking"]
    <3>1. OnlyJob(i) /\ jobs'[i].t = t /\ jobs'[i].pc = "checking"
      BY <2>1, <2>4, ChecksMeans, ZenonT(40) DEF Job5
    <3>2. ASSUME NEW k \in JobIds, Busy(k) PROVE jobs[k].t # t
      <4>1. CASE jobs[k].pc \in AtWork
        BY <2>4, <4>1 DEF DoorInv, Running
      <4>2. CASE jobs[k].pc = "checking"
        <5>1. PICK m \in Notices : Source[m] = "bithumb" /\ About[m] = jobs[k].t /\ <<"long", m>> \notin inbox
          BY <4>2 DEF DoorInv, Noticed
        <5>2. m # n
          BY <2>1, <5>1
        <5>3. QED
          BY <2>1, <5>1, <5>2 DEF OneDoor
      <4>3. CASE jobs[k].pc = "asking"
        BY <2>1, <4>3 DEF DoorInv, OneDoor
      <4>4. QED
        BY <3>2, <4>1, <4>2, <4>3, JobOf DEF Busy, Pcs, AtWork
    <3>3. \A u : Noticed(u) => Noticed(u)'
      BY <2>1, NoticedStays
    <3>4. Noticed(t)'
      BY <2>1, <2>2 DEF Noticed
    <3>5. \A k \in JobIds : jobs[k].pc \in AtWork => jobs[k].t \in inflight'
      BY <2>1 DEF DoorInv, Running
    <3>6. Noticed(jobs[i].t)'
      BY <3>1, <3>4 DEF Noticed
    <3>7. OneMoved(i) /\ jobs'[i].pc \notin {"asking", "done"} \cup AtWork
      BY <3>1, WorkIsBusy, OnlyIsOne
    <3>8. \A k \in JobIds : k # i /\ Busy(k) => jobs[k].t # jobs'[i].t
      BY <3>1, <3>2
    <3> HIDE DEF t
    <3>9. QED
      BY <3>3, <3>5, <3>6, <3>7, <3>8, DoorOnly
  <2>5. QED
    BY <1>2, <2>3, <2>4 DEF LongChecks
<1>3. ASSUME NEW i \in JobIds, LongAccepts(i) PROVE DoorInv'
  <2>1. jobs[i].pc = "checking" /\ UNCHANGED <<announced, inbox>>
    BY <1>3 DEF LongAccepts, worldVars
  <2>2. CASE jobs' = [jobs EXCEPT ![i] = NoJob] /\ UNCHANGED <<active, inflight>>
    <3>1. OnlyJob(i) /\ jobs'[i].pc = "free"
      <4>1. OnlyJob(i) /\ jobs'[i] = NoJob
        BY <2>2, NoJobIs, JobsAfter
      <4>2. QED
        BY <4>1, NoJobIs DEF Job5
    <3>2. QED
      BY <2>1, <2>2, <3>1, WorkIsBusy, NoticedStays, OnlyIsOne, DoorOnly DEF DoorInv, Running, Busy
  <2>3. CASE At(i, "scoring") /\ TaskMade(i, jobs[i].t)
    <3>1. OnlyJob(i) /\ jobs'[i].t = jobs[i].t /\ jobs'[i].pc = "scoring"
      BY <2>3, AtMeans DEF Pcs, Job5
    <3>2. QED
      BY <2>1, <2>3, <3>1, DoorMoves DEF TaskMade, AtWork, Busy
  <2>4. QED
    BY <1>3, <2>2, <2>3 DEF LongAccepts
<1>4. ASSUME NEW i \in JobIds, Scored(i) \/ Enters(i) PROVE DoorInv'
  <2>1. jobs[i].pc \in AtWork /\ UNCHANGED <<announced, inbox>>
    BY <1>4 DEF Scored, Enters, AtWork, worldVars
  <2>2. CASE Skip(i, "SKIPPED")
    BY <2>1, <2>2, DoorSkips DEF Statuses
  <2>3. CASE /\ UNCHANGED <<active, inflight>>
             /\ \/ jobs' = [jobs EXCEPT ![i].status = "OBSERVING", ![i].pc = "observing"]
                \/ At(i, "entering")
    <3>1. OnlyJob(i) /\ jobs'[i].t = jobs[i].t /\ jobs'[i].pc \in AtWork
      BY <2>3, ObservesMeans, AtMeans DEF Pcs, Job5, AtWork
    <3>2. QED
      BY <2>1, <2>3, <3>1, DoorMoves
  <2>4. QED
    BY <1>4, <2>2, <2>3 DEF Scored, Enters
<1>5. ASSUME NEW i \in JobIds, Pumped(i) \/ LongFails(i) PROVE DoorInv'
  <2>1. jobs[i].pc \in AtWork /\ UNCHANGED <<announced, inbox>>
    BY <1>5 DEF Pumped, LongFails, AtWork, worldVars
  <2>2. QED
    BY <1>5, <2>1, DoorSkips DEF Pumped, LongFails, Statuses
<1>6. ASSUME NEW i \in JobIds, LongOpens(i) \/ LongTold(i) \/ MonitorSells(i) PROVE DoorInv'
  <2>1. jobs[i].pc \in AtWork /\ UNCHANGED <<announced, inbox, active, inflight>>
    BY <1>6 DEF LongOpens, LongTold, MonitorSells, AtWork, worldVars
  <2>2. OnlyJob(i) /\ jobs'[i].t = jobs[i].t /\ jobs'[i].pc \in AtWork
    BY <1>6, OpensMeans, AtMeans DEF LongTold, MonitorSells, Pcs, AtWork, Job5
  <2>3. QED
    BY <2>1, <2>2, DoorMoves
<1>7. ASSUME NEW i \in JobIds, LongLeaves(i) PROVE DoorInv'
  <2>1. jobs[i].pc \in AtWork /\ UNCHANGED <<announced, inbox>> /\ TaskDone(jobs[i].t) /\ jobs[i].closed
    BY <1>7 DEF LongLeaves, AtWork, worldVars
  <2>2. OnlyJob(i) /\ jobs'[i].t = jobs[i].t /\ jobs'[i].pc = "done" /\ jobs'[i].closed = jobs[i].closed
    BY <1>7, AtMeans DEF LongLeaves, Pcs, Job5
  <2>3. QED
    BY <2>1, <2>2, DoorEnds
<1>8. ASSUME NEW i \in JobIds, NoticeSells(i) \/ UserSells(i) PROVE DoorInv'
    BY <1>8, DoorAside DEF NoticeSells, UserSells, worldVars
<1>9. ASSUME NEW i \in JobIds, NEW who \in {"monitor", "notice", "user"}, LongSold(i, who) PROVE DoorInv'
  <2>1. /\ OnlyJob(i) /\ jobs'[i].t = jobs[i].t /\ jobs'[i].closed
        /\ jobs'[i].pc = IF who = "monitor" THEN "done" ELSE jobs[i].pc
    BY <1>9, SoldMeans DEF Job5
  <2>2. /\ UNCHANGED <<announced, inbox>> /\ who \in closers[i]
        /\ IF who = "monitor" THEN TaskDone(jobs[i].t) ELSE UNCHANGED <<active, inflight>>
    BY <1>9 DEF LongSold
  <2>3. CASE who = "monitor"
    <3>1. jobs[i].pc \in AtWork
      BY <2>2, <2>3 DEF TaskInv, AtWork
    <3>2. QED
      BY <2>1, <2>2, <2>3, <3>1, DoorEnds
  <2>4. CASE who # "monitor"
    <3>1. jobs'[i].pc = jobs[i].pc /\ inflight' = inflight
      BY <2>1, <2>2, <2>4
    <3>2. \A k \in JobIds : jobs'[k].pc = jobs[k].pc /\ jobs'[k].t = jobs[k].t
                             /\ (jobs[k].closed => jobs'[k].closed)
      BY <2>1, <3>1 DEF OnlyJob
    <3>3. QED
      BY <2>2, <3>1, <3>2, NoticedStays, DoorKeptBy
  <2>5. QED
    BY <2>3, <2>4
<1>10. ASSUME NEW i \in JobIds, ManualStarts(i) PROVE DoorInv'
  <2>1. jobs[i].pc = "asking" /\ UNCHANGED <<announced, inbox>> /\ inflight' = inflight \cup {jobs[i].t}
    BY <1>10 DEF ManualStarts, TaskMade, worldVars
  <2>2. OnlyJob(i) /\ jobs'[i].t = jobs[i].t /\ jobs'[i].pc = "starting"
    BY <1>10, StartsMeans DEF Job5
  <2>3. QED
    BY <2>1, <2>2, DoorMoves DEF AtWork, Busy
<1>11. ASSUME NEW i \in JobIds, ExitManual(i) PROVE DoorInv'
  <2> DEFINE t == jobs[i].t
             cut == active[t]
  <2>1. t \in Tickers
    BY JobOf
  <2>2. ASSUME NEW k \in JobIds
        PROVE  /\ jobs'[k].t = jobs[k].t /\ jobs'[k].pc = (IF k \in cut THEN "done" ELSE jobs[k].pc)
               /\ jobs'[k].closed = (IF k = i THEN TRUE ELSE jobs[k].closed)
    <3>1. Job5(jobs'[k], jobs[k].t, IF k \in active[jobs[i].t] THEN "done" ELSE jobs[k].pc,
               IF k = i THEN "CLOSED" ELSE jobs[k].status, IF k = i THEN TRUE ELSE jobs[k].closed, jobs[k].qty)
      BY <1>11, ExitMeans
    <3>2. QED
      BY <3>1 DEF Job5
  <2>3. /\ UNCHANGED <<announced, inbox>>
        /\ \/ cut = {} /\ inflight' = inflight
           \/ inflight' = inflight \ {t}
    BY <1>11, Zenon DEF ExitManual, TaskDone
  <2>4. jobs[i].pc # "free" /\ (jobs[i].pc = "done" => FALSE)
    BY <1>11 DEF ExitManual, EntryInv, EntryShape, DoorInv
  <2>5. \A k \in cut : k = i
    <3>1. \A k \in cut : k \in JobIds /\ jobs[k].t = t /\ jobs[k].pc \in AtWork
      BY <2>1 DEF TaskInv, LongTypeOK, Running
    <3>2. QED
      BY <2>4, <3>1 DEF DoorInv, Busy, AtWork
  <2>6. \A k \in JobIds : k # i => jobs'[k].pc = jobs[k].pc /\ jobs'[k].closed = jobs[k].closed
    BY <2>2, <2>5
  <2>7. \A k \in JobIds : k # i /\ jobs[k].pc \in AtWork => jobs[k].t # t
    BY <2>4 DEF DoorInv, Busy, AtWork
  <2>8. CASE cut = {} /\ inflight' = inflight
    <3>1. \A k \in JobIds : jobs'[k].pc = jobs[k].pc /\ jobs'[k].t = jobs[k].t
                             /\ (jobs[k].closed => jobs'[k].closed)
      BY <2>2, <2>8
    <3>2. QED
      BY <2>3, <2>8, <3>1, NoticedStays, DoorKeptBy
  <2>9. CASE inflight' = inflight \ {t} /\ i \in cut
    <3>1. jobs'[i].pc = "done" /\ jobs'[i].closed
      BY <2>2, <2>9
    <3>2. OneMoved(i)
      BY <2>2, <2>6 DEF OneMoved
    <3>3. ~Busy(i)' /\ jobs'[i].pc \notin AtWork
      BY <3>1, WorkIsBusy DEF Busy
    <3>4. \A k \in JobIds : k # i /\ jobs[k].pc \in AtWork => jobs[k].t \in inflight'
      BY <2>7, <2>9 DEF DoorInv, Running
    <3>5. QED
      BY <2>3, <3>1, <3>2, <3>3, <3>4, NoticedStays, OnlyIsOne, DoorOnly
  <2>10. QED
    <3>1. cut # {} => i \in cut
      BY <2>5
    <3>2. cut = {} => inflight' = inflight
      BY <1>11, Zenon DEF ExitManual
    <3>3. QED
      BY <2>3, <2>8, <2>9, <3>1, <3>2
<1>12. ASSUME NEW i \in JobIds, NEW t \in Tickers, EnterManual(i, t) PROVE DoorInv'
  <2>1. OnlyJob(i) /\ jobs'[i].t = t /\ jobs'[i].pc = "asking"
    BY <1>12, AsksMeans DEF Job5
  <2>2. /\ UNCHANGED <<inflight, announced, inbox>> /\ t \in ByHand /\ t \notin inflight
        /\ Cardinality({k \in JobIds : jobs[k].pc = "asking"}) < Callers
    BY <1>12 DEF EnterManual, worldVars
  <2>3. \A k \in JobIds : jobs[k].pc # "asking"
    <3> DEFINE S == {k \in JobIds : jobs[k].pc = "asking"}
    <3>1. IsFiniteSet(S) /\ Callers \in Nat /\ Callers <= 1
      BY FS_Subset DEF CrossAssumption, OneDoor
    <3>2. Cardinality(S) < Callers
      BY <2>2
    <3> HIDE DEF S
    <3>3. S = {}
      <4>1. Cardinality(S) \in Nat
        BY <3>1, FS_CardinalityType
      <4>2. Cardinality(S) = 0
        BY <3>1, <3>2, <4>1
      <4>3. QED
        BY <3>1, <4>2, FS_EmptySet
    <3>4. QED
      BY <3>3 DEF S
  <2>4. ASSUME NEW k \in JobIds, Busy(k) PROVE jobs[k].t # t
    <3>1. CASE jobs[k].pc \in AtWork
      BY <2>2, <3>1 DEF DoorInv, Running
    <3>2. CASE jobs[k].pc = "checking"
      <4>1. PICK m \in Notices : Source[m] = "bithumb" /\ About[m] = jobs[k].t
        BY <3>2 DEF DoorInv, Noticed
      <4>2. QED
        BY <2>2, <4>1 DEF OneDoor
    <3>3. QED
      BY <2>3, <2>4, <3>1, <3>2, JobOf DEF Busy, Pcs, AtWork
  <2>5. QED
    <3>1. \A k \in JobIds : jobs[k].pc \in AtWork => jobs[k].t \in inflight'
      BY <2>2 DEF DoorInv, Running
    <3>2. QED
      BY <2>1, <2>2, <2>3, <2>4, <3>1, WorkIsBusy, NoticedStays, OnlyIsOne, DoorOnly
<1>13. ASSUME NEW t \in Tickers, WarmEnds(t) PROVE DoorInv'
    BY <1>13, DoorAside DEF WarmEnds, worldVars
<1>14. QED
    BY <1>1, <1>2, <1>3, <1>4, <1>5, <1>6, <1>7, <1>8, <1>9, <1>10, <1>11, <1>12, <1>13 DEF LongNext

(* What it buys and sells. *)

LEMMA LongTrades ==
    ASSUME WorldAssumption, CrossAssumption, WorldTypeOK, InboxInv, LongTypeOK, TaskInv, LongNext
    PROVE  WorldTypeOK' /\ InboxInv' /\ day' = day /\ UNCHANGED started
<1>1. UNCHANGED <<started, announced, day, upbit, sold>> /\ inbox' \subseteq inbox
    BY ZenonT(60) DEF LongNext, LongWins, LongChecks, LongAccepts, Scored, Pumped, Enters, LongOpens, LongTold, LongFails,
           LongLeaves, MonitorSells, NoticeSells, UserSells, LongSold, ManualStarts, ExitManual, EnterManual,
           WarmEnds, worldVars
<1>2. notional \in Nat /\ bought \in [Tickers -> Nat]
    BY DEF WorldAssumption, CrossAssumption, LongTypeOK, WorldTypeOK
<1>3. ASSUME NEW i \in JobIds, LongOpens(i) \/ LongFails(i) PROVE bought' \in [Tickers -> Nat]
  <2>1. CASE bought' = bought
    BY <1>2, <2>1
  <2>2. CASE \E q \in Fills(notional) : bought' = [bought EXCEPT ![jobs[i].t] = @ + q]
    <3>1. PICK q \in Fills(notional) : bought' = [bought EXCEPT ![jobs[i].t] = @ + q]
      BY <2>2
    <3>2. q \in Nat /\ jobs[i].t \in Tickers
      BY <1>2, JobOf DEF Fills
    <3>3. QED
      BY <1>2, <3>1, <3>2
  <2>3. QED
    <3>1. LongFails(i) => \E q \in Fills(notional) : bought' = [bought EXCEPT ![jobs[i].t] = @ + q]
      BY Zenon DEF LongFails
    <3>2. LongOpens(i) /\ ~liveLong => bought' = bought
      BY Zenon DEF LongOpens
    <3>3. LongOpens(i) /\ liveLong => \E q \in Fills(notional) : bought' = [bought EXCEPT ![jobs[i].t] = @ + q]
      <4>1. LongOpens(i) /\ liveLong => \E q \in Fills(notional) \ {0} : bought' = [bought EXCEPT ![jobs[i].t] = @ + q]
        BY Zenon DEF LongOpens
      <4>2. QED
        BY <4>1
    <3>4. QED
      BY <1>3, <2>1, <2>2, <3>1, <3>2, <3>3
<1>4. ASSUME NEW k \in JobIds, NEW t \in Tickers, jobs[k].t = t,
             NEW q \in Fills(Min({jobs[k].qty, ToSell(jobs[k].t)}))
      PROVE  q \in Nat /\ q <= bought[t] /\ [bought EXCEPT ![t] = @ - q] \in [Tickers -> Nat]
  <2>1. jobs[k].qty \in Nat
    BY JobOf
  <2>2. q \in Nat /\ q <= bought[t]
    BY <1>4, <2>1, ReduceOnly
  <2>3. QED
    BY <1>2, <2>2
<1>5. ASSUME NEW i \in JobIds, NEW who \in {"monitor", "notice", "user"}, LongSold(i, who)
      PROVE  bought' \in [Tickers -> Nat]
  <2>1. jobs[i].t \in Tickers
    BY JobOf
  <2>2. CASE liveLong
    <3>1. \E q \in Fills(Min({jobs[i].qty, ToSell(jobs[i].t)})) : bought' = [bought EXCEPT ![jobs[i].t] = @ - q]
      BY <1>5, <2>2, Zenon DEF LongSold
    <3>2. QED
      BY <1>4, <2>1, <3>1
  <2>3. CASE ~liveLong
    <3>1. \E q \in {0} : bought' = [bought EXCEPT ![jobs[i].t] = @ - q]
      BY <1>5, <2>3, Zenon DEF LongSold
    <3>2. QED
      BY <1>2, <2>1, <3>1
  <2>4. QED
    BY <2>2, <2>3
<1>6. ASSUME NEW i \in JobIds, ExitManual(i) PROVE bought' \in [Tickers -> Nat]
  <2> DEFINE t == jobs[i].t
  <2>1. t \in Tickers
    BY JobOf
  <2>2. PICK q \in (IF active[t] = {} THEN {0} ELSE UNION {CutFills(k) : k \in active[t]}) :
           bought' = [bought EXCEPT ![t] = @ + q]
    BY <1>6, Zenon DEF ExitManual
  <2>3. ASSUME NEW k \in active[t], q \in CutFills(k)
        PROVE  [bought EXCEPT ![t] = @ + q] \in [Tickers -> Nat]
    <3>1. k \in JobIds /\ jobs[k].t = t
      BY <2>1 DEF LongTypeOK, TaskInv
    <3>2. CASE q \in Nat
      BY <1>2, <2>1, <3>2
    <3>3. CASE \E r \in Fills(Min({jobs[k].qty, ToSell(jobs[k].t)})) : q = 0 - r
      <4>1. PICK r \in Fills(Min({jobs[k].qty, ToSell(jobs[k].t)})) : q = 0 - r
        BY <3>3
      <4>2. r \in Nat /\ r <= bought[t]
        BY <1>4, <2>1, <3>1
      <4>3. bought[t] \in Nat /\ bought[t] + q \in Nat
        BY <1>2, <2>1, <4>1, <4>2
      <4>4. QED
        BY <1>2, <2>1, <4>3
    <3>4. QED
      <4>1. \/ q \in {0} \/ q \in Fills(notional)
            \/ q \in {0 - r : r \in Fills(Min({jobs[k].qty, ToSell(jobs[k].t)}))}
        BY <2>3, Zenon DEF CutFills
      <4>2. CASE q \in {0} \/ q \in Fills(notional)
        <5>1. q \in Nat
          BY <1>2, <4>2 DEF Fills
        <5>2. QED
          BY <3>2, <5>1
      <4>3. CASE q \in {0 - r : r \in Fills(Min({jobs[k].qty, ToSell(jobs[k].t)}))}
        BY <3>3, <4>3
      <4>4. QED
        BY <4>1, <4>2, <4>3
  <2>4. CASE active[t] = {}
    BY <1>2, <2>1, <2>2, <2>4
  <2>5. CASE active[t] # {}
    <3>1. PICK k \in active[t] : q \in CutFills(k)
      BY <2>2, <2>5
    <3>2. QED
      BY <2>2, <2>3, <3>1
  <2>6. QED
    BY <2>4, <2>5
<1>7. \/ bought' = bought
      \/ \E i \in JobIds : \/ LongOpens(i) \/ LongFails(i) \/ ExitManual(i)
                          \/ \E who \in {"monitor", "notice", "user"} : LongSold(i, who)
  <2>1. ASSUME NEW n \in Notices, LongWins(n) \/ \E i \in JobIds : LongChecks(n, i) PROVE bought' = bought
    BY <2>1 DEF LongWins, LongChecks
  <2>2. ASSUME NEW i \in JobIds,
               \/ LongAccepts(i) \/ Scored(i) \/ Pumped(i) \/ Enters(i) \/ LongTold(i) \/ LongLeaves(i)
               \/ MonitorSells(i) \/ NoticeSells(i) \/ UserSells(i) \/ ManualStarts(i)
               \/ \E t \in Tickers : EnterManual(i, t)
        PROVE  bought' = bought
    BY <2>2 DEF LongAccepts, Scored, Pumped, Enters, LongTold, LongLeaves, MonitorSells, NoticeSells, UserSells,
                ManualStarts, EnterManual, worldVars
  <2>3. ASSUME NEW t \in Tickers, WarmEnds(t) PROVE bought' = bought
    BY <2>3 DEF WarmEnds, worldVars
  <2>4. QED
    BY <2>1, <2>2, <2>3 DEF LongNext
<1>8. QED
    BY <1>1, <1>2, <1>3, <1>5, <1>6, <1>7 DEF WorldTypeOK, InboxInv

-----------------------------------------------------------------------------
(* The desk *)

DeskInv ==
    /\ WorldTypeOK /\ InboxInv
    /\ ExecTypeOK /\ ShortInv
    /\ LongTypeOK /\ EntryInv /\ CallsInv /\ TaskInv
    /\ FollowTypeOK /\ FollowInv

LEMMA LongAside ==
    ASSUME LongTypeOK, EntryInv, CallsInv, TaskInv, UNCHANGED longVars, day \in Nat, day' \in Nat, day <= day'
    PROVE  LongTypeOK' /\ EntryInv' /\ CallsInv' /\ TaskInv'
<1>1. LongTypeOK'
    BY DEF longVars, LongTypeOK
<1>2. EntryInv' /\ TaskInv'
    BY EntryAside, TaskAside DEF longVars
<1>3. CallsInv'
    BY DEF longVars, CallsInv, SavedInv, SoldInv, Entered
<1>4. QED
    BY <1>1, <1>2, <1>3

LEMMA DeskStarts ==
    ASSUME WorldAssumption, ExecutorAssumption, CrossAssumption, FollowerAssumption, Init
    PROVE  DeskInv /\ DoorInv
<1>1. WorldTypeOK /\ InboxInv /\ day = 0
    BY WorldStarts DEF Init
<1>2. ExecTypeOK /\ ShortInv
    BY <1>1, ExecStarts DEF Init
<1>3. LongTypeOK /\ SavedInv /\ EntryInv /\ TaskInv /\ DoorInv
    BY <1>1, LongStarts DEF Init
<1>4. SoldInv
    BY DEF Init, LongInit, SoldInv
<1>5. FollowTypeOK /\ FollowInv
    BY <1>1, FollowStarts DEF Init
<1>6. QED
    BY <1>1, <1>2, <1>3, <1>4, <1>5 DEF DeskInv, CallsInv

\* A step of the world or of a service, and the others stand aside.
LEMMA DeskKeeps ==
    ASSUME WorldAssumption, ExecutorAssumption, CrossAssumption, FollowerAssumption, DeskInv, [Next]_vars
    PROVE  DeskInv'
<1> USE DEF DeskInv
<1>1. day \in Nat
    BY DEF WorldTypeOK, WorldAssumption
<1>2. CASE WorldNext /\ UNCHANGED <<shortVars, longVars, followVars>>
    BY <1>2, WorldKeeps, ExecAside, LongAside, FollowAside
<1>3. CASE ExecNext /\ UNCHANGED <<longVars, followVars>>
  <2>1. WorldTypeOK' /\ InboxInv' /\ day' = day
    BY <1>3, ExecTrades
  <2>2. QED
    BY <1>1, <1>3, <2>1, ExecKeeps, LongAside, FollowAside
<1>4. CASE LongNext /\ UNCHANGED <<shortVars, followVars>>
  <2>1. WorldTypeOK' /\ InboxInv' /\ day' = day
    BY <1>4, LongTrades
  <2>2. LongTypeOK' /\ EntryInv' /\ CallsInv' /\ TaskInv'
    BY <1>4, LongTypes, EntryKeeps, CallsKeep, TaskKeeps DEF CallsInv
  <2>3. QED
    BY <1>1, <1>4, <2>1, <2>2, ExecAside, FollowAside
<1>5. CASE FollowNext /\ UNCHANGED <<shortVars, longVars>>
  <2>1. WorldTypeOK' /\ InboxInv' /\ day' = day
    BY <1>5, FollowTrades
  <2>2. QED
    BY <1>1, <1>5, <2>1, FollowKeeps, ExecAside, LongAside
<1>6. CASE UNCHANGED vars
  <2>1. UNCHANGED worldVars /\ UNCHANGED shortVars /\ UNCHANGED longVars /\ UNCHANGED followVars
    BY <1>6 DEF vars
  <2>2. WorldTypeOK' /\ InboxInv' /\ day' = day
    BY <2>1 DEF worldVars, WorldTypeOK, InboxInv
  <2>3. QED
    BY <1>1, <2>1, <2>2, ExecAside, LongAside, FollowAside
<1>7. QED
    BY <1>2, <1>3, <1>4, <1>5, <1>6 DEF Next

LEMMA DoorStays ==
    ASSUME WorldAssumption, CrossAssumption, OneDoor, WorldTypeOK, ExecTypeOK, FollowTypeOK, InboxInv, LongTypeOK,
           EntryInv, TaskInv, DoorInv, [Next]_vars
    PROVE  DoorInv'
<1>1. CASE WorldNext /\ UNCHANGED longVars
    BY <1>1, DoorAnnounces DEF longVars
<1>2. CASE ExecNext /\ UNCHANGED longVars
  <2>1. inbox' \subseteq inbox /\ UNCHANGED announced
    BY <1>2, ExecTrades
  <2>2. QED
    BY <1>2, <2>1, DoorAside DEF longVars
<1>3. CASE LongNext
    BY <1>3, DoorKeeps
<1>4. CASE FollowNext /\ UNCHANGED longVars
  <2>1. inbox' \subseteq inbox /\ UNCHANGED announced
    BY <1>4, FollowTrades
  <2>2. QED
    BY <1>4, <2>1, DoorAside DEF longVars
<1>5. CASE UNCHANGED vars
    BY <1>5, DoorAside DEF vars, worldVars, longVars
<1>6. QED
    BY <1>1, <1>2, <1>3, <1>4, <1>5 DEF Next

\* Whatever the tickers, notices, caps and numbers of jobs, callers and closers, the
\* inductive invariants of the three services hold of the desk.
THEOREM DeskInvHolds == Spec => []DeskInv
<1>1. Init => DeskInv
    BY DeskStarts, WorldAssumption, ExecutorAssumption, CrossAssumption, FollowerAssumption
<1>2. DeskInv /\ [Next]_vars => DeskInv'
    BY DeskKeeps, WorldAssumption, ExecutorAssumption, CrossAssumption, FollowerAssumption
<1>3. QED
    BY <1>1, <1>2, PTL DEF Spec

\* Every variable has its type.
THEOREM TypeOKHolds == Spec => []TypeOK
<1>1. DeskInv => TypeOK
    BY DEF DeskInv, TypeOK
<1>2. QED
    BY <1>1, DeskInvHolds, PTL

\* The executor never shorts a ticker twice at once: an order in flight or an open job.
THEOREM OneShortHolds == Spec => []OneShort
<1>1. DeskInv => OneShort
    BY ShortInvIsOne, WorldAssumption DEF DeskInv
<1>2. QED
    BY <1>1, DeskInvHolds, PTL

\* A day's shorts pass the cap by an order of each other ticker, and by no more.
THEOREM ShortSpentBoundedHolds == Spec => []ShortSpentBounded
<1>1. DeskInv => ShortSpentBounded
    BY DEF DeskInv, ShortInv
<1>2. QED
    BY <1>1, DeskInvHolds, PTL

\* The follower never holds more of a ticker than one order bought.
THEOREM BoughtOnceHolds == Spec => []BoughtOnce
<1>1. DeskInv => BoughtOnce
    BY DEF DeskInv, FollowInv
<1>2. QED
    BY <1>1, DeskInvHolds, PTL

\* The longs that are entered and open stay below max_open, however many tasks pass the
\* gate at once.
THEOREM EnteredBoundedHolds == Spec => []EnteredBounded
<1>1. DeskInv => EnteredBounded
    BY EntryInvBounds, CrossAssumption DEF DeskInv
<1>2. QED
    BY <1>1, DeskInvHolds, PTL

\* Where no two jobs of a ticker can be made at once, nothing is open without somebody to
\* close it, and no ticker is in flight for good.
THEOREM OpenHasTaskHolds == OneDoor => (Spec => []OpenHasTask)
<1> SUFFICES ASSUME OneDoor PROVE Spec => []OpenHasTask
    OBVIOUS
<1>1. Init => DoorInv
    BY DeskStarts, WorldAssumption, ExecutorAssumption, CrossAssumption, FollowerAssumption
<1>2. DeskInv /\ DoorInv /\ [Next]_vars => DoorInv'
    BY DoorStays, WorldAssumption, CrossAssumption DEF DeskInv
<1>3. DeskInv /\ DoorInv => OpenHasTask
  <2> SUFFICES ASSUME DeskInv, DoorInv PROVE OpenHasTask
    OBVIOUS
  <2>1. EnteredIsMonitored /\ \A t \in inflight : \E i \in JobIds : Running(i) /\ jobs[i].t = t
    BY DEF DeskInv, FollowInv, TaskInv
  <2>2. ASSUME NEW i \in JobIds, Entered(i), ~jobs[i].closed PROVE Running(i)
    <3>1. EntryShape(jobs[i]) /\ jobs[i].pc \in Pcs
      BY JobOf DEF DeskInv, EntryInv
    <3>2. jobs[i].pc # "done" /\ jobs[i].qty > 0
      BY <2>2 DEF DoorInv, Entered
    <3>3. QED
      BY <3>1, <3>2 DEF EntryShape, Running, AtWork, Pcs
  <2>3. QED
    BY <2>1, <2>2 DEF OpenHasTask, JobsHaveTasks
<1>4. QED
    BY <1>1, <1>2, <1>3, DeskInvHolds, PTL DEF Spec
=============================================================================
