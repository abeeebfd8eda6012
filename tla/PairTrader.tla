----------------------------- MODULE PairTrader -----------------------------
(***************************************************************************)
(* PairTrader: one loop trades a pair of perpetuals of one venue, long one *)
(* coin and short the other, entry by entry (DCA), at the market or with   *)
(* post-only limit orders.  An entry is one unit of each coin; the venue   *)
(* fills what rests whenever it likes, and any call may raise.             *)
(***************************************************************************)
EXTENDS Integers, FiniteSets

CONSTANTS
    Plans,                       \* bound: what a behaviour has: "market" orders and crashes,
                                 \* market orders that are "observed", or "limit" orders
    LimitCount, MaxUnits,        \* trading_limit_count; max_position_usd in entries, 0: none
    MaxRetries, Grace,           \* limit_order.max_retries; early_exit_grace_cycles
    StopLoss, EntryTrigger, CloseTrigger, Activation, Callback,   \* levels of the PnL
    MaxLosses,                   \* circuit_breaker.consecutive_losses
    MaxFaults, MaxCrashes, PosCap   \* bounds: calls that raise, restarts, units of a coin

ASSUME PairAssumption ==
    /\ Plans \subseteq {"market", "observed", "limit"}
    /\ {LimitCount, MaxRetries, MaxLosses, EntryTrigger, CloseTrigger, Callback, PosCap} \subseteq Nat \ {0}
    /\ {MaxUnits, Grace, MaxFaults, MaxCrashes} \subseteq Nat
    /\ StopLoss \in Nat /\ EntryTrigger < StopLoss
    /\ Activation \in Nat /\ CloseTrigger <= Activation

VARIABLES
    plan,       \* its part of Plans
    pos,        \* pos[c]: the venue's position in coin c, signed
    rest,       \* rest[c][s]: units of c resting on side s of the book
    pnl,        \* the level of _calculate_total_pnl_percent; 0 without entries
    trade,      \* entry_count, direction (1: coin1_long, -1), _peak_pnl, _trailing_active, ...
    observe,    \* observe_mode
    losses, breaker, cooling,    \* _consecutive_losses; the two cooldowns are running
    task,       \* where the loop is
    saved,      \* what the host has kept of get_state
    slipped,    \* history: one of the failures the code does not repair has happened
    faults, crashes

venueVars == <<pos, rest>>
brakeVars == <<losses, breaker, cooling>>
boundVars == <<faults, crashes>>
pairVars == <<plan, venueVars, pnl, trade, observe, brakeVars, task, saved, slipped, boundVars>>

Coins == {1, 2}
Levels == -StopLoss .. Activation
Empty == [s \in {-1, 1} |-> 0]
NoTrade == [count |-> 0, dir |-> 0, peak |-> 0, trailing |-> FALSE, cycles |-> 0]
NoState == [trade |-> NoTrade, observe |-> FALSE]
Idle == [at |-> "idle", leg |-> 0, tries |-> 0, priced |-> FALSE, done |-> {}, why |-> ""]
Down == [Idle EXCEPT !.at = "down"]
Least(a, b) == IF a < b THEN a ELSE b
Larger(a, b) == IF a < b THEN b ELSE a

\* The side on which this trade holds coin c.
Side(c) == IF c = 1 THEN trade.dir ELSE -trade.dir
Resting(c) == rest[c] # Empty
AnyResting == \E c \in Coins : Resting(c)
Bought(c) == [pos EXCEPT ![c] = @ + Side(c)]
Raises == faults < MaxFaults /\ faults' = faults + 1
InRange == \A c \in Coins : pos[c] + rest[c][1] < PosCap /\ rest[c][-1] - pos[c] < PosCap

-----------------------------------------------------------------------------
PairInit ==
    /\ plan \in Plans
    /\ pos = [c \in Coins |-> 0] /\ rest = [c \in Coins |-> Empty]
    /\ pnl = 0 /\ trade = NoTrade /\ observe = FALSE
    /\ losses = 0 /\ breaker = FALSE /\ cooling = FALSE
    /\ task = Idle /\ saved = NoState
    /\ slipped = FALSE /\ faults = 0 /\ crashes = 0

-----------------------------------------------------------------------------
(* The world: prices, the venue, the operator, time, the host *)

\* Prices move: what matters is the level that a cycle reads.
Moves ==
    /\ trade.count > 0 /\ task.at = "idle"
    /\ pnl' \in Levels \ {pnl}
    /\ UNCHANGED <<plan, venueVars, trade, observe, brakeVars, task, saved, slipped, boundVars>>

\* The loop looks at what it has just placed.
Watched(c) == (task.at = "wait" /\ task.leg = c) \/ task.at \in {"quote", "settle"}

\* A unit that rests is filled; one that fills while the loop does not look at it slips.
Fills(c, s) ==
    /\ rest[c][s] > 0
    /\ rest' = [rest EXCEPT ![c][s] = @ - 1]
    /\ pos' = [pos EXCEPT ![c] = @ + s]
    /\ slipped' = (slipped \/ ~Watched(c))
    /\ UNCHANGED <<plan, pnl, trade, observe, brakeVars, task, saved, boundVars>>

Toggles ==
    /\ plan # "market" /\ observe' = ~observe
    /\ UNCHANGED <<plan, venueVars, pnl, trade, brakeVars, task, saved, slipped, boundVars>>

Expires ==
    /\ \/ breaker /\ breaker' = FALSE /\ UNCHANGED cooling
       \/ cooling /\ cooling' = FALSE /\ UNCHANGED breaker
    /\ UNCHANGED <<plan, venueVars, pnl, trade, observe, losses, task, saved, slipped, boundVars>>

\* get_state: nothing unless there are entries.
State == IF trade.count = 0 THEN NoState ELSE [trade |-> trade, observe |-> observe]

Held(state) == <<state.trade.count, state.trade.dir>>

\* The host keeps the state of the trader.
Saves ==
    /\ plan = "market" /\ MaxCrashes > 0 /\ task.at # "down" /\ saved' = State
    /\ UNCHANGED <<plan, venueVars, pnl, trade, observe, brakeVars, task, slipped, boundVars>>

\* The process is lost, or shutdown leaves the positions: what matters is whether it was
\* in the middle of something, or had changed since it was saved.
Crashes ==
    /\ task.at # "down" /\ plan = "market" /\ crashes < MaxCrashes /\ crashes' = crashes + 1
    /\ task' = Down /\ trade' = NoTrade /\ observe' = FALSE
    /\ losses' = 0 /\ breaker' = FALSE /\ cooling' = FALSE
    /\ slipped' = (slipped \/ task.at \notin {"idle", "delay"} \/ Held(saved) # Held(State))
    /\ pnl' = 0
    /\ UNCHANGED <<plan, venueVars, saved, faults>>

\* _close_coin_positions: what is left of the positions, some calls having raised.
Closed(raised) == [c \in Coins |-> IF c \in raised THEN pos[c] ELSE 0]
Raised == {r \in SUBSET Coins : faults + Cardinality(r) <= MaxFaults}

\* shutdown closes the positions, and the process ends; the host may keep what was saved.
ShutsDown ==
    /\ task.at # "down" /\ plan = "market" /\ crashes < MaxCrashes /\ crashes' = crashes + 1
    /\ task' = Down /\ trade' = NoTrade /\ observe' = FALSE
    /\ losses' = 0 /\ breaker' = FALSE /\ cooling' = FALSE
    /\ \E r \in Raised : /\ pos' = Closed(r) /\ faults' = faults + Cardinality(r)
                         /\ slipped' = (r # {} \/ AnyResting)
    /\ saved' \in {saved, NoState} /\ pnl' = 0
    /\ UNCHANGED <<plan, rest>>

\* run: what was saved is restored if one of the coins has a position; otherwise the
\* positions found are closed, and nothing is cancelled.
Restarts ==
    /\ task.at = "down" /\ task' = Idle
    /\ IF saved # NoState /\ (\E c \in Coins : pos[c] # 0)
       THEN /\ trade' = saved.trade /\ observe' = saved.observe
            /\ UNCHANGED <<pos, faults, slipped>>
       ELSE /\ \E r \in Raised :
                 /\ pos' = Closed(r) /\ faults' = faults + Cardinality(r)
                 /\ slipped' = (r # {} \/ AnyResting)
            /\ UNCHANGED <<trade, observe>>
    /\ UNCHANGED <<plan, rest, pnl, brakeVars, saved, crashes>>

-----------------------------------------------------------------------------
(* _trade_cycle *)

Entering == [Idle EXCEPT !.at = IF plan = "limit" THEN "place" ELSE "market", !.leg = 1]
Closing(why) == [Idle EXCEPT !.at = "close", !.leg = 1, !.why = why]

\* No position: every brake is off, the signals agree, and entry_delay is slept.
Decides ==
    /\ task.at = "idle" /\ trade.count = 0 /\ InRange
    /\ ~breaker /\ ~observe /\ ~cooling
    /\ task' = [Idle EXCEPT !.at = "delay"]
    /\ UNCHANGED <<plan, venueVars, pnl, trade, observe, brakeVars, saved, slipped, boundVars>>

\* The entry begins, unless the prices are not there any more.
Begins ==
    /\ task.at = "delay"
    /\ \/ task' = Idle /\ UNCHANGED trade
       \/ task' = Entering /\ \E d \in {-1, 1} : trade' = [trade EXCEPT !.dir = d]
    /\ UNCHANGED <<plan, venueVars, pnl, observe, brakeVars, saved, slipped, boundVars>>

\* Mutant of Verdict: the stop loss waits for the trailing stop to be inactive.
VerdictTrailed(t) ==
    IF t.trailing /\ t.peak - pnl >= Callback /\ pnl > -StopLoss THEN Closing("trailing")
    ELSE IF t.trailing THEN Idle
    ELSE IF pnl >= CloseTrigger THEN Closing("profit")
    ELSE IF pnl <= -StopLoss THEN Closing("stop")
    ELSE IF pnl <= -EntryTrigger /\ t.count < LimitCount /\ (MaxUnits = 0 \/ t.count < MaxUnits) /\ InRange
    THEN Entering
    ELSE Idle

\* What the levels ask for, in the order of the code.
Verdict(t) ==
    IF t.trailing /\ t.peak - pnl >= Callback THEN Closing("trailing")
    ELSE IF pnl >= CloseTrigger /\ ~t.trailing THEN Closing("profit")
    ELSE IF pnl <= -StopLoss THEN Closing("stop")
    ELSE IF pnl <= -EntryTrigger /\ t.count < LimitCount /\ (MaxUnits = 0 \/ t.count < MaxUnits) /\ InRange
    THEN Entering
    ELSE Idle

\* A position: an early exit on a reversed signal, the limit exit of observe mode, or the
\* trailing stop, the target, the stop loss and the next entry.
Watches ==
    /\ task.at = "idle" /\ trade.count > 0
    /\ LET t == [trade EXCEPT !.cycles = Least(@ + 1, Grace + 1)]
           u == [t EXCEPT !.peak = Larger(@, pnl), !.trailing = @ \/ pnl >= Activation]
       IN  \/ /\ ~t.trailing /\ t.cycles > Grace
              /\ trade' = t /\ task' = Closing(IF pnl > 0 THEN "gain" ELSE "signal")
           \/ /\ observe /\ trade' = t
              /\ task' = IF pnl >= CloseTrigger THEN [Idle EXCEPT !.at = "quote", !.leg = 1] ELSE Idle
           \/ ~observe /\ trade' = u /\ task' = Verdict(u)
    /\ UNCHANGED <<plan, venueVars, pnl, observe, brakeVars, saved, slipped, boundVars>>

-----------------------------------------------------------------------------
(* _execute_close: the reset follows whatever the two calls did *)

\* What _trade_cycle does after the close.
Brake(why) ==
    CASE why = "stop" ->
            /\ cooling' = TRUE
            /\ losses' = Least(losses + 1, MaxLosses)
            /\ breaker' = (breaker \/ losses' >= MaxLosses)
      [] why = "signal" -> UNCHANGED brakeVars
      [] OTHER -> losses' = 0 /\ UNCHANGED <<breaker, cooling>>

\* Mutant of Closes: only the first coin is closed.
ClosesOne(c) ==
    /\ task.at = "close" /\ task.leg = c
    /\ pos' = IF c = 1 THEN [pos EXCEPT ![c] = 0] ELSE pos
    /\ UNCHANGED faults
    /\ IF c = 1 THEN /\ task' = [task EXCEPT !.leg = 2]
                     /\ slipped' = AnyResting
                     /\ UNCHANGED <<pnl, trade, brakeVars>>
                ELSE /\ task' = Idle /\ trade' = NoTrade /\ pnl' = 0 /\ Brake(task.why)
                     /\ UNCHANGED slipped
    /\ UNCHANGED <<plan, rest, observe, saved, crashes>>

\* One coin: its position is read and closed, or a call raises, before the order or after,
\* and is passed over.  A close that goes well leaves nothing but orders that rest.
Closes(c) ==
    /\ task.at = "close" /\ task.leg = c
    /\ \/ /\ pos' = [pos EXCEPT ![c] = 0] /\ UNCHANGED faults
          /\ slipped' = IF c = 1 THEN AnyResting ELSE slipped
       \/ pos' \in {pos, [pos EXCEPT ![c] = 0]} /\ Raises /\ slipped' = TRUE
    /\ IF c = 1 THEN task' = [task EXCEPT !.leg = 2] /\ UNCHANGED <<pnl, trade, brakeVars>>
                ELSE task' = Idle /\ trade' = NoTrade /\ pnl' = 0 /\ Brake(task.why)
    /\ UNCHANGED <<plan, rest, observe, saved, crashes>>

-----------------------------------------------------------------------------
(* _execute_entry, at the market *)

\* _record_entry: one entry more.
Recorded == [trade EXCEPT !.count = @ + 1]

\* The market order of coin c goes through, or raises with the order done or not.
Markets(c) ==
    /\ task.at = "market" /\ task.leg = c
    /\ \/ /\ pos' = Bought(c) /\ UNCHANGED <<faults, slipped>>
          /\ IF c = 1 THEN task' = [task EXCEPT !.leg = 2] /\ UNCHANGED trade
                      ELSE task' = Idle /\ trade' = Recorded
       \/ /\ Raises /\ UNCHANGED trade
          /\ \/ pos' = pos /\ UNCHANGED slipped
             \/ pos' = Bought(c) /\ slipped' = TRUE
          /\ task' = IF c = 1 THEN Idle ELSE [Idle EXCEPT !.at = "unwind"]
    /\ UNCHANGED <<plan, rest, pnl, observe, brakeVars, saved, crashes>>

\* Mutant of Unwinds: coin 1 keeps its position.
UnwindsNot ==
    /\ task.at = "unwind" /\ task' = Idle
    /\ slipped' = (slipped \/ trade.count > 0) /\ UNCHANGED <<pos, faults>>
    /\ UNCHANGED <<plan, rest, pnl, trade, observe, brakeVars, saved, crashes>>

\* Coin 2 failed: all that is held of coin 1 is closed, its part of earlier entries with it.
Unwinds ==
    /\ task.at = "unwind" /\ task' = Idle
    /\ \/ /\ pos' = [pos EXCEPT ![1] = 0] /\ UNCHANGED faults
          /\ slipped' = (slipped \/ trade.count > 0)
       \/ pos' \in {pos, [pos EXCEPT ![1] = 0]} /\ Raises /\ slipped' = TRUE
    /\ UNCHANGED <<plan, rest, pnl, trade, observe, brakeVars, saved, crashes>>

-----------------------------------------------------------------------------
(* _execute_limit_entry *)

\* _limit_order_with_retry comes back for coin c: then the other coin, or the safety of the
\* pair: the missing one is bought at the market, or both are.
Leg(c, filled) ==
    LET done == IF filled THEN task.done \cup {c} ELSE task.done
        next(at, leg) == [Idle EXCEPT !.at = at, !.leg = leg, !.done = done]
    IN  IF c = 1 THEN task' = next("place", 2) /\ UNCHANGED trade
        ELSE CASE done = Coins -> task' = Idle /\ trade' = Recorded
               [] done = {} -> task' = next("market", 1) /\ UNCHANGED trade
               [] OTHER -> /\ \E x \in Coins \ done : task' = next("hedge", x)
                           /\ UNCHANGED trade

AtPlace(c) == task.at = "place" /\ task.leg = c /\ task.tries < MaxRetries
NextTry == [task EXCEPT !.tries = @ + 1]
Rested(cancelled, c) == [(IF cancelled THEN Empty ELSE rest[c]) EXCEPT ![Side(c)] = @ + 1]

\* The book has moved: what rests is cancelled (a failure is ignored) and the order placed;
\* the venue may drop a post-only order that would cross and say nothing, which only a coin
\* without a position shows.
Places(c) ==
    /\ AtPlace(c)
    /\ \E cancelled \in {task.tries > 0, FALSE} :
          /\ IF cancelled = (task.tries > 0) THEN UNCHANGED faults ELSE Raises
          /\ \/ /\ rest' = [rest EXCEPT ![c] = Rested(cancelled, c)]
                /\ slipped' = (slipped \/ (~cancelled /\ Resting(c)))
             \/ /\ rest' = IF cancelled THEN [rest EXCEPT ![c] = Empty] ELSE rest
                /\ slipped' = (slipped \/ (~cancelled /\ Resting(c)) \/ pos[c] # 0)
    /\ task' = [task EXCEPT !.at = "wait", !.priced = TRUE]
    /\ UNCHANGED <<plan, pos, pnl, trade, observe, brakeVars, saved, crashes>>

\* The venue refuses the post-only order: the next attempt.
Refused(c) ==
    /\ AtPlace(c)
    /\ rest' = IF task.tries > 0 THEN [rest EXCEPT ![c] = Empty] ELSE rest
    /\ task' = NextTry
    /\ slipped' = (slipped \/ (task.tries = 0 /\ Resting(c)))
    /\ UNCHANGED <<plan, pos, pnl, trade, observe, brakeVars, saved, boundVars>>

\* The book has hardly moved since the last order that was taken: what rests of it stays.
\* If that was cancelled for one that was refused, nothing rests, and a coin with an earlier
\* position will look filled.
Keeps(c) ==
    /\ AtPlace(c) /\ task.tries > 0 /\ task.priced
    /\ task' = [task EXCEPT !.at = "wait"]
    /\ slipped' = (slipped \/ (~Resting(c) /\ pos[c] # 0))
    /\ UNCHANGED <<plan, venueVars, pnl, trade, observe, brakeVars, saved, boundVars>>

\* There is no price, or the order raises: what rests is left where it is.
GivesUp(c) ==
    /\ AtPlace(c) /\ Raises
    /\ \E r \in {rest[c], Rested(FALSE, c)} :
          /\ rest' = [rest EXCEPT ![c] = r]
          /\ slipped' = (slipped \/ r # Empty)
    /\ Leg(c, FALSE)
    /\ UNCHANGED <<plan, pos, pnl, observe, brakeVars, saved, crashes>>

\* No order rests: filled if the coin has a position, otherwise it was refused.
Looks(c) ==
    /\ task.at = "wait" /\ task.leg = c
    /\ IF ~Resting(c) /\ pos[c] # 0
       THEN Leg(c, TRUE)
       ELSE /\ task' = [task EXCEPT !.at = "place", !.tries = @ + 1, !.priced = Resting(c)]
            /\ UNCHANGED trade
    /\ UNCHANGED <<plan, venueVars, pnl, observe, brakeVars, saved, slipped, boundVars>>

\* The look raises: the whole entry is given up, with what it has bought so far.
Abandons ==
    /\ task.at = "wait" /\ Raises
    /\ task' = Idle /\ slipped' = TRUE
    /\ UNCHANGED <<plan, venueVars, pnl, trade, observe, brakeVars, saved, crashes>>

\* The attempts or order_ttl are over: what rests is cancelled (a failure is ignored).
Tires(c) ==
    /\ task.at = "place" /\ task.leg = c /\ task.tries > 0
    /\ \/ /\ rest' = [rest EXCEPT ![c] = Empty] /\ UNCHANGED <<faults, slipped>>
       \/ Raises /\ slipped' = (slipped \/ Resting(c)) /\ UNCHANGED rest
    /\ task' = [task EXCEPT !.at = "urgent"]
    /\ UNCHANGED <<plan, pos, pnl, trade, observe, brakeVars, saved, crashes>>

\* _emergency_market_fill: an IOC order that meets nobody counts as filled.
Hurries(c) ==
    /\ task.at = "urgent" /\ task.leg = c
    /\ \/ /\ UNCHANGED faults /\ Leg(c, TRUE)
          /\ \/ pos' = Bought(c) /\ UNCHANGED slipped
             \/ pos' = pos /\ slipped' = TRUE
       \/ /\ Raises /\ Leg(c, FALSE)
          /\ \/ pos' = pos /\ UNCHANGED slipped
             \/ pos' = Bought(c) /\ slipped' = TRUE
    /\ UNCHANGED <<plan, rest, pnl, observe, brakeVars, saved, crashes>>

\* The other coin of a half-filled pair is bought at the market; the entry is recorded
\* whatever comes of it.
Hedges(c) ==
    /\ task.at = "hedge" /\ task.leg = c
    /\ \/ pos' = Bought(c) /\ UNCHANGED <<faults, slipped>>
       \/ pos' \in {pos, Bought(c)} /\ Raises /\ slipped' = TRUE
    /\ task' = Idle /\ trade' = Recorded
    /\ UNCHANGED <<plan, rest, pnl, observe, brakeVars, saved, crashes>>

-----------------------------------------------------------------------------
(* _execute_close_limit: observe mode's exit *)

Quoted(c) == LET s == IF pos[c] > 0 THEN -1 ELSE 1
             IN  [rest EXCEPT ![c][s] = @ + (IF pos[c] > 0 THEN pos[c] ELSE -pos[c])]

\* An order for all of coin c, on top of what rests of the cycle before; it may be dropped,
\* or there is no price.
Quotes(c) ==
    /\ task.at = "quote" /\ task.leg = c
    /\ \/ pos[c] = 0 /\ UNCHANGED <<rest, slipped>>
       \/ pos[c] # 0 /\ InRange /\ rest' = Quoted(c) /\ slipped' = (slipped \/ Resting(c))
       \/ pos[c] # 0 /\ UNCHANGED rest /\ slipped' = TRUE
    /\ task' = IF c = 1 THEN [task EXCEPT !.leg = 2] ELSE [Idle EXCEPT !.at = "settle"]
    /\ UNCHANGED <<plan, pos, pnl, trade, observe, brakeVars, saved, boundVars>>

\* A second later: with no position left, the entries and the direction are forgotten,
\* and the peak and the trailing stop are not.
Settles ==
    /\ task.at = "settle" /\ task' = Idle
    /\ IF \A c \in Coins : pos[c] = 0
       THEN /\ trade' = [trade EXCEPT !.count = 0, !.dir = 0] /\ pnl' = 0
            /\ slipped' = AnyResting
       ELSE UNCHANGED <<pnl, trade, slipped>>
    /\ UNCHANGED <<plan, venueVars, observe, brakeVars, saved, boundVars>>

\* A call of it raises: the next cycle tries again.
Falters ==
    /\ task.at \in {"quote", "settle"} /\ Raises
    /\ task' = Idle /\ slipped' = TRUE
    /\ UNCHANGED <<plan, venueVars, pnl, trade, observe, brakeVars, saved, crashes>>

-----------------------------------------------------------------------------
Enters(c) ==
    \/ Markets(c) \/ Places(c) \/ Refused(c) \/ Keeps(c) \/ GivesUp(c) \/ Looks(c)
    \/ Tires(c) \/ Hurries(c) \/ Hedges(c)

Loop ==
    \/ Decides \/ Begins \/ Watches \/ Unwinds \/ Abandons \/ Settles \/ Falters
    \/ \E c \in Coins : Closes(c) \/ Enters(c) \/ Quotes(c)

PairWorld ==
    \/ Moves \/ Toggles \/ Expires \/ Saves \/ Crashes \/ ShutsDown \/ Restarts
    \/ \E c \in Coins, s \in {-1, 1} : Fills(c, s)

PairNext == Loop \/ PairWorld

PairSpec == PairInit /\ [][PairNext]_pairVars

\* The loop is a task that goes on; nothing is owed by the venue, the operator or the host.
PairFairSpec == PairSpec /\ WF_pairVars(Loop)

-----------------------------------------------------------------------------
(* Properties *)

Trades == [count : 0..LimitCount, dir : {-1, 0, 1}, peak : 0..Activation,
           trailing : BOOLEAN, cycles : 0..(Grace + 1)]
LoopStages == {"idle", "down", "delay", "close", "market", "unwind", "place", "wait", "urgent",
               "hedge", "quote", "settle"}
Reasons == {"", "trailing", "profit", "stop", "gain", "signal"}
Tasks == [at : LoopStages, leg : {0} \cup Coins, tries : 0..MaxRetries, priced : BOOLEAN,
          done : SUBSET Coins, why : Reasons]

\* Every variable has its type; no more entries than trading_limit_count, nor than the
\* largest position allows.
PairTypeOK ==
    /\ plan \in Plans /\ pnl \in Levels
    /\ pos \in [Coins -> Int] /\ rest \in [Coins -> [{-1, 1} -> Nat]]
    /\ trade \in Trades /\ (MaxUnits > 0 => trade.count <= MaxUnits)
    /\ saved \in [trade : Trades, observe : BOOLEAN]
    /\ (MaxUnits > 0 => saved.trade.count <= MaxUnits)
    /\ losses \in 0..MaxLosses /\ task \in Tasks
    /\ observe \in BOOLEAN /\ breaker \in BOOLEAN /\ cooling \in BOOLEAN /\ slipped \in BOOLEAN
    /\ faults \in 0..MaxFaults /\ crashes \in 0..MaxCrashes

\* Between two cycles the venue holds what the trader believes: its entries, long one coin
\* and short the other, and nothing when it has none.  A failed second leg of a first entry
\* is undone, a refused order of a first entry is seen, a close or a restart that goes well
\* repairs whatever came before: only the slips named by the actions break it.
Hedged ==
    task.at \in {"idle", "delay"} /\ ~slipped /\ ~AnyResting =>
        \A c \in Coins : pos[c] = trade.count * Side(c)

\* A trade whose loss stays at the stop loss is closed, trailing or not, while the bot
\* runs and does not observe.
StopLossActs ==
    <>[](pnl = -StopLoss /\ ~observe /\ task.at # "down") => []<>(trade.count = 0)

\* When the second leg of an entry fails, closing the first leaves nothing unhedged
\* ("orphan 방지"): if coin 1 is closed, nothing is held of coin 2 (whose order was
\* refused, and not lost).
OrphanPrevented ==
    [][task.at = "unwind" /\ ~slipped /\ pos[1] # 0 /\ pos'[1] = 0 => pos'[2] = 0]_pairVars

\* _peak_pnl is the highest PnL since the entry: a trade's first entry finds it reset.
PeakIsOfTrade ==
    [][trade.count = 0 /\ trade'.count > 0 /\ task.at # "down" =>
          ~trade'.trailing /\ trade'.peak = 0]_pairVars

\* Observe mode closes and opens nothing: what is flat stays so until the trade is over.
ObserveOpensNothing ==
    [][observe /\ task.at \in {"idle", "quote", "settle"} /\ trade.count > 0 =>
          \A c \in Coins : pos[c] = 0 => pos'[c] = 0]_pairVars

\* The position is asked for so that a refused order is not taken for a fill ("false-fill"):
\* a leg that a look finds filled has been bought.
FilledIsHeld ==
    [][task.at = "wait" /\ 1 \in task'.done \ task.done => pos[1] # trade.count * Side(1)]_pairVars

-----------------------------------------------------------------------------
(* The inductive invariant of Hedged *)

\* What coin c owes to the entries of trade t.
Entries(t, c) == t.count * (IF c = 1 THEN t.dir ELSE -t.dir)
Even(c) == pos[c] = Entries(trade, c)
Ahead(c) == pos[c] = Entries(trade, c) + Side(c)

\* The venue holds the entries and the legs that the entry under way has done.
Standing == \A c \in Coins : IF c \in task.done THEN Ahead(c) ELSE Even(c)

\* What rests of coin c closes no more than there is, and what there is lies on the
\* trade's side.
Covered(c) ==
    /\ rest[c][1] > 0 => rest[c][1] <= -pos[c]
    /\ rest[c][-1] > 0 => rest[c][-1] <= pos[c]
    /\ Side(c) = 1 => pos[c] >= 0
    /\ Side(c) = -1 => pos[c] <= 0
Offered(c) == pos[c] = rest[c][-1] - rest[c][1]

Ordered(c) == [Empty EXCEPT ![Side(c)] = 1]
Legged == {"market", "place", "wait", "urgent", "hedge", "close", "quote"}
InEntry == {"market", "unwind", "place", "wait", "urgent", "hedge"}

\* Where the loop may be, and with what trade.
LoopInv ==
    /\ plan = "market" => /\ ~observe /\ ~saved.observe /\ ~AnyResting
                          /\ task.at \in {"idle", "down", "delay", "close", "market", "unwind"}
    /\ plan # "market" => task.at # "down"
    /\ task.at \in Legged => task.leg \in Coins
    /\ task.at = "wait" => task.tries < MaxRetries
    /\ task.at \notin {"place", "wait", "urgent", "hedge"} => task.done = {}
    /\ task.at \in {"place", "wait", "urgent"} => task.done \subseteq (IF task.leg = 1 THEN {} ELSE {1})
    /\ task.at = "hedge" => task.done = Coins \ {task.leg}
    /\ trade.count > 0 => trade.dir # 0
    /\ saved = NoState \/ (saved.trade.count > 0 /\ saved.trade.dir # 0)
    /\ task.at \in InEntry =>
          trade.dir # 0 /\ trade.count < LimitCount /\ (MaxUnits > 0 => trade.count < MaxUnits)
    /\ task.at \in {"delay", "down"} => trade.count = 0
    /\ task.at \in {"quote", "settle"} => trade.count > 0

\* Between cycles and in a market entry: with nothing resting the pair is what the entries
\* say; an exit that still rests can only bring it down to nothing.
CycleInv ==
    /\ task.at \in {"idle", "delay", "market"} =>
          /\ \A c \in Coins : Covered(c)
          /\ trade.count = 0 => ~AnyResting
    /\ task.at \in {"idle", "delay"} /\ ~AnyResting => Standing
    /\ task.at = "market" /\ ~AnyResting => (IF task.leg = 1 THEN Even(1) ELSE Ahead(1)) /\ Even(2)
    /\ task.at = "unwind" /\ trade.count = 0 => ~AnyResting /\ pos[2] = 0
    /\ task.at = "close" /\ task.leg = 2 => ~AnyResting /\ pos[1] = 0
    /\ task.at = "down" /\ saved # NoState /\ (\E c \in Coins : pos[c] # 0) =>
          \A c \in Coins : pos[c] = Entries(saved.trade, c)

\* A limit entry: nothing rests but the order of its own leg, unless an exit that rests
\* will make the second leg slip.
LimitInv ==
    LET c == task.leg
        clear == ~Resting(3 - c)
        stale == c = 1 /\ Resting(2)
    IN  /\ task.at = "place" /\ task.tries = 0 =>
              (c = 2 => clear) /\ (~AnyResting => Standing)
        /\ task.at = "place" /\ task.tries > 0 =>
              stale \/ (clear /\ Standing /\ rest[c] \in {Empty, Ordered(c)})
        /\ task.at = "wait" =>
              stale \/ /\ clear
                       /\ IF 3 - c \in task.done THEN Ahead(3 - c) ELSE Even(3 - c)
                       /\ \/ rest[c] = Ordered(c) /\ Even(c)
                          \/ rest[c] = Empty /\ Ahead(c)
                          \/ rest[c] = Empty /\ Even(c) /\ pos[c] = 0
        /\ task.at = "urgent" => rest[c] = Empty /\ (stale \/ (clear /\ Standing))
        /\ task.at = "hedge" => ~AnyResting /\ Standing

\* Observe mode's exit: a coin that was quoted is offered as a whole.
ObserveInv ==
    task.at \in {"quote", "settle"} =>
        /\ \A c \in Coins : Covered(c)
        /\ task.at = "quote" /\ task.leg = 2 => Offered(1)
        /\ task.at = "settle" => \A c \in Coins : Offered(c)

PairInv == PairTypeOK /\ LoopInv /\ (~slipped => CycleInv /\ LimitInv /\ ObserveInv)
=============================================================================
