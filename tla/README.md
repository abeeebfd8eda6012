# Verification of cowork-trading-stack

TLA+ models of the parts of this repository that hold money or decide when to
move it, checked with TLC on small instances and, where it matters most, proved
with TLAPS for every value of the constants. Every definition is translated from
the code under `src/`; `PROJECT.json` maps each one to its lines, and lists the
hazards of the code with the properties that would catch them.

Contents: 1 inventory, 2 plan, 3 the hedge service, 4 hedges of two futures,
5 the subprocess bridge, 6 the automatic loops, 7 the listing detector, 8 the
listing strategies, 9 the hedge service's clients, 10 withdrawals and transfers,
11 the pair trader, 12 what the code does otherwise than it says, 13 what is
proved, 14 what is only model-checked, 15 what is not modelled, 16 how to run it.

## 1. Inventory

The repository is a monorepo of loosely coupled parts.

| Part | State it keeps | Operations | Hard behaviours |
|---|---|---|---|
| **HedgeTradeService** with **HedgeJobStore** (`40-realtime-infra/spot-spot-arb/backend/services`) | one `asyncio.Lock`, the list of hedge jobs in memory and in `hedge_jobs.json` | `enter`, `close_job`, `refresh_latest_job` (and the two-futures variants `enter_ff`, `close_ff`) | calls of several coroutines, partial fills, rollbacks that fail, fills reported late, crashes between an order and its record, files cut short, several worker processes |
| **AutoTrigger** with **SafetyGate**, **AutoExit** | a daily account, cooldowns, switches; a list of hedges to check | a loop that enters, a loop that closes or warns | check-then-act across awaits, midnight inside an entry, two loops and the API behind one lock, counters lost on restart |
| **Subprocess bridge** (`10-foundation-modules/subprocess-bridge`) | a child process, a reader task, `_pending` futures, a counter of timeouts, a restart flag and lock | `start`, every method of the exchange interface, `close`; restart on its own | answers that come late, a restart racing calls, exits and a close, output that is no answer |
| **Circuit breaker, health monitor, kill switch, triple lock** (`10-foundation-modules`) | day's result, flags, files | may I trade; record a result; trip; reset | the day boundary, two writers of one figure |
| **State persister, trigger watcher, auto scaler, notifier, audit log, env loader** | small files and counters | one or two methods each | crashes between two writes, a file handled twice |
| **Pair trader** and the other strategies (`30-strategy-patterns`) | positions in memory and a state its host keeps | cycles of enter, add, close, at the market or with post-only orders | one leg of two failing, an order filled between two looks, restart in the middle of a trade |
| **WithdrawService** | previews in memory, `withdraw_jobs.json`, an execution lock | `preview`, `execute` | retries of what was already done, an answer that is lost, a restart before it |
| **AutoTransfer** | `auto_transfer_jobs.json`, a day's account, cooldowns, switches | a loop that starts and watches jobs, `trigger_manual`, `abort_job` | a job aborted while it is driven, a switch borrowed over an await, withdrawals that never arrive |
| **Listing detector** | seen ids in memory and in a file | a poll per exchange, an event per listing to each listener | restarts between the save and the listeners, a truncated file, eviction |
| **Listing executor, cross-listing long, Bithumb follower** | open jobs, tickers in flight, a day's account: in memory only | an order upon an event; tasks that observe, enter, monitor and sell; entries, exits and aborts by hand | check-then-act across orders, tasks that pass a job to one another, slots freed by the wrong task |
| **Pre-position hedge, hack and halt detector** | jobs in a log; seen ids in a file, open entries in memory | enter and close hedges through `HedgeTradeService` on gaps, times and news | one lock over the service's answers, overlapping news, an exit meeting the monitor |
| **Other listing and arbitrage strategies** (wallets, margin, oracles, commodities) | per-strategy state | the same frame around other signals | prices |
| **Exchange wrappers** (`20-exchange-wrappers`) | sockets, signatures | one adapter per exchange | reconnection |
| **Scanners, recorders, trackers, Rust services, frontend, commander** | caches and tables | read and display | throughput |

How they interact: the FastAPI process (`backend/main.py`) builds one
`HedgeTradeService`; the API, the auto trigger, the auto exit and the listing
strategies call it from their own coroutines and await its answers. The service
places orders through the exchange manager and reads trade histories back; it
shares `withdraw_jobs.json` with the withdraw service. Strategies in
`30-strategy-patterns` are processes of their own that reach an exchange through
a wrapper, some of them behind the subprocess bridge, and use the foundation
modules as libraries.

What makes each correct:

- **HedgeTradeService**: one open hedge per ticker, on one exchange; every fill
  recorded; an answer that matches the store and the venues; nothing lost by a
  crash; every call answered.
- **AutoTrigger, AutoExit**: a day's entries within the cap, none in the
  cooldown; neither loop stuck; a message that is true.
- **Subprocess bridge**: one bridge at a time; an answer goes to the call that
  asked; a call ends; a hung bridge is replaced by one that works.
- **Circuit breaker, kill switch**: once tripped, no trade until reset; the
  day's losses counted to the day.
- **State persister, trigger watcher, scaler**: a crash at any point neither
  loses nor repeats a step.
- **Pair trader**: two legs or none; a restart resumes the position there is; a
  loss at its limit is cut.
- **WithdrawService, AutoTransfer**: a preview's coins leave once; one transfer
  per ticker; a job waits for a deposit of its own, and not for ever.
- **Listing detector**: each listing reaches the listeners once, and none is
  passed by.
- **Listing strategies, pre-position, hack and halt**: one position per ticker
  and notice, within the limits of the day, with somebody to close it.

## 2. Plan

Done, in this order: `HedgeTrade` with the abstract `HedgeBook`;
`SubprocessBridge`; `AutoHedge`, the two loops, the gate and the API over
`HedgeBook`; `ListingDetector`, which implements the abstract `ListingFeed`;
`ListingDesk`, which composes `ListingExecutor`, `CrossLong` and
`BithumbFollower` over that feed (`ListingWorld`); `PairTrader`; `AutoTransfer`
over `Withdraw`; `HedgeFF` beside `HedgeBook`; `HedgeClients`, which composes
`PrePosition` and `HackHalt` with the hedge service's promise (`HedgeOffice`).

Next:

1. `Guards`: circuit breaker, health monitor, kill switch, state persister and
   trigger watcher as a strategy process that may crash uses them. No trade after
   a trip, a loss counted to its day, a trigger file handled once.
2. The other strategies of the same frame (`margin_sell_arb`,
   `oracle_divergence_short`, `commodity_basis_arb`), as further modules of
   `ListingDesk` and `HedgeClients`.
3. The websocket client's reconnection; the notifier's window; the auto scaler.

Every safety property that a run checks is a theorem (section 13). To add:
`OpenHasTask` with two jobs of a ticker, for the part of it that holds then.
Section 14 says what is out of the prover's reach.

Files: `X.tla` is a component, `MCX.tla` its instances for TLC, `X_<run>.cfg` a
run, `X_proofs.tla` its theorems (`Traders_proofs.tla` those of `AutoHedge` and
`PairTrader`). Operators whose comment begins with "Mutant
of" are versions of a definition with a bug in it: each property of a passing
run is violated by one of them (`PROJECT.json`, "mutants"). Configurations that
`PROJECT.json` does not name are run by hand (section 12).

## 3. The hedge service: `HedgeTrade`, `HedgeBook`

A hedge of a ticker is a spot position on Bithumb and a short of the same size
on a futures exchange. All of the service's entry points run under
`async with self._lock` and await the venues inside it.

**State.** `lock`, `waiters`: the `asyncio.Lock` of a process, served first come
first served. `jobs`: `HedgeJobStore._items`; `file`: what `hedge_jobs.json`
would load as. `pc`, `req`, `att`, `res`: a coroutine's place between two awaits,
its request, the locals of its attempt, its answer. `mkt`: what the venues hold
and what their histories say. `up`: whether a process runs.

**Actions.** One per stretch of code between two awaits.

| Code | Actions |
|---|---|
| `enter` up to the first await | `EnterRefused`, `EnterStart` |
| prices and amount, `create_job`, both orders sent | `EnterUnavailable`, `EnterSubmit` |
| `_submit_market_order`, one answer at a time | `FillSpotBuy`, `FillFuturesSell`, `FillSpotSell`, `FillFuturesBuy`, `FillFuturesClose` |
| rollback or adjustment of `_execute_entry_attempt` | `EnterFollowUp` |
| `_finalize_new_entry_job`, `_finalize_scale_in_job` | `FinalizeNew`, `FinalizeScaleIn` |
| `close_job` | `CloseStart`, `CloseNoted`, then the refresh |
| `refresh_latest_job`, `_refresh_job_locked` | `NoOpenJob`, `RefreshStart`, `RefreshDone` |
| `_normalize_hedge_entry_status`, `_save`, `_load` | `Normalize`, `Save`, `Load` inside the actions that call them |
| the operator, at the venues by hand | `Withdraw`, `SellSpot`, `BuyBack` |
| the process | `Crash`, `Restart` |

**Abstractions.** Quantities are lots, a lot being the least amount outside the
code's residual tolerances, so that "within tolerance" is equality. Prices, and
the profit computed from them, are left out. `created_at` is the state of the
histories at that moment; the code's clock has seconds, so a trade in the very
second of creation is one the model has before or after it. A Bithumb buy is for
an amount of KRW and may fill `Slip` lots above its size; a sell fills at most
what is there. `LateFills` lets an order fill by more than its polls report.

**Abstract specification.** `HedgeBook`: per ticker the exchange it is hedged on;
it is opened, closed, and never moved. `BookSpec` is `HedgeBook` with
`active <- HedgedOn(Process)`, the newest open job of the store, or of the file
while the process is down.

| Run | Instance | Shows |
|---|---|---|
| `hedge_enter` | two coroutines of one process, two exchanges, entries of one ticker against a close and a refresh | one open hedge per ticker (`OneOpenJob`); none moved to another exchange while open (`HedgeStaysPut`); "rolled back" leaves nothing (`RolledBackIsFlat`); an ok is a hedge in the store (`OkMeansTracked`); every waiting call is answered (`CallsReturn`) |
| `hedge_close` | one coroutine, every call in any order, an operator who withdraws, sells, buys back | recorded legs equal the venues' holdings (`LegsMatchVenues`); dead jobs are not written (`DeadJobsStay`) |
| `hedge_crash` | two entrants and a refresh, crashes between any two awaits, an operator | the invariant of the proofs (`Inv`), the file is what the process knows (`StoreOnDisk`), `BookSpec` |
| `hedge_close_seen` | | section 12 |

`BookSpec` is proved for saves that may be cut short too (`TornSaves`), where the
book may be lost, but only as a whole (`MayForget`). That is what the code does:
`_save` rewrites the file in place and `_load` takes what does not parse for no
jobs.

**Bounds.** One ticker: tickers share nothing but the lock and the list of jobs,
and the proofs are for any number. Two exchanges, because the rule is about a
second one. Orders of up to two lots give every relation of the two fills: none,
part, all, equal, more, less, and an adjustment of less than `MinFutures`.
Volumes of two or three lots allow a scale-in and a second hedge after the
first. Two coroutines make every overlap the lock has to exclude; a third would
only wait. The instances stop when their volume is used up, so these runs do
not check deadlock; `CallsReturn` says that no call is left.

**Fairness** (`FairSpec`): weak, for each coroutine's steps and for reading its
answer. The event loop runs every ready task, each venue call has a timeout in
its client, and the code's polls are bounded, so each await ends. Nothing is
assumed of callers, operator or crashes, and `CallsReturn` is checked without
crashes: a call to a process that died is not answered.

## 4. Hedges of two futures: `HedgeFF`

`enter_ff` buys a ticker's future where it is cheap and sells it where it is
dear, both legs at once; what filled too much is undone with reduce-only orders.
The same lock and store serve both kinds of hedge, and `enter_ff` looks for both
kinds of open job.

**State.** `jobs`: the store's jobs of kind `ff_arb`; `line`: the lock, its
holder first; `call`: where each coroutine is; `pos`: the account's position per
venue, which all hedges share; `own`: a history of what each job did there;
`hedge`: the exchange of the spot hedge, by `HedgeBook`'s promise.

**Actions.** `EnterBegins` is `enter_ff` up to its price, `Unpriced` a price that
fails, `Sends` both orders, `Undoes` the undoing, `EntryEnds` the verdict and the
record; `CloseBegins` and `CloseEnds` are `close_ff` with the refresh that ends
it; `HedgeOpens`, `HedgeCloses` and `Crash` are the surroundings.

**Abstractions.** A venue's step makes what it fills coarse. `Quiet` names the
orders whose reply may tell less than was done; with market orders among them
`RecordCovers` does not hold, since the code's fallback poll is for reduce-only
orders. Filled legs whose reply has no price count as unfilled in the code; that
is a part of what a quiet reply is. Liveness of the lock is `CallsReturn` in
section 3.

| Run | Instance | Shows |
|---|---|---|
| `ff_calls` | two callers, a coarse venue and a fine one, two jobs, a crash, spot hedges between the calls | a job that ended leaves nothing at the venues, and one that is open at most what it records (`RecordCovers`); two legs are opened only for a ticker with no hedge of either kind (`OpensApart`); the pairs implement `HedgeBook` (`BookSpec`) |

**Bounds.** Two lots on a venue whose step is two and one whose step is one give
legs that fill unequally and residues that cannot be undone. Two jobs let a
second pair meet the first. Callers are alike (`SYMMETRY`; the run has no
liveness property). When the jobs are used up nothing goes on, so deadlock is
not checked.

## 5. The subprocess bridge: `SubprocessBridge`

`SubprocessExchangeWrapper` writes requests, one JSON line each, to a child
process; a reader task completes the futures of `_pending` by id; a call waits
with a timeout, and the third timeout in a row spawns `_auto_restart`.

**State.** `proc`, `alive`, `known`: the number of the process in
`self._process`, the processes that run, and whether the returncode is set: a
process that exited is not known to have until the event loop reaps it. `reader`,
`lastId`, `pending`, `fut`, `timeouts`: the wrapper's fields. `restart`, `queued`:
the restart that has `_restart_lock`, and the tasks that wait for it. `pc`,
`call`: a coroutine and its call. `ready`, `sent`: the bridge's side.
`unanswered` is a history variable.

**Actions.** `Request`, `BrokenPipe`, `Resume`, `Timeout`, `GiveUp` are `_call`;
`Reply`, `Noise`, `Eof` the reader task; `Exit`, `Reap` the process; `Start`,
`StartClean`, `StartSpawn`, `StartFails` are `start` with
`_kill_zombie_bridges`; `RestartBegin` to `RestartFails` are `_auto_restart`;
`ClosePing` to `CloseNoProcess` are `close`. A timeout is two steps, because
`wait_for` cancels the future in one turn of the event loop and the coroutine
goes on in a later one. `Due`, `Awake` and `Quiet` say what that loop has ready
and runs before its next poll; without them the model would let a coroutine
whose future is done sleep through a whole restart.

**Abstractions.** A request is one method; its result or error is one of two
values. A killed process is reaped within the five seconds the code waits for
it. Writes never block, and the standard error stream is left out. `wait_for`
may or may not take a result that came together with its timeout, as its
versions do: `Timeout` is enabled in both cases. A start that failed is not
tried again.

| Run | Instance | Shows |
|---|---|---|
| `bridge_calls` | two coroutines, four requests, a bridge that answers late or never, prints, exits, ignores its termination | one bridge at a time (`OneBridge`); an answer for the one who asked (`OwnId`); the invariant of the proofs (`BridgeInv`); every call and every close ends (`CallsEnd`) |

That no request is left in `_pending` without a caller (`PendingIsAwaited`), that
none is out of reach of an answer (`OpenIsPending`) and that nothing is written
during a restart (`QuietRestart`) are theorems.

**Bounds.** Three timeouts in a row need four requests with the `init`. Two
bridges are one restart. When the requests are used up nothing goes on, so
deadlock is not checked; the theorems are for any number of both.

**Fairness.** Weak: timers fire, the event loop runs ready tasks and sees a
process end, and `pkill` and the spawn end. The bridge owes nothing: it may never
answer, never exit and ignore `terminate`.

## 6. The automatic loops: `AutoHedge`

`AutoTriggerService`, `AutoExitService` and the API call one `HedgeTradeService`.
The service is its abstract specification: `HedgeBook` says what a call may do to
the book, and what a call comes to is a choice (`Refuse`, `EnterFilled`,
`EnterFailed`, `ClosedSeen`, `StillOpen`, `CallRaises`). `queue` is the lock: the
first call has it once `trading`, the others wait in order.

**State.** `allowed` is `cfg.enabled` and no kill-switch file; `dryRun`; `spent`,
`resetDay`, `lastEntry` are the gate's state; `trig`, `todo`, `wide` where the
trigger's loop is in its watchlist or its wide scan; `exit`, `left`, `judged` the
auto exit's list and the hedge it is about. `entered` is a history variable:
what was entered on each calendar day. Hedges are numbered per ticker, so that
the one that was judged can be told from a later one.

**Actions.** `Triggers` is the body of both scans up to `_execute`: a gap below
the threshold, `can_enter` with its rollover, no open job; `TriggerReports` and
`TriggerEnters` are the dry and the live branch; `TriggerReturns` and
`ExitReturns` are the code behind the await, done in the same turn as the
service's return. `ExitChecks` and `ExitPasses` are `_check_job`. `Status` is any
other read of the gate, which rolls its account over.

**Abstractions.** Gaps and ages are choices. A tick takes its tickers in any
order and skips any. Time advances by units that no property tells apart, and
midnight may fall at any of them: the gate compares the day with its own and the
time with the last entry, and never the two with each other. A dry run and a
failed message leave no state. A loop that has a result in hand may be overtaken
before it looks at the next ticker, which the code, having no await there, does
not allow: there are more behaviours here, not fewer. A restart in the middle of
an entry leaves the book as it was or as the entry left it.

| Run | Instance | Shows |
|---|---|---|
| `auto_gate` | one ticker, watched and scanned, two exchanges, one user who calls without end, midnight, restarts | a day's entries never exceed the cap (`CapHolds`), an entry is recorded with the cooldown behind it (`CooldownHolds`), the invariant of the proofs (`AutoInv`), both loops come round (`LoopsTurn`) |

**Bounds.** A cap of three and entries of two: one fits into a day and not two,
which is the case the rollover decides. One unit of time and a cooldown of one
allow an entry in and after the cooldown. One midnight, two hedges. Deadlock is
checked: the loops never stop.

**Fairness.** Weak, for the trigger, for the exit and for the service: the lock
is first come first served, every venue call ends, and errors are caught and
logged in both loops. Nothing makes a user call or a loop wake.

## 7. The listing detector: `ListingDetector`, `ListingFeed`

One loop per exchange reads its page of notices, remembers the id of each, and
emits an event for one that names a listing: the history file, the file of seen
ids, the operator's message (awaited), then the listeners.

**State.** `published`: the pages; `seen`, `disk`: `_seen_ids` and what
`_load_seen` would read; `items`, `emitting`: what each loop has in hand;
`announced`: the events the listeners have had; `torn`, `lost` are histories of
a truncated file and of notices that died with the process.

**Actions.** `Fetch`, `Pass` and `Emit` are a poll, a notice that is not news and
one that is, with the save; `Dispatch` the listeners after the message; `Crash`
and `Restart` the process. The first start, without a file, is a restart with
`disk` empty: it announces the notices already on the page, with the time of
their detection, so that the executor's gate on age never stops them.

**Abstract specification.** `ListingFeed`: a listing is announced once, or again
only after the file was truncated. `Promise` is `ListingFeed` with `announced` and
`torn` as they are. `ListingWorld` and `HackHalt` build on it.

| Run | Instance | Shows |
|---|---|---|
| `listing_feed` | two exchanges, three listings, notices of another kind, two restarts, a torn file | the invariant of the proofs (`DetectorInv`), the promise, and that a process that stays up announces each listing unless it was in hand when the process died (`AllAnnounced`) |

**Bounds.** A third listing would be alone on its page. Two restarts allow a loss
and a repetition. `SeenCap` is above the notices there are: eviction is
`ListingDetector_evicts.cfg`, and the theorems assume there is none.

**Fairness.** Weak for each loop: it sleeps, polls and catches what it raises,
and messages have a timeout. Nothing is assumed of crashes.

## 8. The listing strategies: `ListingWorld`, `ListingExecutor`, `CrossLong`, `BithumbFollower`, `ListingDesk`

`main.py` registers three strategies with the detector; each event is a task per
listener (`inbox`). The executor shorts a ticker's perpetual; the cross-listing
service buys it upon Bithumb's notice and sells when Upbit trades it; the follower
buys the coin itself on Bithumb and sells it.

**State and actions.** `ListingExecutor`: `ShortBegins` are the gates in one turn
of the event loop, `ShortOpens` and `ShortFails` the order's answer, `CloseBegins`
and `CloseEnds` a close. `CrossLong`: a job's `pc` is where its task is (scoring,
observing, entering, monitoring, selling); `NoticeSells`, `UserSells`,
`EnterManual`, `ExitManual` are the handlers that run between its awaits,
`TaskDone` the callback that frees its slot. `BithumbFollower`: `Follows` the
event, `Buys` to `Bought` the task that watches, `Closes` and `Sold` the one that
sells, `Aborts` the operator. Dry runs take the same paths where the code does.

**Abstractions.** Scores, prices and deviations are choices. An order fills a part
of what it asks for, or fails. The calendar is shared; a cooldown is a set whose
members leave it when they like. Nothing of these services outlives the process,
in the code as in the model: restarts would only empty the state, with the
positions left at the venue, and are left out.

| Run | Instance | Shows |
|---|---|---|
| `listing_desk` | each strategy in turn, two tickers, both exchanges announce the first, live or dry, a midnight | one short or order in flight per ticker (`OneShort`); the day's shorts pass the cap by orders in flight at most (`ShortSpentBounded`); a ticker is bought once on Bithumb (`BoughtOnce`); fewer than `max_open` longs (`EnteredBounded`); what is open or in flight has a task that closes or frees it (`OpenHasTask`) |

`ListingDesk_live.cfg`, by hand, checks under fairness that an aborted purchase is
sold (`AbortSells`) and that a long whose ticker Upbit trades is closed
(`ListedCloses`).

**Bounds.** The strategies share no state but the venue's account, so the run has
each alone; a short of the executor and a long of the cross-listing service on
one account net out, which neither service looks at. Two tickers are what the
day's cap and `max_open` compare. `MaxOpen` is two because a job counts itself
among the open ones when it asks: with one, nothing is ever entered.

**Known to be so.** `enter_manual`'s override is never the size of the order; an
order that failed at the client and filled at the venue is not tracked.

## 9. The hedge service's clients: `HedgeOffice`, `PrePosition`, `HackHalt`, `HedgeClients`

`HedgeOffice` is the hedge service as its callers find it: `enter`, `close_job`
and `close_ff` come to one of their outcomes, and others open and close hedges
between. `PrePosition` enters a hedge before a gap opens, with a job that a loop
closes on a target, a stop or its time; `HackHalt` enters upon news of a halt, a
hack or an exploit.

**State and actions.** `PrePosition`: `line` is its lock, held over the service's
answer and the operator's message; `EnterBegins`, `EnterEnds` are
`enter_preposition`, `CloseBegins`, `CloseEnds`, `Told` `_close_locked`, reached by
`UserExits`, `LoopChecks`, `Overdue`; `log` is the last record of each job in the
file, from which `Reloaded` takes the open ones. `HackHalt`: `Detects` and
`Emits` are the loops with the seen ids and their file; `Moves`, `Passes`,
`HackBegins`, `HackEnds` the gates and the entry; `Sweeps`, `Aborts`, `Aborted`
the exit loop.

**Abstractions.** Gaps are choices. `spentToday`, `sent` and `hits` are histories.
One strategy runs at a time in `HedgeClients`; the other is one of the service's
other callers (`OthersHedge`, `OthersPair`).

| Run | Instance | Shows |
|---|---|---|
| `hedge_clients` | two callers and a loop; three notices of two sources; a midnight, a restart, a truncated file | open jobs within `max_open`, one per ticker, a day's entries within the cap (`PreWithin`); one close asked for per job (`ClosedOnce`); one hedge per ticker and cooldown (`HackedOnce`); one task per notice while the file is whole, a refinement of `ListingFeed` (`NoticedOnce`); a job whose time is over ends (`HoldsEnd`) |

**Bounds.** Two jobs and two callers beside the loop are every meeting at the
lock. Two sources with news of one ticker overlap; the third notice is of another
kind. This is the longest run, two and a half minutes.

**Fairness** (`PreFairSpec`): the monitor's loop goes on, the lock is first come,
first served, and every call of the service ends (section 3). `enabled` is not
modelled as going off: the monitor stops with it.

**Known to be so.** `PrePosition`: a manual exit leaves the status "closing"; a
failed close leaves "closed_err", which nobody tries again, and an ok of
`close_job` makes "closed_win" though the hedge may be open; a crash between the
hedge and the record orphans the hedge; with `live_armed` off after a restart a
job ends and its hedge stays; "closing" is not logged, so a crash during a close
reopens the job; the day's account is lost at a restart. `HackHalt`: cooldowns,
counts and open entries are lost at a restart; the comment on line 1132 speaks of
exploits and the code takes maintenance for one too; hedges (not shorts) are never
closed by it; with `manual_confirm` two dry entries of one cooldown can be
recorded, because the message is awaited before the ticker is marked; the count
is not rolled over when it is written after midnight; a notice that another
source's save has put on disk is lost with the process before its own message.

## 10. Withdrawals and transfers: `Withdraw`, `AutoTransfer`

`WithdrawService` previews a withdrawal, which makes a token, and executes it under
a lock with a job in a file. `AutoTransfer` buys on Bithumb and has the coins sent;
its loop starts jobs and watches those that wait for their deposit.

**State and actions.** `Withdraw`: `requests` is the job store, `exec` and `holder`
the callers of `execute` and its lock, `sent` what the exchange accepted; a crash
(`WithdrawLost`) keeps the requests and drops the previews.
`AutoTransfer`: `drive[p]` is where `_drive_live_job` is for the loop or a user of
`trigger_manual`; `Buys`, `Withdraws`, `Withdrawn` are its steps, `Sweeps` and
`Judges` the monitor over the copies it has listed, `Aborts`, `SetsDry`,
`SetsEnabled` the operator.

**Abstractions.** Amounts are left out; an opportunity is there or not. Time is in
the choices: a preview expires, a deposit is late, a cooldown is over. Both files
are taken to be saved whole: one cut short loses its jobs, and the previews with
which a withdrawal could be repeated die with the process in any case.

| Run | Instance | Shows |
|---|---|---|
| `transfer_jobs` | the loop with a user, or two clerks of the withdrawal API; two jobs, tokens and requests; a restart | until an execution of a preview has failed its coins leave once (`SentOnce`); a ticker has one transfer under way (`OneTransfer`); a job that waits for a deposit has a withdrawal of its own that was accepted (`WithdrawingWasSent`), and does not wait for ever (`WaitsEnd`) |

**Bounds.** Two tokens and two requests are a retry; `Casts` keeps apart the two
pairs of tasks that can meet. **Fairness**: the loop, its tasks and the exchange's
answers go on (weak), and a deposit that is looked at again and again is in the end
found late (strong, since each look may also be too early): that is time passing.
The operator owes nothing; `WaitsEnd` is for a service that stays
enabled, since a disabled one does not sweep.

**Known to be so.** An abort while a job is driven is overwritten by the next step,
and the monitor's copy overwrites an abort with STUCK; a crash leaves PENDING and
BITHUMB_BOUGHT jobs active for ever; overlapping triggers leave `dry_run` as one of
them found it; a lost reply is a failure, and a retry then withdraws twice; a
request that died before its answer is answered ok; the day's account is lost at a
restart; DEPOSITED and BINANCE_SOLD are never reached.

## 11. The pair trader: `PairTrader`

One loop trades two perpetuals of one venue, long one and short the other, entry
by entry, at the market or with post-only orders, and closes on a target, a
trailing stop, an early exit or its stop loss.

**State.** `pos`, `rest`: the venue's positions and resting orders; `trade`: the
entries, direction, peak and trailing flag; `pnl` a level; `losses`, `breaker`,
`cooling`; `task`: where the loop is in a cycle, an entry's leg and its attempts;
`saved`: what the host kept of `get_state`.

**Actions.** `Decides` to `Brake` are the cycle in the order of its checks;
`Markets`, `Unwinds` the market entry; `Places`, `Refused`, `Keeps`, `Looks`,
`Tires`, `Hurries`, `Hedges` the limit entry; `Closes`, `Quotes`, `Settles` the
closes; `Saves`, `Crashes`, `ShutsDown`, `Restarts` the process; `Moves`, `Fills`
and `Toggles` the market and the operator.

**Abstractions.** An entry is one unit of each coin; PnL moves by levels between
the thresholds. `slipped` marks the failures after which the code does not know
its position, each where it happens: a reply that is lost, a close that fails
and resets the state although the legs stay, an order that fills between the last
look and its cancellation, one that is taken for filled because an earlier entry's
position is there. What `Hedged` says is that nothing else breaks the pair. With
nothing resting and no slip it is proved for any number of entries and attempts.

| Run | Instance | Shows |
|---|---|---|
| `pair_cycle` | market orders with a lost process, market orders under observe mode, or limit orders; one call that raises; two entries | between cycles the venue holds the pair the trader believes in (`Hedged`); a trade that stays at its stop loss is closed (`StopLossActs`) |

**Bounds.** Two entries are an addition; one fault and one restart meet every
step. Three attempts of an order are the least in which a refused order is kept:
the first is placed, the second cancels it and is refused, the third finds the
price unchanged and keeps what is not there (`Keeps`); one loss trips the breaker.
**Fairness**: the loop goes on and its calls return.

**Known to be so.** The breaker, cooldowns and losses are not persisted; a state
saved before a trade ended is restored over what is there; a limit close resets
neither the peak nor the trailing flag; a trailing close at a loss resets the
count of losses; observe mode's repeated quotes can turn the position over.

## 12. What the code does otherwise than it says

Each property below is violated by what the code does. `CloseIsSeen` is the run
`hedge_close_seen` of `PROJECT.json`, with the quotation. The others are run by
hand; where a configuration lists several properties TLC stops at the first, so
keep the one that is wanted.

| Configuration | Property | What happens |
|---|---|---|
| `HedgeTrade_close_seen.cfg` | `CloseIsSeen` | `close_job` sells on Bithumb, its refresh looks on the exit exchange: a hedge closed on both sides stays open and can be closed again |
| `HedgeTrade_otherwise.cfg` | `ClosedMeansFlat` | the futures buy that adjusts an entry counts as a buy that closes it: a job is recorded closed with part of its short open |
| | `FailedMeansUnfilled` | an order that fills after the last poll is reported as not filled |
| | `UnchangedMeansUnchanged` | "existing hedge unchanged" after a rollback that failed, which changed its quantities |
| | `CloseReturnsState` | `close_job` answers with the job as it was before |
| `HedgeTrade_workers.cfg` | `HedgeStaysPut` | two uvicorn workers have two locks and two stores |
| `HedgeFF_otherwise.cfg` | `ResidualIsOpen` | `close_ff` replaces the fills of an earlier close, which "what is left open" (`hedge_trade_service.py:2622`) then includes: the job never closes, and `enter_ff` refuses its ticker |
| | `KindsApart` | `enter` does not look for a pair of futures: both kinds are open, and net out on one venue |
| `SubprocessBridge_otherwise.cfg` | `RunningIsReady` | `_auto_restart` calls `start` under the flag that makes its `init` raise: the new bridge is never initialised, though line 250 logs a completed restart |
| | `RestartsOnce` | the check for a restart under way stands behind the lock, where none is: two restarts |
| | `OutputIsRead` | an answer in the turn of its timeout, or a printed line of JSON that is no object, raises in the reader task, which ends |
| | `ClosedIsDead` | a restart that overlaps `close` leaves a bridge running |
| | `RestartIsDeserved` | an error answer does not reset the count of timeouts |
| `SubprocessBridge_own.cfg` | `KillsItsOwn` | a restart kills the bridges of other accounts of the exchange |
| `AutoHedge_otherwise.cfg` | `WarningIsTrue` | a refresh answers a hedge it closed with no job: the branch for "closed" is never taken, and the auto exit warns of an open hedge |
| | `ClosedIsTrue` | `close_job` says ok when it has run: "auto-CLOSED" is sent with a leg open |
| | `SkipsHedged` | the open job is checked outside the lock: the trigger adds to a hedge a user has just opened |
| | `OrdersAreCounted` | an entry that failed after it sent orders counts neither for the cap nor for the cooldown |
| | `ClosesTheJudged` | the auto exit closes the ticker's hedge of now, not the one it judged |
| `ListingDetector_evicts.cfg` | `Promise` | a quarter of the seen ids is dropped as `set.pop` picks: a notice still on its page is announced again |
| `ListingDesk_otherwise.cfg` | `NotionalRestored` | two calls of `enter_manual` that overlap leave the notional at the first one's override ("원복 보장", `cross_listing_long.py:1493`) |
| | `LongCapHolds` | the day's longs pass their cap by entries in flight |
| | `ClosedIsSold` | a job is closed although its sale failed or filled in part |
| `HedgeClients_otherwise.cfg` | `CutsEnd` | an exploit's short is aborted through `close_ff`, which finds no pair of futures: it is never closed, though line 242 has it closed automatically |
| | `ClosesItsOwn` | a job closes the ticker's hedge, whoever opened it ("1:1", `preposition_hedge.py:148`) |
| `AutoTransfer_otherwise.cfg` | `DryMeansDry` | `trigger_manual` lends its `dry_run` to the whole service while it awaits its job, and the loop buys for real ("실주문/실출금 호출 절대 없음", `auto_transfer_service.py:8`) |
| | `ExecuteIsIdempotent` | once an execution failed and a second went through, a third call withdraws again |
| `PairTrader_otherwise.cfg` | `OrphanPrevented` | a second entry whose coin 2 is refused closes all of coin 1: the first entry's coin 2 is unhedged ("orphan 방지 포함", `pair_trader.py:978`) |
| | `PeakIsOfTrade` | a limit close leaves the old trade's peak to the next |
| | `ObserveOpensNothing` | observe mode quotes its closing orders again and again: the position turns over |
| | `FilledIsHeld` | an order the venue drops is taken for filled when the coin has an earlier entry's position ("false-fill 오판 방지", `pair_trader.py:1173`); so is one that was refused and then kept |

One more has no run, because it is a call that is missing: nobody calls
`SafetyGate.record_close`, so the circuit breaker of its docstring never trips,
and `CanEnter` has no halt.

## 13. What is proved

`tlapm` checks every proof; assumptions are the named ones on the constants, and
where a theorem has a hypothesis of its own it is named here. Every theorem is
for any number of tickers, callers, jobs and restarts, and the proofs have one
lemma per action.

**`HedgeTrade_proofs`.** With crashes, late fills and truncated saves:
`TypeCorrect`, `OneOpenJobHolds`, `InvHolds`. "One open job" is not inductive:
what a handler read before its awaits (there is no open job; the open job is
number i, on exchange e) decides what it writes after them. `Inv` carries that as
`Work(h)`, which holds because only the lock's holder (`Holds(h)`) changes its
process's store. The file has the same property, since a restart loads it.
`FillInvHolds` adds the arithmetic of an attempt (`Figures`): its net legs are
what its orders report, whatever is in flight, and a rollback in flight is of what
one leg has over the other. From the two follow `RolledBackIsFlatHolds`,
`DeadJobsStayHolds` and `OkMeansTrackedHolds`, for any number of processes.
With one process (`Workers = {v}`; with two it is not so, section 12)
`HedgeStaysPutAlone`, and `DiskInvHolds`: the file is the store, or is empty after
a save that was cut short. From it, `StoreOnDiskHolds` where saves are whole
(`~TornSaves`), and `BookSpecHolds`, the refinement of `HedgeBook`, with whole
saves and without: each step of the service is one of the book or none, and a
restart from an empty file is its `Forget`.
`LegsMatchVenuesHolds`, by `LegsInvHolds`: what the venues hold is what the legs
of all jobs and of the calls under way add up to, for any callers, exchanges and
sizes. The proof keeps an account for the spot of each ticker and one for its short
on each exchange; every step moves lots between the venue, an attempt and a job,
and `LegsOf(h)` says which lots those are (an attempt that is over has none; the
job it created has none until it is written; a rollback is of no more than its leg
has). The lemmas say what one changed element does to a sum. The library's induction
theorems take operators, which the prover cannot instantiate, so they are proved
from the least size of a subset for which they would fail (`WFMin`), a set being
an argument that it can. The hypothesis `Reliable(v)` is one process that is not
lost and hears of every fill, because otherwise it is not so: a late fill is in
nobody's books (`FailedMeansUnfilled`, section 12), a crash takes the legs of
the attempt with it, and a second process writes to a store of its own. `Callers`
and `Exchanges` are finite, which a sum needs.

**`HedgeFF_proofs`.** `FFInvHolds`, `TypeOKHolds`, `OpensApartHolds` and
`BookSpecHolds`. Both properties need that an entry past its check still finds
its ticker free (`Working`), which holds because it has the lock (`LineInv`) and
spot hedges open between the calls only; the refinement needs that a ticker has
one open pair (`OneOpen`), so that the newest is the one. `RecordCoversHolds`
has the hypothesis `"market" \notin Quiet`: the replies of an entry's own orders
tell all that was done. Without it the property fails, as section 4 says. Its
invariant `ToldInv` follows one call: what it has been told of its orders, less
what it was told of undoing them, is not less than what is at the venues, and
what a close was told is subtracted from the entry's quantity again from the
start, so that repeated closes claim too much and never too little.

**`SubprocessBridge_proofs`.** For any wrappers, coroutines, numbers of requests
and restarts: `BridgeInvHolds`, `OneBridgeHolds`, `OwnIdHolds`,
`OpenIsPendingHolds`, `QuietRestartHolds`. `OneBridge` needs `ProcessInv`: a new
process is spawned only when the last is known to have ended or has been killed
by the restart that spawns it. `OwnId` needs `CallerInv`: an awaited id is at most
the last one given out, and ids are never given out twice, not by a restart
either. `PendingIsAwaitedHolds` needs `PendingInv`: a future that is done is not in
`_pending` any more, so that a call that returns leaves nothing, and only the
wrapper's owner pings.

**`Traders_proofs`, the automatic loops.** For any cap, cooldown and nominal:
`AutoInvHolds`, `CapIsKept`, `CooldownIsKept`. The gate is checked before the call and written
after it; `EntryInv` says that what was checked still holds in between, because
the trigger is the only one who records and has one call in the queue at most;
`AccountInv` that the account is that of the day it was last reset on, so that the
rollover in `record_entry` moves an entry over midnight to the day it is made.

**`Traders_proofs`, the pair trader.** For any levels of the PnL, numbers of entries
and attempts, faults and restarts: `PairInvHolds`, `PairTypeHolds` and
`HedgedHolds`. `Hedged` speaks of the moments between two cycles, and there it is
not inductive: `PairInv` has to say at each step what the venue holds
(`Standing`: the entries, and the legs that the entry under way has done) and what
may rest. A leg of a limit entry has its own order, or it has filled, or nothing
rests and nothing is held (`LimitInv`); a close order that observe mode has
left behind is covered by the position and on its far side (`Covered`, `Offered`
in `ObserveInv`), so that its fills can bring the pair down to nothing and no
further; before an entry's second leg such an order may still rest, and then
its fill is a slip; what the host has saved is what the venue holds when the process
is gone without a slip (`CycleInv`). The attempt to prove the step of `Keeps` failed
and showed a behaviour the run's bound of two attempts had hidden: an order that
is refused after the last one was cancelled leaves `last_order_price` set, and the
next attempt "keeps" an order that is not there (`pair_trader.py:1125`). It is now a
slip where a position of an earlier entry passes for its fill, and the run has
three attempts.

**`ListingDetector_proofs`.** As long as the notices are not more than the cap
(`NoEviction`): `DetectorInvHolds` and `PromiseHolds`, the refinement of
`ListingFeed`, step by step. "Announced once" needs that the id was on disk first
(`SavedBeforeSent`), that a running process has seen all that is on disk, and
that a notice is in one loop's hands only, which holds because the pages are
apart and a loop emits one notice at a time.

**`ListingDesk_proofs`.** `DeskInvHolds`, and from it `TypeOKHolds`,
`OneShortHolds`, `ShortSpentBoundedHolds`, `BoughtOnceHolds` and
`EnteredBoundedHolds`, for any caps. The strategies' gates are passed in one turn
of the event loop, so each invariant counts what is in flight with what is there:
`ShortInv` that orders in flight are of different tickers, none with a job;
`FollowInv` that what is bought was fired first, and a watch has its job and its
slot; `EntryInv` that who awaits its entry is among those its successors count.
`OpenHasTaskHolds` has the hypothesis `OneDoor`: a ticker's jobs come from one
notice of Bithumb or from one caller of the manual entry at a time, never from
both. The run's instance is of that kind. Without it the property fails: when two
jobs of a ticker run, the first to end takes it out of `_inflight_tickers`, and
`exit_manual` cancels the task that is in `_active_tasks`, which may be another job's.

**`AutoTransfer_proofs`.** `TransferInvHolds` and `SentOnceHolds`. `SentOnce` needs
the lock (`LockInv`), that the holder's job is the last of the store and unsent
until it is sent (`WorkInv`), and that what was sent has a job that says so
(`SentHasJob`): a later call finds it, and the file keeps it over a restart.
`OneTransferHolds` and `WithdrawingWasSentHolds`, by `DriveAndTokenInvHold`: a
driven ticker is in its cooldown and has no other job that is not over
(`DriveInv`), which keeps an aborted job that its drive brings back from meeting a
second one; a token is of one job and its withdrawal's answer is told to the job
that asked (`TokenInv`).

**`HedgeClients_proofs`.** `ClientsInvHolds`, `TypeOKHolds`; `PreWithinHolds` and
`ClosedOnceHolds`, which need that only the first of the lock's line is past its
wait (`LineInv`), that a restart would reopen what is open and what is being closed,
no more (`LogInv`), and that the limits hold of that set, with room for the
entry in progress (`RoomInv`): the log may bring back a job that was closing, so
the limits have to count it. `HackedOnceHolds` by `FlightInv`: a ticker is marked in the
turn in which its gates are passed, and where the entry succeeds its cooldown is
written before the mark is taken away.
`NoticedOnceHolds`, the refinement of `ListingFeed`, by `FeedInv`.

## 14. What is only model-checked

- Liveness (`CallsReturn`, `CallsEnd`, `LoopsTurn`, `AllAnnounced`, `HoldsEnd`,
  `WaitsEnd`, `StopLossActs`): temporal arguments under fairness are beyond the
  prover.
- Everything of section 12, which is a counterexample.

## 15. What is not modelled

`PROJECT.json` lists every part. Of the modelled ones: profit figures
(`HedgeTrade`); standard error and pipe sizes (`SubprocessBridge`); prices, message
windows and lists of decisions (`AutoHedge`); parsing of titles and scores (the
detectors and strategies); sizes of additions (`PairTrader`). Not modelled at all:
adapters of exchanges and chains (requests and signatures), scanners and displays
(no decision depends on their order), indicators, back-tests and parameter search
(arithmetic on floats), and, for now, what section 2 plans.

The map therefore covers a small share of the repository's lines. Most of them are
those: adapters, scanners, farmers, pages and copies of files,
and within the services the formatting, parsing and arithmetic around each
decision. What is modelled is what has state that several actors reach.

## 16. How to run it

    tlc -workers 2 -config HedgeTrade_enter.cfg MCHedgeTrade
    tlc -workers 2 -config ListingDesk_each.cfg MCListingDesk
    tlc -workers 2 -config AutoTransfer_jobs.cfg AutoTransfer
    tlapm AutoTransfer_proofs.tla

`PROJECT.json` names module and configuration of every run. None takes more than
three minutes with two workers.
