-------------------------- MODULE SubprocessBridge --------------------------
(***************************************************************************)
(* SubprocessExchangeWrapper (10-foundation-modules/subprocess-bridge): a  *)
(* client of a child process, the bridge, that answers JSON requests on    *)
(* its standard output.  Coroutines call the wrapper and await a future    *)
(* each; a reader task completes the futures; a call that is not answered  *)
(* in time gives up, and three in a row have the bridge restarted.  Every  *)
(* stretch of code between two awaits is one action.                       *)
(***************************************************************************)
EXTENDS Integers, FiniteSets

CONSTANTS
    Wrappers,
    Exchange,     \* Exchange[w]: the exchange the bridge of w serves
    Callers,      \* coroutines
    Uses,         \* Uses[h]: the wrapper the coroutine h calls
    Owner,        \* Owner[w]: the coroutine that starts and closes w
    MaxCalls,     \* bound: requests per wrapper
    MaxBridges,   \* bound: processes per wrapper
    Exits,        \* may a bridge exit by itself?
    Prints        \* may an SDK print a line of JSON that is not an object?

ASSUME BridgeAssumption ==
    /\ Uses \in [Callers -> Wrappers]
    /\ Owner \in [Wrappers -> Callers]
    /\ \A w \in Wrappers : Uses[Owner[w]] = w
    /\ {MaxCalls, MaxBridges} \subseteq Nat
    /\ {Exits, Prints} \subseteq BOOLEAN

VARIABLES
    pc,         \* pc[h]: where the coroutine h is
    call,       \* call[h]: what it calls: method, and id of the request
    target,     \* target[w]: the process close awaits the end of
    proc,       \* proc[w]: number of the process in self._process, or 0
    alive,      \* alive[w]: the processes of w that have not exited
    known,      \* known[w]: the returncode of self._process is set
    ready,      \* ready[w]: the process has answered an init
    sent,       \* sent[w]: requests it has got and not answered
    reader,     \* reader[w]: the reader task of the process
    lastId,     \* lastId[w]: _request_id
    pending,    \* pending[w]: the ids in _pending
    fut,        \* fut[w][i]: the future of request i
    timeouts,   \* timeouts[w]: _consecutive_timeouts
    restart,    \* restart[w]: where the _auto_restart that has the lock is
    queued,     \* queued[w]: _auto_restart tasks that wait for the lock
    unanswered  \* history: calls that gave up since a call was answered

procVars == <<proc, alive, known, ready, sent>>
callVars == <<lastId, pending, fut>>
restartVars == <<timeouts, restart, queued, unanswered>>
vars == <<pc, call, target, procVars, reader, callVars, restartVars>>

-----------------------------------------------------------------------------
Ids == 1..MaxCalls
RestartAfter == 3

\* "waiting" for an answer; "timedout": the future is cancelled, the coroutine has
\* not run yet; "pinging" and "terminating" in close.
PCs == {"idle", "cleaning", "spawning", "waiting", "timedout", "pinging",
        "terminating", "closed", "failed"}
NoCall == [method |-> "none", id |-> 0]
\* A wrapper that was not started yet is one whose owner is to call init.
InitCall == [method |-> "init", id |-> 0]

Init ==
    /\ pc = [h \in Callers |-> "idle"]
    /\ call = [h \in Callers |-> IF h = Owner[Uses[h]] THEN InitCall ELSE NoCall]
    /\ target = [w \in Wrappers |-> 0]
    /\ proc = [w \in Wrappers |-> 0]
    /\ alive = [w \in Wrappers |-> {}]
    /\ known = [w \in Wrappers |-> FALSE]
    /\ ready = [w \in Wrappers |-> FALSE]
    /\ sent = [w \in Wrappers |-> {}]
    /\ reader = [w \in Wrappers |-> "none"]
    /\ lastId = [w \in Wrappers |-> 0]
    /\ pending = [w \in Wrappers |-> {}]
    /\ fut = [w \in Wrappers |-> [i \in Ids |-> "none"]]
    /\ timeouts = [w \in Wrappers |-> 0]
    /\ restart = [w \in Wrappers |-> "none"]
    /\ queued = [w \in Wrappers |-> 0]
    /\ unanswered = [w \in Wrappers |-> 0]

IsOwner(h) == h = Owner[Uses[h]]
Started(w) == call[Owner[w]].method # "init"
Restarting(w) == restart[w] # "none"
\* self._process and its returncode is None
HasProcess(w) == proc[w] # 0 /\ ~known[w]

FutureOf(h) == fut[Uses[h]][call[h].id]

\* What the event loop has ready runs before it polls again: a spawned restart that
\* finds the lock free before any other event, and a coroutine whose future is
\* done or that timed out before the events a restart awaits.
Due(w) == queued[w] > 0 /\ ~Restarting(w)
Awake(h) == pc[h] = "timedout" \/ (pc[h] = "waiting" /\ FutureOf(h) # "open")
Quiet(w) == \A h \in Callers : Uses[h] = w => ~Awake(h)

\* The open futures of the pending requests fail.
FailPending(w) ==
    fut' = [fut EXCEPT ![w] = [i \in Ids |->
               IF i \in pending[w] /\ fut[w][i] = "open" THEN "error" ELSE fut[w][i]]]

\* The reader task ends, and fails what is pending.
ReaderEnds(w) ==
    /\ reader' = [reader EXCEPT ![w] = "ended"]
    /\ pending' = [pending EXCEPT ![w] = {}]
    /\ FailPending(w)

-----------------------------------------------------------------------------
(* _call. *)

\* The checks of _call pass.
MayCall(w) == ~Restarting(w) /\ HasProcess(w) /\ lastId[w] < MaxCalls

\* Mutant of NewId: the counter stays where it is.
NewIdSame(w) == IF lastId[w] = 0 THEN 1 ELSE lastId[w]
NewId(w) == lastId[w] + 1

\* A request gets the next id, a future and a place in _pending.
Register(h, w, method) ==
    /\ lastId' = [lastId EXCEPT ![w] = NewId(w)]
    /\ fut' = [fut EXCEPT ![w][NewId(w)] = "open"]
    /\ pending' = [pending EXCEPT ![w] = @ \cup {NewId(w)}]
    /\ call' = [call EXCEPT ![h] = [method |-> method, id |-> NewId(w)]]

\* It is written to the bridge, or to the buffer of a pipe nobody reads.
Write(w) ==
    sent' = [sent EXCEPT ![w] = IF proc[w] \in alive[w] THEN @ \cup {NewId(w)} ELSE @]

\* A coroutine calls the exchange interface.
Request(h) ==
    LET w == Uses[h] IN
    /\ pc[h] = "idle" /\ Started(w) /\ MayCall(w)
    /\ Register(h, w, "request") /\ Write(w)
    /\ pc' = [pc EXCEPT ![h] = "waiting"]
    /\ UNCHANGED <<target, proc, alive, known, ready, reader, restartVars>>

\* A write to a bridge that has just exited may fail: the id is used up.
BrokenPipe(h) ==
    LET w == Uses[h] IN
    /\ pc[h] = "idle" /\ Started(w) /\ MayCall(w) /\ proc[w] \notin alive[w]
    /\ lastId' = [lastId EXCEPT ![w] = NewId(w)]
    /\ UNCHANGED <<pc, call, target, procVars, reader, pending, fut, restartVars>>

\* Where a coroutine is after its call: start raises unless the call succeeded,
\* and a wrapper that was not started stays so.
Returned(h, ok) ==
    LET failed == call[h].method = "init" /\ ~ok IN
    /\ pc' = [pc EXCEPT ![h] = IF failed THEN "failed" ELSE "idle"]
    /\ call' = [call EXCEPT ![h] = IF failed THEN InitCall ELSE NoCall]

\* The future is done: the call returns its result or raises its error.
Resume(h) ==
    LET w == Uses[h] IN
    /\ pc[h] = "waiting" /\ FutureOf(h) \in {"result", "error"}
    /\ Returned(h, FutureOf(h) = "result")
    /\ timeouts' = [timeouts EXCEPT ![w] = IF FutureOf(h) = "result" THEN 0 ELSE @]
    /\ unanswered' = [unanswered EXCEPT ![w] = 0]
    /\ UNCHANGED <<target, procVars, reader, callVars, restart, queued>>

\* wait_for runs out of time: it cancels the future, if that is not done, and
\* the coroutine runs in a later turn of the event loop.
Timeout(h) ==
    LET w == Uses[h] IN
    /\ pc[h] = "waiting" /\ ~Due(w)
    /\ pc' = [pc EXCEPT ![h] = "timedout"]
    /\ fut' = [fut EXCEPT ![w][call[h].id] = IF @ = "open" THEN "cancelled" ELSE @]
    /\ UNCHANGED <<call, target, procVars, reader, lastId, pending, restartVars>>

Forget(h) == pending' = [pending EXCEPT ![Uses[h]] = @ \ {call[h].id}]

\* Mutant of GiveUp: the call waits again.
GiveUpNever(h) ==
    /\ pc[h] = "timedout"
    /\ pc' = [pc EXCEPT ![h] = "waiting"]
    /\ UNCHANGED <<call, target, procVars, reader, callVars, restartVars>>

\* The handler of the timeout: from the third on it spawns a restart.
GiveUp(h) ==
    LET w == Uses[h] IN
    /\ pc[h] = "timedout"
    /\ Forget(h)
    /\ timeouts' = [timeouts EXCEPT ![w] = @ + 1]
    /\ unanswered' = [unanswered EXCEPT ![w] = @ + 1]
    /\ queued' = [queued EXCEPT
           ![w] = IF timeouts[w] + 1 >= RestartAfter /\ ~Restarting(w) THEN @ + 1 ELSE @]
    /\ Returned(h, FALSE)
    /\ UNCHANGED <<target, procVars, reader, lastId, fut, restart>>

-----------------------------------------------------------------------------
(* The bridge and the reader task. *)

\* The bridge answers a request and the reader completes its future; one that
\* was cancelled and not yet taken from _pending makes set_result raise, and
\* the reader ends.
Reply(w, i, kind) ==
    /\ reader[w] = "reading" /\ i \in sent[w] /\ ~Due(w)
    /\ sent' = [sent EXCEPT ![w] = @ \ {i}]
    /\ ready' = [ready EXCEPT ![w] =
           @ \/ (kind = "result" /\ \E h \in Callers :
                    Uses[h] = w /\ call[h] = [method |-> "init", id |-> i])]
    /\ CASE i \notin pending[w] -> UNCHANGED <<reader, pending, fut>>
         [] i \in pending[w] /\ fut[w][i] = "open" ->
               /\ pending' = [pending EXCEPT ![w] = @ \ {i}]
               /\ fut' = [fut EXCEPT ![w][i] = kind]
               /\ UNCHANGED reader
         [] OTHER -> ReaderEnds(w)
    /\ UNCHANGED <<pc, call, target, proc, alive, known, lastId, restartVars>>

\* A line that parses as JSON and is not an object has no get: the reader ends.
Noise(w) ==
    /\ Prints /\ reader[w] = "reading" /\ proc[w] \in alive[w] /\ ~Due(w)
    /\ ReaderEnds(w)
    /\ UNCHANGED <<pc, call, target, procVars, lastId, restartVars>>

\* The bridge exits; the reader sees the end of its output and the event loop
\* its returncode, in either order.
Exit(w) ==
    /\ Exits /\ proc[w] \in alive[w]
    /\ alive' = [alive EXCEPT ![w] = @ \ {proc[w]}]
    /\ UNCHANGED <<pc, call, target, proc, known, ready, sent, reader, callVars, restartVars>>

Eof(w) ==
    /\ reader[w] = "reading" /\ proc[w] \notin alive[w] /\ ~Due(w)
    /\ ReaderEnds(w)
    /\ UNCHANGED <<pc, call, target, procVars, lastId, restartVars>>

Reap(w) ==
    /\ HasProcess(w) /\ proc[w] \notin alive[w] /\ ~Due(w)
    /\ known' = [known EXCEPT ![w] = TRUE]
    /\ UNCHANGED <<pc, call, target, proc, alive, ready, sent, reader, callVars, restartVars>>

-----------------------------------------------------------------------------
(* start, _kill_zombie_bridges and _auto_restart. *)

\* Every bridge of the exchange, whoever started it, or none when pkill fails.
KillZombies(w) ==
    alive' \in {alive, [v \in Wrappers |-> IF Exchange[v] = Exchange[w] THEN {} ELSE alive[v]]}

\* A new process takes the place of the old one, with a reader of its own.
NewProcess(w) ==
    /\ proc[w] < MaxBridges
    /\ proc' = [proc EXCEPT ![w] = @ + 1]
    /\ alive' = [alive EXCEPT ![w] = @ \cup {proc[w] + 1}]
    /\ known' = [known EXCEPT ![w] = FALSE]
    /\ ready' = [ready EXCEPT ![w] = FALSE]
    /\ reader' = [reader EXCEPT ![w] = "reading"]

Start(h) ==
    /\ pc[h] = "idle" /\ IsOwner(h) /\ call[h] = InitCall
    /\ pc' = [pc EXCEPT ![h] = "cleaning"]
    /\ UNCHANGED <<call, target, procVars, reader, callVars, restartVars>>

StartClean(h) ==
    /\ pc[h] = "cleaning"
    /\ KillZombies(Uses[h])
    /\ pc' = [pc EXCEPT ![h] = "spawning"]
    /\ UNCHANGED <<call, target, proc, known, ready, sent, reader, callVars, restartVars>>

\* The process is there, and init is the first request it gets.
StartSpawn(h) ==
    LET w == Uses[h] IN
    /\ pc[h] = "spawning" /\ lastId[w] < MaxCalls
    /\ NewProcess(w)
    /\ Register(h, w, "init")
    /\ sent' = [sent EXCEPT ![w] = {NewId(w)}]
    /\ pc' = [pc EXCEPT ![h] = "waiting"]
    /\ UNCHANGED <<target, restartVars>>

\* The executable cannot be run.
StartFails(h) ==
    /\ pc[h] = "spawning"
    /\ pc' = [pc EXCEPT ![h] = "failed"]
    /\ UNCHANGED <<call, target, procVars, reader, callVars, restartVars>>

Kill(w) == alive' = [alive EXCEPT ![w] = IF known[w] THEN @ ELSE @ \ {proc[w]}]

\* Mutant of RestartBegin: the old bridge is left running.
RestartBeginGently(w) ==
    /\ Due(w)
    /\ queued' = [queued EXCEPT ![w] = @ - 1]
    /\ restart' = [restart EXCEPT ![w] = "cleaning"]
    /\ ReaderEnds(w)
    /\ UNCHANGED <<pc, call, target, procVars, lastId, timeouts, unanswered>>

\* A spawned restart gets the lock, whether or not it is still needed, and
\* kills the bridge.
RestartBegin(w) ==
    /\ Due(w)
    /\ queued' = [queued EXCEPT ![w] = @ - 1]
    /\ restart' = [restart EXCEPT ![w] = "killing"]
    /\ Kill(w)
    /\ UNCHANGED <<pc, call, target, proc, known, ready, sent, reader, callVars, timeouts, unanswered>>

\* Mutant of RestartClear: the ids start again with the new bridge.
RestartClearIds(w) ==
    /\ restart[w] = "killing" /\ known[w] /\ Quiet(w)
    /\ restart' = [restart EXCEPT ![w] = "cleaning"]
    /\ ReaderEnds(w)
    /\ lastId' = [lastId EXCEPT ![w] = 0]
    /\ timeouts' = [timeouts EXCEPT ![w] = 0]
    /\ unanswered' = [unanswered EXCEPT ![w] = 0]
    /\ UNCHANGED <<pc, call, target, procVars, queued>>

\* The bridge is dead: what is pending fails, the reader is cancelled.
RestartClear(w) ==
    /\ restart[w] = "killing" /\ known[w] /\ Quiet(w)
    /\ restart' = [restart EXCEPT ![w] = "cleaning"]
    /\ ReaderEnds(w)
    /\ timeouts' = [timeouts EXCEPT ![w] = 0]
    /\ unanswered' = [unanswered EXCEPT ![w] = 0]
    /\ UNCHANGED <<pc, call, target, procVars, lastId, queued>>

RestartClean(w) ==
    /\ restart[w] = "cleaning" /\ Quiet(w)
    /\ KillZombies(w)
    /\ restart' = [restart EXCEPT ![w] = "spawning"]
    /\ UNCHANGED <<pc, call, target, proc, known, ready, sent, reader, callVars, timeouts, queued, unanswered>>

\* start runs under _restarting, so its init raises at once: the restart ends with
\* a bridge that was never initialised.
RestartSpawn(w) ==
    /\ restart[w] = "spawning" /\ Quiet(w)
    /\ NewProcess(w)
    /\ sent' = [sent EXCEPT ![w] = {}]
    /\ restart' = [restart EXCEPT ![w] = "none"]
    /\ UNCHANGED <<pc, call, target, callVars, timeouts, queued, unanswered>>

RestartFails(w) ==
    /\ restart[w] = "spawning" /\ Quiet(w)
    /\ restart' = [restart EXCEPT ![w] = "none"]
    /\ UNCHANGED <<pc, call, target, procVars, reader, callVars, timeouts, queued, unanswered>>

-----------------------------------------------------------------------------
(* close. *)

\* terminate on the process there is now; it may take its time, or ignore it.
Terminate(h, w) ==
    /\ alive' \in {alive, [alive EXCEPT ![w] = @ \ {proc[w]}]}
    /\ target' = [target EXCEPT ![w] = proc[w]]
    /\ pc' = [pc EXCEPT ![h] = "terminating"]

\* The bridge is asked to close.
ClosePing(h) ==
    LET w == Uses[h] IN
    /\ pc[h] = "idle" /\ IsOwner(h) /\ Started(w) /\ MayCall(w)
    /\ Register(h, w, "close") /\ Write(w)
    /\ pc' = [pc EXCEPT ![h] = "pinging"]
    /\ UNCHANGED <<target, proc, alive, known, ready, reader, restartVars>>

\* While it restarts, or when the write fails, the bridge is terminated unasked.
CloseUnasked(h) ==
    LET w == Uses[h] IN
    /\ pc[h] = "idle" /\ IsOwner(h) /\ Started(w) /\ HasProcess(w)
    /\ Restarting(w) \/ proc[w] \notin alive[w]
    /\ Terminate(h, w)
    /\ UNCHANGED <<call, proc, known, ready, sent, reader, callVars, restartVars>>

\* The answer or five seconds; the request that timed out stays in _pending.
PingOver(h) ==
    LET w == Uses[h] IN
    /\ pc[h] = "pinging"
    /\ fut' = [fut EXCEPT ![w][call[h].id] = IF @ = "open" THEN "cancelled" ELSE @]
    /\ timeouts' = [timeouts EXCEPT ![w] = IF FutureOf(h) = "result" THEN 0 ELSE @]
    /\ unanswered' = [unanswered EXCEPT ![w] = IF FutureOf(h) = "open" THEN @ ELSE 0]
    /\ call' = [call EXCEPT ![h] = NoCall]
    /\ UNCHANGED <<proc, known, ready, sent, reader, lastId, pending, restart, queued>>

ClosePinged(h) ==
    /\ PingOver(h)
    /\ Terminate(h, Uses[h])

\* terminate raises when the process is known to have exited: close logs it and
\* is over, and what it would clean up is left to the reader.
CloseRaises(h) ==
    /\ PingOver(h) /\ known[Uses[h]]
    /\ pc' = [pc EXCEPT ![h] = "closed"]
    /\ UNCHANGED <<target, alive>>

\* Mutant of CloseKill: a bridge that ignores terminate is waited for.
CloseKillNever(h) == pc[h] = "killing" /\ UNCHANGED vars

\* Five more seconds: the process there is now is killed, and its end awaited.
CloseKill(h) ==
    LET w == Uses[h] IN
    /\ pc[h] = "terminating" /\ target[w] \in alive[w] /\ HasProcess(w)
    /\ alive' = [alive EXCEPT ![w] = @ \ {proc[w]}]
    /\ target' = [target EXCEPT ![w] = proc[w]]
    /\ UNCHANGED <<pc, call, proc, known, ready, sent, reader, callVars, restartVars>>

\* The process has exited: the reader is cancelled.
CloseDone(h) ==
    LET w == Uses[h] IN
    /\ pc[h] = "terminating" /\ target[w] \notin alive[w]
    /\ target[w] = proc[w] => known[w]
    /\ pc' = [pc EXCEPT ![h] = "closed"]
    /\ ReaderEnds(w)
    /\ UNCHANGED <<call, target, procVars, lastId, restartVars>>

CloseNoProcess(h) ==
    LET w == Uses[h] IN
    /\ pc[h] = "idle" /\ IsOwner(h) /\ Started(w) /\ ~HasProcess(w)
    /\ pc' = [pc EXCEPT ![h] = "closed"]
    /\ ReaderEnds(w)
    /\ UNCHANGED <<call, target, procVars, lastId, restartVars>>

-----------------------------------------------------------------------------
Step(h) ==
    \/ StartClean(h) \/ StartSpawn(h) \/ StartFails(h) \/ Resume(h) \/ GiveUp(h)
    \/ ClosePinged(h) \/ CloseRaises(h) \/ CloseKill(h) \/ CloseDone(h)

\* What the caller of the wrapper decides to do.
Use(h) ==
    \/ Start(h) \/ Request(h) \/ BrokenPipe(h)
    \/ ClosePing(h) \/ CloseUnasked(h) \/ CloseNoProcess(h)

Restart(w) ==
    \/ RestartBegin(w) \/ RestartClear(w) \/ RestartClean(w)
    \/ RestartSpawn(w) \/ RestartFails(w)

Bridge(w) ==
    \/ \E i \in Ids, kind \in {"result", "error"} : Reply(w, i, kind)
    \/ Noise(w) \/ Exit(w) \/ Eof(w) \/ Reap(w)

Next ==
    \/ \E h \in Callers : Use(h) \/ Timeout(h) \/ Step(h)
    \/ \E w \in Wrappers : Bridge(w) \/ Restart(w)

Spec == Init /\ [][Next]_vars

\* Timers expire, the event loop runs what is ready and sees a process end.  The
\* bridge owes no answer.
Fairness ==
    /\ \A h \in Callers : WF_vars(Timeout(h)) /\ WF_vars(Step(h))
    /\ \A w \in Wrappers : WF_vars(Reap(w)) /\ WF_vars(Restart(w))
FairSpec == Spec /\ Fairness

-----------------------------------------------------------------------------
(* Properties. *)

\* Type invariant: the wrapper's fields, its coroutines and its process hold
\* values of their kinds.
TypeOK ==
    /\ pc \in [Callers -> PCs]
    /\ call \in [Callers -> [method: {"none", "init", "request", "close"}, id: {0} \cup Ids]]
    /\ target \in [Wrappers -> Nat]
    /\ proc \in [Wrappers -> Nat]
    /\ alive \in [Wrappers -> SUBSET Nat]
    /\ known \in [Wrappers -> BOOLEAN]
    /\ ready \in [Wrappers -> BOOLEAN]
    /\ sent \in [Wrappers -> SUBSET Ids]
    /\ reader \in [Wrappers -> {"none", "reading", "ended"}]
    /\ lastId \in [Wrappers -> {0} \cup Ids]
    /\ pending \in [Wrappers -> SUBSET Ids]
    /\ fut \in [Wrappers -> [Ids -> {"none", "open", "result", "error", "cancelled"}]]
    /\ timeouts \in [Wrappers -> Nat]
    /\ restart \in [Wrappers -> {"none", "killing", "cleaning", "spawning"}]
    /\ queued \in [Wrappers -> Nat]
    /\ unanswered \in [Wrappers -> Nat]

\* A wrapper never has two bridges running, however its restarts, its close and
\* the exits of the bridge interleave: both would hold the account's session.
OneBridge == \A w \in Wrappers : alive[w] \subseteq {proc[w]}

Awaits(h) == pc[h] \in {"waiting", "timedout", "pinging"}

\* No two calls in progress share a request id, so the reader completes the future
\* of the call it answers, across restarts as well.
OwnId ==
    \A h, k \in Callers :
        (Awaits(h) /\ Awaits(k) /\ Uses[h] = Uses[k] /\ call[h].id = call[k].id) => h = k

LeftPending(w) ==
    {i \in pending[w] : ~\E h \in Callers : Uses[h] = w /\ Awaits(h) /\ call[h].id = i}

\* _pending holds the requests that are awaited and nothing else, but for the
\* close request that was abandoned: timeouts, errors and restarts leak none.
PendingIsAwaited ==
    \A w \in Wrappers :
        Cardinality(LeftPending(w))
            <= (IF pc[Owner[w]] \in {"terminating", "closed"} THEN 1 ELSE 0)

\* An open future is in _pending, where a reply, the end of the reader or a
\* restart finds it: only a reader that has ended leaves one to the timeout.
OpenIsPending ==
    \A w \in Wrappers : \A i \in Ids : fut[w][i] = "open" => i \in pending[w]

\* While a restart replaces the bridge no request is written, not even by a call
\* that passed its checks before.
QuietRestart ==
    [][\A w \in Wrappers : Restarting(w) => lastId'[w] = lastId[w]]_vars

\* Every call returns or raises, and every close comes to its end, whatever the bridge does.
CallsEnd == \A h \in Callers :
    /\ (pc[h] = "waiting") ~> (pc[h] \notin {"waiting", "timedout", "pinging"})
    /\ (pc[h] = "pinging") ~> (pc[h] = "closed")

-----------------------------------------------------------------------------
(* The inductive invariant. *)

\* A wrapper that was not started yet.
Unstarted(h) == pc[h] \in {"cleaning", "spawning"} \/ (pc[h] = "idle" /\ call[h] = InitCall)

\* A bridge whose end is known, or that is being replaced, has no process left.
ProcessInv(w) ==
    /\ alive[w] \subseteq {proc[w]}
    /\ known[w] \/ Restarting(w) \/ proc[w] = 0 => alive[w] = {}
    /\ proc[w] = 0 => queued[w] = 0 /\ ~Restarting(w)

\* Only the owner starts a wrapper, when it has no process; a call that is awaited
\* has a process and an id of its own, and is not open once it timed out.
CallerInv(h) ==
    LET w == Uses[h] IN
    /\ Unstarted(h) => IsOwner(h) /\ proc[w] = 0
    /\ Awaits(h) => proc[w] # 0 /\ call[h].id \in 1..lastId[w]
    /\ pc[h] = "timedout" => FutureOf(h) # "open"

\* The bridge that answers is the only one, and each answer finds its future.
BridgeInv ==
    /\ TypeOK
    /\ \A w \in Wrappers : ProcessInv(w)
    /\ \A h \in Callers : CallerInv(h)
    /\ OwnId /\ OpenIsPending

\* Whose future is done is not pending, and only a close that is over has left a
\* request, that of its ping.
PendingInv ==
    /\ \A h \in Callers : pc[h] = "pinging" => IsOwner(h)
    /\ \A w \in Wrappers :
          /\ \A i \in pending[w] : fut[w][i] \in {"open", "cancelled"}
          /\ LeftPending(w) # {} => pc[Owner[w]] \in {"terminating", "closed"}
          /\ \A i, j \in LeftPending(w) : i = j

-----------------------------------------------------------------------------
(* Stated by the code and refuted by what it does. *)

\* "bridge restarted": a bridge that runs when no restart does, and that the
\* wrapper sends requests to, has been initialised.
RunningIsReady ==
    \A w \in Wrappers :
        (Started(w) /\ ~Restarting(w) /\ HasProcess(w)) => ready[w]

\* "only when 3 in a row": a restart begins when three calls have timed out since
\* the last one was answered, by a result or by an error.
RestartIsDeserved ==
    [][\A w \in Wrappers :
          (~Restarting(w) /\ restart'[w] # "none") => unanswered[w] >= RestartAfter]_vars

\* "if self._restarting: return": a series of timeouts restarts the bridge once, so
\* when a restart is under way no second one waits to restart the new bridge.
RestartsOnce == \A w \in Wrappers : restart[w] = "killing" => queued[w] = 0

\* "the restart kills its own child only".
KillsItsOwn ==
    [][\A w, v \in Wrappers :
          (restart[w] = "cleaning" /\ restart'[w] = "spawning" /\ v # w)
              => alive'[v] = alive[v]]_vars

\* "lines that are not JSON are ignored", late answers too: while the bridge runs
\* and nobody closes or restarts it, its output is read.
OutputIsRead ==
    \A w \in Wrappers :
        (proc[w] \in alive[w] /\ ~Restarting(w) /\ pc[Owner[w]] # "closed")
            => reader[w] = "reading"

\* "bridge closed": when close has ended no bridge runs.
ClosedIsDead ==
    \A w \in Wrappers : pc[Owner[w]] = "closed" => alive[w] = {}

=============================================================================
