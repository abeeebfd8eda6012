---------------------- MODULE SubprocessBridge_proofs ----------------------
(***************************************************************************)
(* Proofs about SubprocessBridge.  BridgeInv is inductive: a wrapper has   *)
(* at most one process, because every path that starts one has seen the    *)
(* end of the last; and each open future is in _pending under an id no     *)
(* other call uses, because ids only grow and no future is opened twice.   *)
(***************************************************************************)
EXTENDS SubprocessBridge, FiniteSetTheorems, TLAPS

FutureStates == {"none", "open", "result", "error", "cancelled"}
Calls == [method: {"none", "init", "request", "close"}, id: {0} \cup Ids]

\* What a step may do to the futures: ids grow, no future is opened again.
Futures ==
    \A v \in Wrappers :
        /\ lastId[v] \in Nat /\ lastId'[v] \in Nat /\ lastId[v] <= lastId'[v]
        /\ \A i \in Ids : i <= lastId[v] /\ fut'[v][i] = "open" => fut[v][i] = "open"

\* The futures of a step: their types, Futures and OpenIsPending.
FuturesKept ==
    /\ lastId' \in [Wrappers -> {0} \cup Ids]
    /\ pending' \in [Wrappers -> SUBSET Ids]
    /\ fut' \in [Wrappers -> [Ids -> FutureStates]]
    /\ Futures
    /\ OpenIsPending'

Same(k) == pc'[k] = pc[k] /\ call'[k] = call[k]

-----------------------------------------------------------------------------
(* Ids are naturals. *)

LEMMA IdsAreNat == MaxCalls \in Nat /\ \A i \in {0} \cup Ids : i \in Nat
<1>1. MaxCalls \in Nat
    BY BridgeAssumption
<1>2. QED  BY <1>1 DEF Ids

LEMMA LastIdNat == TypeOK => \A v \in Wrappers : lastId[v] \in Nat
    BY IdsAreNat DEF TypeOK

LEMMA UsesType == \A k \in Callers : Uses[k] \in Wrappers
    BY BridgeAssumption

-----------------------------------------------------------------------------
(* What the operators of the wrapper do to the futures. *)

LEMMA SameFutures ==
    ASSUME TypeOK, OpenIsPending, UNCHANGED callVars
    PROVE  FuturesKept
<1>1. /\ lastId' \in [Wrappers -> {0} \cup Ids]
      /\ pending' \in [Wrappers -> SUBSET Ids]
      /\ fut' \in [Wrappers -> [Ids -> FutureStates]]
    BY DEF TypeOK, callVars, FutureStates
<1>2. Futures
    BY LastIdNat DEF Futures, callVars
<1>3. OpenIsPending'
    BY DEF OpenIsPending, callVars
<1>4. QED  BY <1>1, <1>2, <1>3 DEF FuturesKept

LEMMA Registered ==
    ASSUME TypeOK, OpenIsPending, NEW h \in Callers, NEW w \in Wrappers,
           NEW m \in {"init", "request", "close"}, lastId[w] < MaxCalls, Register(h, w, m)
    PROVE  /\ lastId[w] + 1 \in Ids /\ lastId[w] \in Nat
           /\ lastId'[w] = lastId[w] + 1
           /\ call' \in [Callers -> Calls]
           /\ call'[h] = [method |-> m, id |-> lastId[w] + 1]
           /\ \A k \in Callers : k # h => call'[k] = call[k]
           /\ FuturesKept
<1> DEFINE n == lastId[w] + 1
<1>1. lastId[w] \in Nat /\ n \in Ids
    BY IdsAreNat, LastIdNat DEF Ids
<1>2. lastId' = [lastId EXCEPT ![w] = n] /\ lastId' \in [Wrappers -> {0} \cup Ids]
    BY <1>1 DEF TypeOK, Register, NewId
<1>3. pending' = [pending EXCEPT ![w] = pending[w] \cup {n}] /\ pending' \in [Wrappers -> SUBSET Ids]
    BY <1>1 DEF TypeOK, Register, NewId
<1>4. fut' = [fut EXCEPT ![w] = [fut[w] EXCEPT ![n] = "open"]]
    BY DEF Register, NewId
<1>5. [fut[w] EXCEPT ![n] = "open"] \in [Ids -> FutureStates]
    BY <1>1 DEF TypeOK, FutureStates
<1>6. fut' \in [Wrappers -> [Ids -> FutureStates]]
    BY <1>4, <1>5 DEF TypeOK, FutureStates
<1>7. \A v \in Wrappers, i \in Ids :
          fut'[v][i] = IF v = w /\ i = n THEN "open" ELSE fut[v][i]
    BY <1>1, <1>4 DEF TypeOK
<1>8. Futures
  <2>1. \A v \in Wrappers : lastId[v] \in Nat /\ lastId'[v] \in Nat /\ lastId[v] <= lastId'[v]
    BY <1>1, <1>2, LastIdNat DEF TypeOK
  <2>2. ASSUME NEW v \in Wrappers, NEW i \in Ids, i <= lastId[v], fut'[v][i] = "open"
        PROVE  fut[v][i] = "open"
    <3>1. ~(v = w /\ i = n)
      BY <1>1, <2>2
    <3>2. QED  BY <3>1, <2>2, <1>7
  <2>3. QED  BY <2>1, <2>2 DEF Futures
<1>9. OpenIsPending'
    BY <1>1, <1>3, <1>7 DEF OpenIsPending, TypeOK
<1>10. call' = [call EXCEPT ![h] = [method |-> m, id |-> n]] /\ [method |-> m, id |-> n] \in Calls
    BY <1>1 DEF Register, NewId, Calls
<1>11. call' \in [Callers -> Calls]
    BY <1>10 DEF TypeOK, Calls
<1>12. call'[h] = [method |-> m, id |-> n] /\ \A k \in Callers : k # h => call'[k] = call[k]
    BY <1>10 DEF TypeOK
<1>13. lastId'[w] = n
    BY <1>2 DEF TypeOK
<1>14. QED  BY <1>1, <1>2, <1>3, <1>6, <1>8, <1>9, <1>11, <1>12, <1>13 DEF FuturesKept

\* A future that is cancelled, and only if it is open.
LEMMA Cancelled ==
    ASSUME TypeOK, OpenIsPending, NEW w \in Wrappers, NEW i \in {0} \cup Ids,
           fut' = [fut EXCEPT ![w][i] = IF @ = "open" THEN "cancelled" ELSE @],
           UNCHANGED <<lastId, pending>>
    PROVE  FuturesKept /\ (i \in Ids => fut'[w][i] # "open")
<1> DEFINE c == IF fut[w][i] = "open" THEN "cancelled" ELSE fut[w][i]
<1>1. fut' = [fut EXCEPT ![w] = [fut[w] EXCEPT ![i] = c]]
    OBVIOUS
<1>2. [fut[w] EXCEPT ![i] = c] \in [Ids -> FutureStates]
  <2>1. fut[w] \in [Ids -> FutureStates]
    BY DEF TypeOK, FutureStates
  <2>2. i \in Ids => c \in FutureStates
    BY <2>1 DEF FutureStates
  <2>3. \A j \in Ids : [fut[w] EXCEPT ![i] = c][j] \in FutureStates
    BY <2>1, <2>2
  <2>4. QED  BY <2>1, <2>3
<1>3. fut' \in [Wrappers -> [Ids -> FutureStates]]
    BY <1>1, <1>2 DEF TypeOK, FutureStates
<1>4. \A v \in Wrappers, k \in Ids : fut'[v][k] = IF v = w /\ k = i THEN c ELSE fut[v][k]
    BY <1>1 DEF TypeOK
<1>5. Futures
    BY <1>4, LastIdNat DEF Futures
<1>6. OpenIsPending'
    BY <1>4 DEF OpenIsPending
<1>7. QED  BY <1>3, <1>4, <1>5, <1>6 DEF FuturesKept, TypeOK

LEMMA ReaderEnded ==
    ASSUME TypeOK, OpenIsPending, NEW w \in Wrappers, ReaderEnds(w), UNCHANGED lastId
    PROVE  FuturesKept /\ reader' \in [Wrappers -> {"none", "reading", "ended"}]
<1> DEFINE f == [i \in Ids |-> IF i \in pending[w] /\ fut[w][i] = "open" THEN "error" ELSE fut[w][i]]
<1>1. fut' = [fut EXCEPT ![w] = f]
    BY DEF ReaderEnds, FailPending
<1>2. f \in [Ids -> FutureStates]
    BY DEF TypeOK, FutureStates
<1>3. fut' \in [Wrappers -> [Ids -> FutureStates]]
    BY <1>1, <1>2 DEF TypeOK, FutureStates
<1>4. \A v \in Wrappers : v # w => fut'[v] = fut[v]
    BY <1>1 DEF TypeOK
<1>5. \A i \in Ids : fut'[w][i] # "open"
    BY <1>1 DEF OpenIsPending, TypeOK
<1>6. Futures
    BY <1>4, <1>5, LastIdNat DEF Futures
<1>7. pending' \in [Wrappers -> SUBSET Ids] /\ \A v \in Wrappers : v # w => pending'[v] = pending[v]
    BY DEF ReaderEnds, TypeOK
<1>8. OpenIsPending'
    BY <1>4, <1>5, <1>7 DEF OpenIsPending
<1>9. reader' \in [Wrappers -> {"none", "reading", "ended"}]
    BY DEF ReaderEnds, TypeOK
<1>10. QED  BY <1>3, <1>6, <1>7, <1>8, <1>9 DEF FuturesKept, TypeOK

-----------------------------------------------------------------------------
(* What a step leaves alone. *)

\* A coroutine that a step leaves alone keeps what is known of it: requests get
\* new ids, and no future is opened twice.
LEMMA CallerFrame ==
    ASSUME TypeOK, Futures, NEW k \in Callers, CallerInv(k), Same(k),
           Unstarted(k) => proc'[Uses[k]] = 0,
           Awaits(k) => proc'[Uses[k]] # 0
    PROVE  CallerInv(k)'
<1> DEFINE w == Uses[k]
           id == call[k].id
<1>1. w \in Wrappers /\ id \in {0} \cup Ids
    BY UsesType DEF TypeOK
<1>2. lastId[w] \in Nat /\ lastId'[w] \in Nat /\ lastId[w] <= lastId'[w]
    BY <1>1 DEF Futures
<1>3. id \in Nat
    BY <1>1, IdsAreNat
<1>4. Awaits(k) => id \in 1..lastId[w] /\ id \in 1..lastId'[w]
    BY <1>2, <1>3 DEF CallerInv
<1>5. (Unstarted(k) <=> Unstarted(k)') /\ (Awaits(k) <=> Awaits(k)')
    BY DEF Unstarted, Awaits, Same
<1>6. pc[k] = "timedout" => Awaits(k) /\ fut'[w][id] # "open"
  <2>1. SUFFICES ASSUME pc[k] = "timedout" PROVE Awaits(k) /\ fut'[w][id] # "open"
    OBVIOUS
  <2>2. Awaits(k)
    BY <2>1 DEF Awaits
  <2>3. id \in Ids /\ id <= lastId[w]
    BY <2>2, <1>1, <1>2, <1>3, <1>4
  <2>4. fut[w][id] # "open"
    BY <2>1 DEF CallerInv, FutureOf
  <2>5. QED  BY <2>2, <2>3, <2>4, <1>1 DEF Futures
<1>7. QED
    BY <1>4, <1>5, <1>6 DEF CallerInv, IsOwner, FutureOf, Same

\* Every other coroutine is left alone.
Others(h) ==
    \A k \in Callers : k # h =>
        /\ Same(k)
        /\ Unstarted(k) => proc'[Uses[k]] = 0
        /\ Awaits(k) => proc'[Uses[k]] # 0

LEMMA OthersFrame ==
    ASSUME BridgeInv, NEW h, \A k \in Callers : k # h => Same(k), UNCHANGED proc
    PROVE  Others(h)
    BY DEF Others, BridgeInv, CallerInv

\* A step of h keeps BridgeInv when it keeps the wrappers and h, and h awaits the
\* request it awaited before or a new one.
LEMMA CallerStep ==
    ASSUME BridgeInv, TypeOK', FuturesKept, \A w \in Wrappers : ProcessInv(w)',
           NEW h \in Callers, Others(h), CallerInv(h)',
           Awaits(h)' => \/ Awaits(h) /\ call'[h].id = call[h].id
                         \/ call'[h].id = lastId[Uses[h]] + 1
    PROVE  BridgeInv'
<1>1. \A k \in Callers : CallerInv(k)'
    BY CallerFrame DEF BridgeInv, FuturesKept, Others
<1>2. OwnId'
  <2>1. \A k \in Callers : Awaits(k) => call[k].id # lastId[Uses[k]] + 1
    BY LastIdNat, UsesType DEF BridgeInv, CallerInv
  <2>2. \A k \in Callers : k # h => (Awaits(k)' <=> Awaits(k)) /\ call'[k] = call[k]
    BY DEF Others, Same, Awaits
  <2>3. QED  BY <2>1, <2>2 DEF BridgeInv, OwnId
<1>3. QED  BY <1>1, <1>2 DEF BridgeInv, FuturesKept

\* A step of a wrapper keeps it when it leaves every coroutine where it is.
LEMMA WrapperStep ==
    ASSUME BridgeInv, TypeOK', FuturesKept, \A w \in Wrappers : ProcessInv(w)',
           UNCHANGED <<pc, call>>, \A v \in Wrappers : proc'[v] = 0 <=> proc[v] = 0
    PROVE  BridgeInv'
<1>1. ASSUME NEW k \in Callers PROVE CallerInv(k)'
  <2>1. CallerInv(k) /\ Same(k) /\ TypeOK /\ Futures
    BY DEF BridgeInv, Same, FuturesKept
  <2>2. (Unstarted(k) => proc'[Uses[k]] = 0) /\ (Awaits(k) => proc'[Uses[k]] # 0)
    BY <2>1, UsesType DEF CallerInv
  <2>3. QED  BY <2>1, <2>2, CallerFrame
<1>2. OwnId'
    BY DEF BridgeInv, OwnId, Awaits
<1>3. QED  BY <1>1, <1>2 DEF BridgeInv, FuturesKept

\* A call that returned or raised awaits nothing, and no wrapper is unstarted by it
\* but one that was being started.
LEMMA ReturnedFacts ==
    ASSUME TypeOK, NEW h \in Callers, NEW ok \in BOOLEAN, Returned(h, ok)
    PROVE  /\ pc' \in [Callers -> PCs] /\ call' \in [Callers -> Calls]
           /\ \A k \in Callers : k # h => Same(k)
           /\ ~Awaits(h)' /\ ~Unstarted(h)' /\ pc'[h] # "timedout"
<1> DEFINE c == IF call[h].method = "init" /\ ~ok THEN InitCall ELSE NoCall
           q == IF call[h].method = "init" /\ ~ok THEN "failed" ELSE "idle"
<1>2. pc' = [pc EXCEPT ![h] = q] /\ call' = [call EXCEPT ![h] = c]
    BY DEF Returned
<1>3. c \in Calls /\ q \in PCs
    BY DEF Calls, PCs, InitCall, NoCall
<1>4. pc'[h] = q /\ call'[h] = c
    BY <1>2 DEF TypeOK
<1>5. ~(q = "idle" /\ c = InitCall)
    BY DEF InitCall, NoCall
<1>6. ~Awaits(h)' /\ ~Unstarted(h)' /\ pc'[h] # "timedout"
    BY <1>4, <1>5 DEF Awaits, Unstarted
<1>7. QED  BY <1>2, <1>3, <1>6 DEF TypeOK, Same, Calls

-----------------------------------------------------------------------------
(* The actions of the coroutines. *)

LEMMA StartKeeps ==
    ASSUME BridgeInv, NEW h \in Callers, Start(h)
    PROVE  BridgeInv'
<1> DEFINE w == Uses[h]
<1>1. TypeOK /\ OpenIsPending /\ w \in Wrappers /\ CallerInv(h) /\ ProcessInv(w)
    BY UsesType DEF BridgeInv
<1>2. FuturesKept
    BY <1>1, SameFutures DEF Start, procVars, callVars, restartVars
<1>3. TypeOK'
    BY <1>1, <1>2 DEF Start, TypeOK, PCs, procVars, restartVars, FuturesKept,
        FutureStates, callVars
<1>4. \A v \in Wrappers : ProcessInv(v)'
    BY <1>1 DEF Start, BridgeInv, ProcessInv, Restarting, procVars, callVars,
        restartVars
<1>5. Others(h)
    BY <1>1, OthersFrame DEF Start, Same, TypeOK, procVars, callVars, restartVars
<1>6. CallerInv(h)'
    BY <1>1, <1>2 DEF Start, CallerInv, Unstarted, Awaits, IsOwner, FutureOf, TypeOK,
        procVars, callVars, restartVars, InitCall
<1>7. Awaits(h)' => \/ Awaits(h) /\ call'[h].id = call[h].id
                    \/ call'[h].id = lastId[w] + 1
    BY <1>1 DEF Start, Awaits, TypeOK, procVars, callVars, restartVars
<1>8. QED  BY <1>2, <1>3, <1>4, <1>5, <1>6, <1>7, CallerStep

LEMMA RequestKeeps ==
    ASSUME BridgeInv, NEW h \in Callers, Request(h)
    PROVE  BridgeInv'
<1> DEFINE w == Uses[h]
<1>1. TypeOK /\ OpenIsPending /\ w \in Wrappers /\ CallerInv(h) /\ ProcessInv(w)
    BY UsesType DEF BridgeInv
<1>r. /\ lastId[w] + 1 \in Ids /\ lastId[w] \in Nat
      /\ lastId'[w] = lastId[w] + 1 /\ call' \in [Callers -> Calls]
      /\ call'[h] = [method |-> "request", id |-> lastId[w] + 1]
      /\ \A k \in Callers : k # h => call'[k] = call[k]
      /\ FuturesKept
    BY <1>1, Registered DEF Request, MayCall
<1>2. FuturesKept
    BY <1>1, <1>r DEF Request
<1>3. TypeOK'
  <2>1. sent' \in [Wrappers -> SUBSET Ids]
    BY <1>1, <1>r DEF Request, Write, NewId, TypeOK
  <2>2. QED
    BY <1>1, <1>2, <1>r, <2>1
       DEF Request, TypeOK, Calls, PCs, restartVars, FuturesKept, FutureStates
<1>4. \A v \in Wrappers : ProcessInv(v)'
    BY <1>1 DEF Request, BridgeInv, ProcessInv, Restarting, procVars, callVars,
        restartVars
<1>5. Others(h)
    BY <1>1, <1>r, OthersFrame DEF Request, Same, TypeOK
<1>6. CallerInv(h)'
    BY <1>1, <1>2, <1>r
       DEF Request, CallerInv, Unstarted, Awaits, HasProcess, MayCall, TypeOK
<1>7. Awaits(h)' => \/ Awaits(h) /\ call'[h].id = call[h].id
                    \/ call'[h].id = lastId[w] + 1
    BY <1>r
<1>8. QED  BY <1>2, <1>3, <1>4, <1>5, <1>6, <1>7, CallerStep

LEMMA BrokenPipeKeeps ==
    ASSUME BridgeInv, NEW h \in Callers, BrokenPipe(h)
    PROVE  BridgeInv'
<1> DEFINE w == Uses[h]
<1>1. TypeOK /\ OpenIsPending /\ w \in Wrappers /\ CallerInv(h) /\ ProcessInv(w)
    BY UsesType DEF BridgeInv
<1>2. FuturesKept
  <2>1. lastId[w] \in Nat /\ lastId[w] + 1 \in Ids
    BY <1>1, LastIdNat, IdsAreNat DEF BrokenPipe, MayCall, Ids
  <2>2. lastId' = [lastId EXCEPT ![w] = lastId[w] + 1]
    BY DEF BrokenPipe, NewId
  <2>3. lastId' \in [Wrappers -> {0} \cup Ids]
    BY <1>1, <2>1, <2>2 DEF TypeOK
  <2>4. Futures
    BY <1>1, <2>1, <2>2, LastIdNat DEF BrokenPipe, Futures, TypeOK
  <2>5. QED
    BY <1>1, <2>3, <2>4 DEF BrokenPipe, FuturesKept, TypeOK, FutureStates, OpenIsPending
<1>3. TypeOK'
    BY <1>1, <1>2 DEF BrokenPipe, TypeOK, PCs, procVars, restartVars, FuturesKept,
        FutureStates
<1>4. \A v \in Wrappers : ProcessInv(v)'
    BY <1>1 DEF BrokenPipe, BridgeInv, ProcessInv, Restarting, procVars, callVars,
        restartVars
<1>5. Others(h)
    BY <1>1, OthersFrame DEF BrokenPipe, Same, TypeOK, procVars, callVars, restartVars
<1>6. CallerInv(h)'
    BY <1>1, <1>2 DEF BrokenPipe, CallerInv, Unstarted, Awaits, IsOwner, FutureOf,
        TypeOK, procVars, callVars, restartVars
<1>7. Awaits(h)' => \/ Awaits(h) /\ call'[h].id = call[h].id
                    \/ call'[h].id = lastId[w] + 1
    BY <1>1 DEF BrokenPipe, Awaits, TypeOK, procVars, callVars, restartVars
<1>8. QED  BY <1>2, <1>3, <1>4, <1>5, <1>6, <1>7, CallerStep

LEMMA ResumeKeeps ==
    ASSUME BridgeInv, NEW h \in Callers, Resume(h)
    PROVE  BridgeInv'
<1> DEFINE w == Uses[h]
<1>1. TypeOK /\ OpenIsPending /\ w \in Wrappers /\ CallerInv(h) /\ ProcessInv(w)
    BY UsesType DEF BridgeInv
<1>2. FuturesKept
    BY <1>1, SameFutures DEF Resume, procVars, callVars, restartVars
<1>r. /\ pc' \in [Callers -> PCs] /\ call' \in [Callers -> Calls]
      /\ \A k \in Callers : k # h => Same(k)
      /\ ~Awaits(h)' /\ ~Unstarted(h)' /\ pc'[h] # "timedout"
    BY <1>1, ReturnedFacts DEF Resume
<1>3. TypeOK'
    BY <1>1, <1>2 DEF Resume, TypeOK, PCs, procVars, restartVars, FuturesKept,
        FutureStates, Returned, InitCall, NoCall, callVars
<1>4. \A v \in Wrappers : ProcessInv(v)'
    BY <1>1 DEF Resume, BridgeInv, ProcessInv, Restarting, procVars, callVars,
        restartVars
<1>5. Others(h)
    BY <1>r, OthersFrame DEF Resume, procVars
<1>6. CallerInv(h)'
    BY <1>r DEF CallerInv
<1>7. Awaits(h)' => \/ Awaits(h) /\ call'[h].id = call[h].id
                    \/ call'[h].id = lastId[w] + 1
    BY <1>r
<1>8. QED  BY <1>2, <1>3, <1>4, <1>5, <1>6, <1>7, CallerStep

LEMMA TimeoutKeeps ==
    ASSUME BridgeInv, NEW h \in Callers, Timeout(h)
    PROVE  BridgeInv'
<1> DEFINE w == Uses[h]
<1>1. TypeOK /\ OpenIsPending /\ w \in Wrappers /\ CallerInv(h) /\ ProcessInv(w)
    BY UsesType DEF BridgeInv
<1>2. FuturesKept
  <2>1. call[h].id \in {0} \cup Ids
    BY <1>1 DEF TypeOK
  <2>2. /\ fut' = [fut EXCEPT ![w][call[h].id] = IF @ = "open" THEN "cancelled" ELSE @]
        /\ UNCHANGED <<lastId, pending>>
    BY DEF Timeout
  <2>3. QED  BY <1>1, <2>1, <2>2, Cancelled
<1>3. TypeOK'
    BY <1>1, <1>2 DEF Timeout, TypeOK, PCs, procVars, restartVars, FuturesKept,
        FutureStates
<1>4. \A v \in Wrappers : ProcessInv(v)'
    BY <1>1 DEF Timeout, BridgeInv, ProcessInv, Restarting, procVars, callVars,
        restartVars
<1>5. Others(h)
    BY <1>1, OthersFrame DEF Timeout, Same, TypeOK, procVars, callVars, restartVars
<1>6. CallerInv(h)'
    BY <1>1, <1>2 DEF Timeout, CallerInv, Unstarted, Awaits, IsOwner, FutureOf, TypeOK,
        procVars, callVars, restartVars
<1>7. Awaits(h)' => \/ Awaits(h) /\ call'[h].id = call[h].id
                    \/ call'[h].id = lastId[w] + 1
    BY <1>1 DEF Timeout, Awaits, TypeOK, procVars, callVars, restartVars
<1>8. QED  BY <1>2, <1>3, <1>4, <1>5, <1>6, <1>7, CallerStep

LEMMA GiveUpKeeps ==
    ASSUME BridgeInv, NEW h \in Callers, GiveUp(h)
    PROVE  BridgeInv'
<1> DEFINE w == Uses[h]
<1>1. TypeOK /\ OpenIsPending /\ w \in Wrappers /\ CallerInv(h) /\ ProcessInv(w)
    BY UsesType DEF BridgeInv
<1>2. FuturesKept
    BY <1>1, LastIdNat DEF GiveUp, Forget, TypeOK, FuturesKept, Futures, FutureStates,
        OpenIsPending, Awaits, CallerInv, FutureOf
<1>r. /\ pc' \in [Callers -> PCs] /\ call' \in [Callers -> Calls]
      /\ \A k \in Callers : k # h => Same(k)
      /\ ~Awaits(h)' /\ ~Unstarted(h)' /\ pc'[h] # "timedout"
    BY <1>1, ReturnedFacts DEF GiveUp
<1>3. TypeOK'
    BY <1>1, <1>2 DEF GiveUp, TypeOK, PCs, procVars, restartVars, FuturesKept,
        FutureStates, Returned, InitCall, NoCall, RestartAfter
<1>4. \A v \in Wrappers : ProcessInv(v)'
  <2>1. proc[w] # 0
    BY <1>1 DEF GiveUp, CallerInv, Awaits
  <2>2. QED
    BY <1>1, <2>1 DEF GiveUp, BridgeInv, ProcessInv, Restarting, TypeOK, procVars
<1>5. Others(h)
    BY <1>r, OthersFrame DEF GiveUp, procVars
<1>6. CallerInv(h)'
    BY <1>r DEF CallerInv
<1>7. Awaits(h)' => \/ Awaits(h) /\ call'[h].id = call[h].id
                    \/ call'[h].id = lastId[w] + 1
    BY <1>r
<1>8. QED  BY <1>2, <1>3, <1>4, <1>5, <1>6, <1>7, CallerStep

LEMMA StartCleanKeeps ==
    ASSUME BridgeInv, NEW h \in Callers, StartClean(h)
    PROVE  BridgeInv'
<1> DEFINE w == Uses[h]
<1>1. TypeOK /\ OpenIsPending /\ w \in Wrappers /\ CallerInv(h) /\ ProcessInv(w)
    BY UsesType DEF BridgeInv
<1>2. FuturesKept
    BY <1>1, SameFutures DEF StartClean, procVars, callVars, restartVars
<1>3. TypeOK'
    BY <1>1, <1>2 DEF StartClean, TypeOK, PCs, procVars, restartVars, FuturesKept,
        FutureStates, callVars, KillZombies
<1>4. \A v \in Wrappers : ProcessInv(v)'
    BY <1>1 DEF StartClean, BridgeInv, ProcessInv, Restarting, procVars, callVars,
        restartVars, KillZombies
<1>5. Others(h)
    BY <1>1, OthersFrame DEF StartClean, Same, TypeOK, procVars, callVars, restartVars
<1>6. CallerInv(h)'
    BY <1>1, <1>2 DEF StartClean, CallerInv, Unstarted, Awaits, IsOwner, FutureOf,
        TypeOK, procVars, callVars, restartVars
<1>7. Awaits(h)' => \/ Awaits(h) /\ call'[h].id = call[h].id
                    \/ call'[h].id = lastId[w] + 1
    BY <1>1 DEF StartClean, Awaits, TypeOK, procVars, callVars, restartVars
<1>8. QED  BY <1>2, <1>3, <1>4, <1>5, <1>6, <1>7, CallerStep

LEMMA StartSpawnKeeps ==
    ASSUME BridgeInv, NEW h \in Callers, StartSpawn(h)
    PROVE  BridgeInv'
<1> DEFINE w == Uses[h]
<1>1. TypeOK /\ OpenIsPending /\ w \in Wrappers /\ CallerInv(h) /\ ProcessInv(w)
    BY UsesType DEF BridgeInv
<1>r. /\ lastId[w] + 1 \in Ids /\ lastId[w] \in Nat
      /\ lastId'[w] = lastId[w] + 1 /\ call' \in [Callers -> Calls]
      /\ call'[h] = [method |-> "init", id |-> lastId[w] + 1]
      /\ \A k \in Callers : k # h => call'[k] = call[k]
      /\ FuturesKept
    BY <1>1, Registered DEF StartSpawn, MayCall
<1>2. FuturesKept
    BY <1>1, <1>r DEF StartSpawn
<1>n. /\ proc[w] = 0 /\ alive[w] = {} /\ queued[w] = 0 /\ ~Restarting(w) /\ IsOwner(h)
    BY <1>1 DEF StartSpawn, CallerInv, ProcessInv, Unstarted
<1>p. /\ proc' = [proc EXCEPT ![w] = 1] /\ alive' = [alive EXCEPT ![w] = {1}]
      /\ known' = [known EXCEPT ![w] = FALSE] /\ ready' = [ready EXCEPT ![w] = FALSE]
      /\ reader' = [reader EXCEPT ![w] = "reading"]
    BY <1>n DEF StartSpawn, NewProcess
<1>3. TypeOK'
  <2>1. sent' \in [Wrappers -> SUBSET Ids]
    BY <1>1, <1>r DEF StartSpawn, NewId, TypeOK
  <2>2. pc' \in [Callers -> PCs]
    BY <1>1 DEF StartSpawn, TypeOK, PCs
  <2>3. proc' \in [Wrappers -> Nat] /\ alive' \in [Wrappers -> SUBSET Nat]
    BY <1>1, <1>p DEF TypeOK
  <2>4. QED
    BY <1>1, <1>2, <1>r, <1>p, <2>1, <2>2, <2>3
       DEF StartSpawn, TypeOK, Calls, restartVars, FuturesKept, FutureStates
<1>4. \A v \in Wrappers : ProcessInv(v)'
    BY <1>1, <1>n, <1>p DEF StartSpawn, BridgeInv, ProcessInv, Restarting, TypeOK, restartVars
<1>5. Others(h)
  <2>1. \A k \in Callers : Uses[k] = w => (Unstarted(k) => k = h) /\ ~Awaits(k)
    BY <1>n DEF BridgeInv, CallerInv, IsOwner
  <2>2. \A k \in Callers : k # h => Same(k)
    BY <1>1, <1>r DEF StartSpawn, Same, TypeOK
  <2>3. \A v \in Wrappers : v # w => proc'[v] = proc[v]
    BY <1>1, <1>p DEF TypeOK
  <2>4. QED  BY <2>1, <2>2, <2>3, UsesType DEF Others, BridgeInv, CallerInv
<1>6. CallerInv(h)'
  <2>1. pc'[h] = "waiting" /\ proc'[w] = 1
    BY <1>1, <1>p DEF StartSpawn, TypeOK
  <2>2. call'[h].id \in 1..lastId'[w]
    BY <1>r
  <2>3. QED  BY <2>1, <2>2 DEF CallerInv, Unstarted
<1>7. Awaits(h)' => \/ Awaits(h) /\ call'[h].id = call[h].id
                    \/ call'[h].id = lastId[w] + 1
    BY <1>r
<1>8. QED  BY <1>2, <1>3, <1>4, <1>5, <1>6, <1>7, CallerStep

LEMMA StartFailsKeeps ==
    ASSUME BridgeInv, NEW h \in Callers, StartFails(h)
    PROVE  BridgeInv'
<1> DEFINE w == Uses[h]
<1>1. TypeOK /\ OpenIsPending /\ w \in Wrappers /\ CallerInv(h) /\ ProcessInv(w)
    BY UsesType DEF BridgeInv
<1>2. FuturesKept
    BY <1>1, SameFutures DEF StartFails, procVars, callVars, restartVars
<1>3. TypeOK'
    BY <1>1, <1>2 DEF StartFails, TypeOK, PCs, procVars, restartVars, FuturesKept,
        FutureStates, callVars
<1>4. \A v \in Wrappers : ProcessInv(v)'
    BY <1>1 DEF StartFails, BridgeInv, ProcessInv, Restarting, procVars, callVars,
        restartVars
<1>5. Others(h)
    BY <1>1, OthersFrame DEF StartFails, Same, TypeOK, procVars, callVars, restartVars
<1>6. CallerInv(h)'
    BY <1>1, <1>2 DEF StartFails, CallerInv, Unstarted, Awaits, IsOwner, FutureOf,
        TypeOK, procVars, callVars, restartVars
<1>7. Awaits(h)' => \/ Awaits(h) /\ call'[h].id = call[h].id
                    \/ call'[h].id = lastId[w] + 1
    BY <1>1 DEF StartFails, Awaits, TypeOK, procVars, callVars, restartVars
<1>8. QED  BY <1>2, <1>3, <1>4, <1>5, <1>6, <1>7, CallerStep

LEMMA ClosePingKeeps ==
    ASSUME BridgeInv, NEW h \in Callers, ClosePing(h)
    PROVE  BridgeInv'
<1> DEFINE w == Uses[h]
<1>1. TypeOK /\ OpenIsPending /\ w \in Wrappers /\ CallerInv(h) /\ ProcessInv(w)
    BY UsesType DEF BridgeInv
<1>r. /\ lastId[w] + 1 \in Ids /\ lastId[w] \in Nat
      /\ lastId'[w] = lastId[w] + 1 /\ call' \in [Callers -> Calls]
      /\ call'[h] = [method |-> "close", id |-> lastId[w] + 1]
      /\ \A k \in Callers : k # h => call'[k] = call[k]
      /\ FuturesKept
    BY <1>1, Registered DEF ClosePing, MayCall
<1>2. FuturesKept
    BY <1>1, <1>r DEF ClosePing
<1>3. TypeOK'
  <2>1. sent' \in [Wrappers -> SUBSET Ids]
    BY <1>1, <1>r DEF ClosePing, Write, NewId, TypeOK
  <2>2. QED
    BY <1>1, <1>2, <1>r, <2>1
       DEF ClosePing, TypeOK, Calls, PCs, restartVars, FuturesKept, FutureStates
<1>4. \A v \in Wrappers : ProcessInv(v)'
    BY <1>1 DEF ClosePing, BridgeInv, ProcessInv, Restarting, procVars, callVars,
        restartVars
<1>5. Others(h)
    BY <1>1, <1>r, OthersFrame DEF ClosePing, Same, TypeOK
<1>6. CallerInv(h)'
    BY <1>1, <1>2, <1>r
       DEF ClosePing, CallerInv, Unstarted, Awaits, HasProcess, MayCall, TypeOK
<1>7. Awaits(h)' => \/ Awaits(h) /\ call'[h].id = call[h].id
                    \/ call'[h].id = lastId[w] + 1
    BY <1>r
<1>8. QED  BY <1>2, <1>3, <1>4, <1>5, <1>6, <1>7, CallerStep

LEMMA CloseUnaskedKeeps ==
    ASSUME BridgeInv, NEW h \in Callers, CloseUnasked(h)
    PROVE  BridgeInv'
<1> DEFINE w == Uses[h]
<1>1. TypeOK /\ OpenIsPending /\ w \in Wrappers /\ CallerInv(h) /\ ProcessInv(w)
    BY UsesType DEF BridgeInv
<1>2. FuturesKept
    BY <1>1, SameFutures DEF CloseUnasked, procVars, callVars, restartVars
<1>a. alive' = alive \/ alive' = [alive EXCEPT ![w] = alive[w] \ {proc[w]}]
    BY DEF CloseUnasked, Terminate
<1>p. proc \in [Wrappers -> Nat] /\ alive \in [Wrappers -> SUBSET Nat]
    BY <1>1 DEF TypeOK
<1>s. alive' \in [Wrappers -> SUBSET Nat] /\ \A v \in Wrappers : alive'[v] \subseteq alive[v]
    BY <1>a, <1>p
<1>3. TypeOK'
  <2>1. target' \in [Wrappers -> Nat] /\ pc' \in [Callers -> PCs]
    BY <1>1, <1>p DEF CloseUnasked, Terminate, TypeOK, PCs
  <2>2. timeouts' \in [Wrappers -> Nat] /\ unanswered' \in [Wrappers -> Nat]
    BY <1>1 DEF CloseUnasked, TypeOK, restartVars
  <2>3. call' \in [Callers -> Calls]
    BY <1>1 DEF CloseUnasked, TypeOK, Calls, NoCall
  <2>4. QED
    BY <1>1, <1>2, <1>s, <2>1, <2>2, <2>3
       DEF CloseUnasked, TypeOK, Calls, restartVars, FuturesKept, FutureStates
<1>4. \A v \in Wrappers : ProcessInv(v)'
    BY <1>1, <1>s DEF CloseUnasked, BridgeInv, ProcessInv, Restarting, restartVars
<1>5. Others(h)
    BY <1>1, OthersFrame DEF CloseUnasked, Same, TypeOK, procVars, callVars,
        restartVars, Terminate
<1>6. CallerInv(h)'
    BY <1>1, <1>2 DEF CloseUnasked, CallerInv, Unstarted, Awaits, IsOwner, FutureOf,
        TypeOK, procVars, callVars, restartVars, Terminate
<1>7. Awaits(h)' => \/ Awaits(h) /\ call'[h].id = call[h].id
                    \/ call'[h].id = lastId[w] + 1
    BY <1>1 DEF CloseUnasked, Awaits, TypeOK, procVars, callVars, restartVars, Terminate
<1>8. QED  BY <1>2, <1>3, <1>4, <1>5, <1>6, <1>7, CallerStep

LEMMA ClosePingedKeeps ==
    ASSUME BridgeInv, NEW h \in Callers, ClosePinged(h)
    PROVE  BridgeInv'
<1> DEFINE w == Uses[h]
<1>1. TypeOK /\ OpenIsPending /\ w \in Wrappers /\ CallerInv(h) /\ ProcessInv(w)
    BY UsesType DEF BridgeInv
<1>2. FuturesKept
  <2>1. call[h].id \in {0} \cup Ids
    BY <1>1 DEF TypeOK
  <2>2. /\ fut' = [fut EXCEPT ![w][call[h].id] = IF @ = "open" THEN "cancelled" ELSE @]
        /\ UNCHANGED <<lastId, pending>>
    BY DEF ClosePinged, PingOver
  <2>3. QED  BY <1>1, <2>1, <2>2, Cancelled
<1>a. alive' = alive \/ alive' = [alive EXCEPT ![w] = alive[w] \ {proc[w]}]
    BY DEF ClosePinged, Terminate
<1>p. proc \in [Wrappers -> Nat] /\ alive \in [Wrappers -> SUBSET Nat]
    BY <1>1 DEF TypeOK
<1>s. alive' \in [Wrappers -> SUBSET Nat] /\ \A v \in Wrappers : alive'[v] \subseteq alive[v]
    BY <1>a, <1>p
<1>3. TypeOK'
  <2>1. target' \in [Wrappers -> Nat] /\ pc' \in [Callers -> PCs]
    BY <1>1, <1>p DEF ClosePinged, Terminate, TypeOK, PCs
  <2>2. timeouts' \in [Wrappers -> Nat] /\ unanswered' \in [Wrappers -> Nat]
    BY <1>1 DEF ClosePinged, PingOver, TypeOK, restartVars
  <2>3. call' \in [Callers -> Calls]
    BY <1>1 DEF ClosePinged, PingOver, TypeOK, Calls, NoCall
  <2>4. QED
    BY <1>1, <1>2, <1>s, <2>1, <2>2, <2>3
       DEF ClosePinged, PingOver, TypeOK, Calls, restartVars, FuturesKept, FutureStates
<1>4. \A v \in Wrappers : ProcessInv(v)'
    BY <1>1, <1>s DEF ClosePinged, PingOver, BridgeInv, ProcessInv, Restarting, restartVars
<1>5. Others(h)
    BY <1>1, OthersFrame DEF ClosePinged, Same, TypeOK, procVars, callVars, restartVars,
        PingOver, Terminate
<1>6. CallerInv(h)'
    BY <1>1, <1>2 DEF ClosePinged, CallerInv, Unstarted, Awaits, IsOwner, FutureOf,
        TypeOK, procVars, callVars, restartVars, PingOver, Terminate
<1>7. Awaits(h)' => \/ Awaits(h) /\ call'[h].id = call[h].id
                    \/ call'[h].id = lastId[w] + 1
    BY <1>1 DEF ClosePinged, Awaits, TypeOK, procVars, callVars, restartVars, PingOver,
        Terminate
<1>8. QED  BY <1>2, <1>3, <1>4, <1>5, <1>6, <1>7, CallerStep

LEMMA CloseRaisesKeeps ==
    ASSUME BridgeInv, NEW h \in Callers, CloseRaises(h)
    PROVE  BridgeInv'
<1> DEFINE w == Uses[h]
<1>1. TypeOK /\ OpenIsPending /\ w \in Wrappers /\ CallerInv(h) /\ ProcessInv(w)
    BY UsesType DEF BridgeInv
<1>2. FuturesKept
  <2>1. call[h].id \in {0} \cup Ids
    BY <1>1 DEF TypeOK
  <2>2. /\ fut' = [fut EXCEPT ![w][call[h].id] = IF @ = "open" THEN "cancelled" ELSE @]
        /\ UNCHANGED <<lastId, pending>>
    BY DEF CloseRaises, PingOver
  <2>3. QED  BY <1>1, <2>1, <2>2, Cancelled
<1>3. TypeOK'
    BY <1>1, <1>2 DEF CloseRaises, TypeOK, PCs, procVars, restartVars, FuturesKept,
        FutureStates, PingOver, NoCall
<1>4. \A v \in Wrappers : ProcessInv(v)'
    BY <1>1 DEF CloseRaises, BridgeInv, ProcessInv, Restarting, procVars, callVars,
        restartVars, PingOver
<1>5. Others(h)
    BY <1>1, OthersFrame DEF CloseRaises, Same, TypeOK, procVars, callVars, restartVars,
        PingOver
<1>6. CallerInv(h)'
    BY <1>1, <1>2 DEF CloseRaises, CallerInv, Unstarted, Awaits, IsOwner, FutureOf,
        TypeOK, procVars, callVars, restartVars, PingOver
<1>7. Awaits(h)' => \/ Awaits(h) /\ call'[h].id = call[h].id
                    \/ call'[h].id = lastId[w] + 1
    BY <1>1 DEF CloseRaises, Awaits, TypeOK, procVars, callVars, restartVars, PingOver
<1>8. QED  BY <1>2, <1>3, <1>4, <1>5, <1>6, <1>7, CallerStep

LEMMA CloseKillKeeps ==
    ASSUME BridgeInv, NEW h \in Callers, CloseKill(h)
    PROVE  BridgeInv'
<1> DEFINE w == Uses[h]
<1>1. TypeOK /\ OpenIsPending /\ w \in Wrappers /\ CallerInv(h) /\ ProcessInv(w)
    BY UsesType DEF BridgeInv
<1>2. FuturesKept
    BY <1>1, SameFutures DEF CloseKill, procVars, callVars, restartVars
<1>3. TypeOK'
    BY <1>1, <1>2 DEF CloseKill, TypeOK, PCs, procVars, restartVars, FuturesKept,
        FutureStates, callVars
<1>4. \A v \in Wrappers : ProcessInv(v)'
    BY <1>1 DEF CloseKill, BridgeInv, ProcessInv, Restarting, procVars, callVars,
        restartVars
<1>5. Others(h)
    BY <1>1, OthersFrame DEF CloseKill, Same, TypeOK, procVars, callVars, restartVars
<1>6. CallerInv(h)'
    BY <1>1, <1>2 DEF CloseKill, CallerInv, Unstarted, Awaits, IsOwner, FutureOf,
        TypeOK, procVars, callVars, restartVars
<1>7. Awaits(h)' => \/ Awaits(h) /\ call'[h].id = call[h].id
                    \/ call'[h].id = lastId[w] + 1
    BY <1>1 DEF CloseKill, Awaits, TypeOK, procVars, callVars, restartVars
<1>8. QED  BY <1>2, <1>3, <1>4, <1>5, <1>6, <1>7, CallerStep

LEMMA CloseDoneKeeps ==
    ASSUME BridgeInv, NEW h \in Callers, CloseDone(h)
    PROVE  BridgeInv'
<1> DEFINE w == Uses[h]
<1>1. TypeOK /\ OpenIsPending /\ w \in Wrappers /\ CallerInv(h) /\ ProcessInv(w)
    BY UsesType DEF BridgeInv
<1>2. FuturesKept
    BY <1>1, ReaderEnded DEF CloseDone
<1>3. TypeOK'
    BY <1>1, <1>2 DEF CloseDone, TypeOK, PCs, procVars, restartVars, FuturesKept,
        FutureStates, ReaderEnds
<1>4. \A v \in Wrappers : ProcessInv(v)'
    BY <1>1 DEF CloseDone, BridgeInv, ProcessInv, Restarting, procVars, callVars,
        restartVars
<1>5. Others(h)
    BY <1>1, OthersFrame DEF CloseDone, Same, TypeOK, procVars, callVars, restartVars
<1>6. CallerInv(h)'
    BY <1>1, <1>2 DEF CloseDone, CallerInv, Unstarted, Awaits, IsOwner, FutureOf,
        TypeOK, procVars, callVars, restartVars
<1>7. Awaits(h)' => \/ Awaits(h) /\ call'[h].id = call[h].id
                    \/ call'[h].id = lastId[w] + 1
    BY <1>1 DEF CloseDone, Awaits, TypeOK, procVars, callVars, restartVars
<1>8. QED  BY <1>2, <1>3, <1>4, <1>5, <1>6, <1>7, CallerStep

LEMMA CloseNoProcessKeeps ==
    ASSUME BridgeInv, NEW h \in Callers, CloseNoProcess(h)
    PROVE  BridgeInv'
<1> DEFINE w == Uses[h]
<1>1. TypeOK /\ OpenIsPending /\ w \in Wrappers /\ CallerInv(h) /\ ProcessInv(w)
    BY UsesType DEF BridgeInv
<1>2. FuturesKept
    BY <1>1, ReaderEnded DEF CloseNoProcess
<1>3. TypeOK'
    BY <1>1, <1>2 DEF CloseNoProcess, TypeOK, PCs, procVars, restartVars, FuturesKept,
        FutureStates, ReaderEnds
<1>4. \A v \in Wrappers : ProcessInv(v)'
    BY <1>1 DEF CloseNoProcess, BridgeInv, ProcessInv, Restarting, procVars, callVars,
        restartVars
<1>5. Others(h)
    BY <1>1, OthersFrame DEF CloseNoProcess, Same, TypeOK, procVars, callVars,
        restartVars
<1>6. CallerInv(h)'
    BY <1>1, <1>2 DEF CloseNoProcess, CallerInv, Unstarted, Awaits, IsOwner, FutureOf,
        TypeOK, procVars, callVars, restartVars
<1>7. Awaits(h)' => \/ Awaits(h) /\ call'[h].id = call[h].id
                    \/ call'[h].id = lastId[w] + 1
    BY <1>1 DEF CloseNoProcess, Awaits, TypeOK, procVars, callVars, restartVars
<1>8. QED  BY <1>2, <1>3, <1>4, <1>5, <1>6, <1>7, CallerStep

-----------------------------------------------------------------------------
(* The actions of the wrappers. *)

LEMMA ReplyKeeps ==
    ASSUME BridgeInv, NEW w \in Wrappers, NEW i \in Ids,
           NEW kind \in {"result", "error"}, Reply(w, i, kind)
    PROVE  BridgeInv'
<1>1. TypeOK /\ OpenIsPending /\ ProcessInv(w)
    BY DEF BridgeInv
<1>2. FuturesKept
  <2>1. CASE i \notin pending[w]
    BY <1>1, <2>1, SameFutures DEF Reply, callVars
  <2>2. CASE i \in pending[w] /\ fut[w][i] = "open"
    <3>1. /\ pending' = [pending EXCEPT ![w] = pending[w] \ {i}]
          /\ fut' = [fut EXCEPT ![w] = [fut[w] EXCEPT ![i] = kind]]
          /\ lastId' = lastId
      BY <2>2 DEF Reply
    <3>2. fut[w] \in [Ids -> FutureStates] /\ kind \in FutureStates
      BY <1>1 DEF TypeOK, FutureStates
    <3>3. [fut[w] EXCEPT ![i] = kind] \in [Ids -> FutureStates]
      BY <3>2
    <3>4. fut' \in [Wrappers -> [Ids -> FutureStates]]
      BY <1>1, <3>1, <3>3 DEF TypeOK, FutureStates
    <3>5. \A v \in Wrappers, k \in Ids : fut'[v][k] = IF v = w /\ k = i THEN kind ELSE fut[v][k]
      BY <1>1, <3>1 DEF TypeOK
    <3>6. Futures
      BY <1>1, <3>1, <3>5, LastIdNat DEF Futures
    <3>7. OpenIsPending' /\ pending' \in [Wrappers -> SUBSET Ids]
      BY <1>1, <3>1, <3>5 DEF OpenIsPending, TypeOK
    <3>8. QED  BY <1>1, <3>1, <3>4, <3>6, <3>7 DEF FuturesKept, TypeOK
  <2>3. CASE i \in pending[w] /\ fut[w][i] # "open"
    BY <1>1, <2>3, ReaderEnded DEF Reply
  <2>4. QED  BY <2>1, <2>2, <2>3
<1>3. TypeOK'
    BY <1>1, <1>2 DEF Reply, TypeOK, PCs, procVars, restartVars, FuturesKept,
        FutureStates, ReaderEnds
<1>4. \A v \in Wrappers : ProcessInv(v)'
    BY <1>1 DEF Reply, BridgeInv, ProcessInv, Restarting, TypeOK, procVars, callVars,
        restartVars
<1>5. UNCHANGED <<pc, call>> /\ \A v \in Wrappers : proc'[v] = 0 <=> proc[v] = 0
    BY <1>1 DEF Reply, TypeOK, procVars, callVars, restartVars
<1>6. QED  BY <1>2, <1>3, <1>4, <1>5, WrapperStep

LEMMA NoiseKeeps ==
    ASSUME BridgeInv, NEW w \in Wrappers, Noise(w)
    PROVE  BridgeInv'
<1>1. TypeOK /\ OpenIsPending /\ ProcessInv(w)
    BY DEF BridgeInv
<1>2. FuturesKept
    BY <1>1, ReaderEnded DEF Noise
<1>3. TypeOK'
    BY <1>1, <1>2 DEF Noise, TypeOK, PCs, procVars, restartVars, FuturesKept,
        FutureStates, ReaderEnds
<1>4. \A v \in Wrappers : ProcessInv(v)'
    BY <1>1 DEF Noise, BridgeInv, ProcessInv, Restarting, TypeOK, procVars, callVars,
        restartVars
<1>5. UNCHANGED <<pc, call>> /\ \A v \in Wrappers : proc'[v] = 0 <=> proc[v] = 0
    BY <1>1 DEF Noise, TypeOK, procVars, callVars, restartVars
<1>6. QED  BY <1>2, <1>3, <1>4, <1>5, WrapperStep

LEMMA ExitKeeps ==
    ASSUME BridgeInv, NEW w \in Wrappers, Exit(w)
    PROVE  BridgeInv'
<1>1. TypeOK /\ OpenIsPending /\ ProcessInv(w)
    BY DEF BridgeInv
<1>2. FuturesKept
    BY <1>1, SameFutures DEF Exit, procVars, callVars, restartVars
<1>3. TypeOK'
    BY <1>1, <1>2 DEF Exit, TypeOK, PCs, procVars, restartVars, FuturesKept,
        FutureStates, callVars
<1>4. \A v \in Wrappers : ProcessInv(v)'
    BY <1>1 DEF Exit, BridgeInv, ProcessInv, Restarting, TypeOK, procVars, callVars,
        restartVars
<1>5. UNCHANGED <<pc, call>> /\ \A v \in Wrappers : proc'[v] = 0 <=> proc[v] = 0
    BY <1>1 DEF Exit, TypeOK, procVars, callVars, restartVars
<1>6. QED  BY <1>2, <1>3, <1>4, <1>5, WrapperStep

LEMMA EofKeeps ==
    ASSUME BridgeInv, NEW w \in Wrappers, Eof(w)
    PROVE  BridgeInv'
<1>1. TypeOK /\ OpenIsPending /\ ProcessInv(w)
    BY DEF BridgeInv
<1>2. FuturesKept
    BY <1>1, ReaderEnded DEF Eof
<1>3. TypeOK'
    BY <1>1, <1>2 DEF Eof, TypeOK, PCs, procVars, restartVars, FuturesKept,
        FutureStates, ReaderEnds
<1>4. \A v \in Wrappers : ProcessInv(v)'
    BY <1>1 DEF Eof, BridgeInv, ProcessInv, Restarting, TypeOK, procVars, callVars,
        restartVars
<1>5. UNCHANGED <<pc, call>> /\ \A v \in Wrappers : proc'[v] = 0 <=> proc[v] = 0
    BY <1>1 DEF Eof, TypeOK, procVars, callVars, restartVars
<1>6. QED  BY <1>2, <1>3, <1>4, <1>5, WrapperStep

LEMMA ReapKeeps ==
    ASSUME BridgeInv, NEW w \in Wrappers, Reap(w)
    PROVE  BridgeInv'
<1>1. TypeOK /\ OpenIsPending /\ ProcessInv(w)
    BY DEF BridgeInv
<1>2. FuturesKept
    BY <1>1, SameFutures DEF Reap, procVars, callVars, restartVars
<1>3. TypeOK'
    BY <1>1, <1>2 DEF Reap, TypeOK, PCs, procVars, restartVars, FuturesKept,
        FutureStates, callVars
<1>4. \A v \in Wrappers : ProcessInv(v)'
    BY <1>1 DEF Reap, BridgeInv, ProcessInv, Restarting, TypeOK, procVars, callVars,
        restartVars, HasProcess
<1>5. UNCHANGED <<pc, call>> /\ \A v \in Wrappers : proc'[v] = 0 <=> proc[v] = 0
    BY <1>1 DEF Reap, TypeOK, procVars, callVars, restartVars
<1>6. QED  BY <1>2, <1>3, <1>4, <1>5, WrapperStep

LEMMA RestartBeginKeeps ==
    ASSUME BridgeInv, NEW w \in Wrappers, RestartBegin(w)
    PROVE  BridgeInv'
<1>1. TypeOK /\ OpenIsPending /\ ProcessInv(w)
    BY DEF BridgeInv
<1>2. FuturesKept
    BY <1>1, SameFutures DEF RestartBegin, procVars, callVars, restartVars
<1>3. TypeOK'
    BY <1>1, <1>2 DEF RestartBegin, TypeOK, PCs, procVars, restartVars, FuturesKept,
        FutureStates, callVars, Kill, Due
<1>4. \A v \in Wrappers : ProcessInv(v)'
    BY <1>1 DEF RestartBegin, BridgeInv, ProcessInv, Restarting, TypeOK, procVars,
        callVars, restartVars, Kill, Due
<1>5. UNCHANGED <<pc, call>> /\ \A v \in Wrappers : proc'[v] = 0 <=> proc[v] = 0
    BY <1>1 DEF RestartBegin, TypeOK, procVars, callVars, restartVars
<1>6. QED  BY <1>2, <1>3, <1>4, <1>5, WrapperStep

LEMMA RestartClearKeeps ==
    ASSUME BridgeInv, NEW w \in Wrappers, RestartClear(w)
    PROVE  BridgeInv'
<1>1. TypeOK /\ OpenIsPending /\ ProcessInv(w)
    BY DEF BridgeInv
<1>2. FuturesKept
    BY <1>1, ReaderEnded DEF RestartClear
<1>3. TypeOK'
    BY <1>1, <1>2 DEF RestartClear, TypeOK, PCs, procVars, restartVars, FuturesKept,
        FutureStates, ReaderEnds
<1>4. \A v \in Wrappers : ProcessInv(v)'
    BY <1>1 DEF RestartClear, BridgeInv, ProcessInv, Restarting, TypeOK, procVars,
        callVars, restartVars
<1>5. UNCHANGED <<pc, call>> /\ \A v \in Wrappers : proc'[v] = 0 <=> proc[v] = 0
    BY <1>1 DEF RestartClear, TypeOK, procVars, callVars, restartVars
<1>6. QED  BY <1>2, <1>3, <1>4, <1>5, WrapperStep

LEMMA RestartCleanKeeps ==
    ASSUME BridgeInv, NEW w \in Wrappers, RestartClean(w)
    PROVE  BridgeInv'
<1>1. TypeOK /\ OpenIsPending /\ ProcessInv(w)
    BY DEF BridgeInv
<1>2. FuturesKept
    BY <1>1, SameFutures DEF RestartClean, procVars, callVars, restartVars
<1>3. TypeOK'
    BY <1>1, <1>2 DEF RestartClean, TypeOK, PCs, procVars, restartVars, FuturesKept,
        FutureStates, callVars, KillZombies
<1>4. \A v \in Wrappers : ProcessInv(v)'
    BY <1>1 DEF RestartClean, BridgeInv, ProcessInv, Restarting, TypeOK, procVars,
        callVars, restartVars, KillZombies
<1>5. UNCHANGED <<pc, call>> /\ \A v \in Wrappers : proc'[v] = 0 <=> proc[v] = 0
    BY <1>1 DEF RestartClean, TypeOK, procVars, callVars, restartVars
<1>6. QED  BY <1>2, <1>3, <1>4, <1>5, WrapperStep

LEMMA RestartSpawnKeeps ==
    ASSUME BridgeInv, NEW w \in Wrappers, RestartSpawn(w)
    PROVE  BridgeInv'
<1>1. TypeOK /\ OpenIsPending /\ ProcessInv(w)
    BY DEF BridgeInv
<1>2. FuturesKept
    BY <1>1, SameFutures DEF RestartSpawn, procVars, callVars, restartVars
<1>3. TypeOK'
    BY <1>1, <1>2 DEF RestartSpawn, TypeOK, PCs, procVars, restartVars, FuturesKept,
        FutureStates, callVars, NewProcess
<1>4. \A v \in Wrappers : ProcessInv(v)'
    BY <1>1 DEF RestartSpawn, BridgeInv, ProcessInv, Restarting, TypeOK, procVars,
        callVars, restartVars, NewProcess
<1>5. UNCHANGED <<pc, call>> /\ \A v \in Wrappers : proc'[v] = 0 <=> proc[v] = 0
  <2>1. proc[w] # 0 /\ proc[w] \in Nat
    BY <1>1 DEF RestartSpawn, ProcessInv, Restarting, TypeOK
  <2>2. proc' = [proc EXCEPT ![w] = proc[w] + 1]
    BY DEF RestartSpawn, NewProcess
  <2>3. QED  BY <1>1, <2>1, <2>2 DEF RestartSpawn, TypeOK
<1>6. QED  BY <1>2, <1>3, <1>4, <1>5, WrapperStep

LEMMA RestartFailsKeeps ==
    ASSUME BridgeInv, NEW w \in Wrappers, RestartFails(w)
    PROVE  BridgeInv'
<1>1. TypeOK /\ OpenIsPending /\ ProcessInv(w)
    BY DEF BridgeInv
<1>2. FuturesKept
    BY <1>1, SameFutures DEF RestartFails, procVars, callVars, restartVars
<1>3. TypeOK'
    BY <1>1, <1>2 DEF RestartFails, TypeOK, PCs, procVars, restartVars, FuturesKept,
        FutureStates, callVars
<1>4. \A v \in Wrappers : ProcessInv(v)'
    BY <1>1 DEF RestartFails, BridgeInv, ProcessInv, Restarting, TypeOK, procVars,
        callVars, restartVars
<1>5. UNCHANGED <<pc, call>> /\ \A v \in Wrappers : proc'[v] = 0 <=> proc[v] = 0
    BY <1>1 DEF RestartFails, TypeOK, procVars, callVars, restartVars
<1>6. QED  BY <1>2, <1>3, <1>4, <1>5, WrapperStep

-----------------------------------------------------------------------------
(* The theorems. *)

LEMMA InitEstablishes == Init => BridgeInv
<1> SUFFICES ASSUME Init PROVE BridgeInv
    OBVIOUS
<1>1. TypeOK
    BY IdsAreNat DEF Init, TypeOK, PCs, InitCall, NoCall
<1>2. (\A w \in Wrappers : ProcessInv(w)) /\ OpenIsPending
    BY DEF Init, ProcessInv, Restarting, OpenIsPending
<1>3. ASSUME NEW k \in Callers PROVE CallerInv(k) /\ ~Awaits(k)
    BY UsesType DEF Init, CallerInv, Unstarted, Awaits, IsOwner, InitCall, NoCall
<1>4. QED  BY <1>1, <1>2, <1>3 DEF BridgeInv, OwnId

LEMMA NextKeeps == BridgeInv /\ [Next]_vars => BridgeInv'
<1> SUFFICES ASSUME BridgeInv, [Next]_vars PROVE BridgeInv'
    OBVIOUS
<1>1. ASSUME NEW h \in Callers, Use(h) \/ Timeout(h) \/ Step(h) PROVE BridgeInv'
    BY <1>1,
       StartKeeps, RequestKeeps, BrokenPipeKeeps, ResumeKeeps, TimeoutKeeps,
       GiveUpKeeps, StartCleanKeeps, StartSpawnKeeps, StartFailsKeeps, ClosePingKeeps,
       CloseUnaskedKeeps, ClosePingedKeeps, CloseRaisesKeeps, CloseKillKeeps,
       CloseDoneKeeps, CloseNoProcessKeeps
       DEF Use, Step
<1>2. ASSUME NEW w \in Wrappers, Bridge(w) \/ Restart(w) PROVE BridgeInv'
    BY <1>2,
       ReplyKeeps, NoiseKeeps, ExitKeeps, EofKeeps, ReapKeeps, RestartBeginKeeps,
       RestartClearKeeps, RestartCleanKeeps, RestartSpawnKeeps, RestartFailsKeeps
       DEF Bridge, Restart
<1>3. ASSUME UNCHANGED vars PROVE BridgeInv'
    BY <1>3 DEF vars, procVars, callVars, restartVars, BridgeInv, TypeOK, ProcessInv,
        CallerInv, Unstarted, Awaits, IsOwner, FutureOf, Restarting, OwnId, OpenIsPending
<1>4. QED  BY <1>1, <1>2, <1>3 DEF Next

\* For every number of wrappers, coroutines, requests and restarts: the wrapper's
\* state is of its types, a wrapper that is being restarted or was seen to end has
\* no process left, and a call that is awaited has an id of its own.
THEOREM BridgeInvHolds == Spec => []BridgeInv
    BY InitEstablishes, NextKeeps, PTL DEF Spec

\* A wrapper never has two bridges, whatever its restarts, its close and the exits of
\* its bridge do to each other.
THEOREM OneBridgeHolds == Spec => []OneBridge
<1>1. BridgeInv => OneBridge
    BY DEF BridgeInv, ProcessInv, OneBridge
<1>2. QED  BY <1>1, BridgeInvHolds, PTL

\* Two calls in progress never share an id, across restarts as well: an answer is
\* given to the call that asked.
THEOREM OwnIdHolds == Spec => []OwnId
<1>1. BridgeInv => OwnId
    BY DEF BridgeInv
<1>2. QED  BY <1>1, BridgeInvHolds, PTL

\* A future that is not done is in _pending, so that an answer, the end of the
\* reader or a restart completes it.
THEOREM OpenIsPendingHolds == Spec => []OpenIsPending
<1>1. BridgeInv => OpenIsPending
    BY DEF BridgeInv
<1>2. QED  BY <1>1, BridgeInvHolds, PTL

-----------------------------------------------------------------------------
(* What is left in _pending. *)

Closing == {"terminating", "closed"}
Undone == {"open", "cancelled"}

\* A step of one coroutine leaves no request without its caller when it removes those it no
\* longer awaits, and adds only the one it awaits now.
LEMMA CallerLeavesNone ==
    ASSUME PendingInv, NEW h \in Callers, \A k \in Callers : k # h => Same(k),
           pc'[h] = "pinging" => IsOwner(h), pc[h] \in Closing => pc'[h] \in Closing,
           \A v \in Wrappers : \A i \in pending'[v] :
               /\ fut'[v][i] \in Undone
               /\ i \in pending[v] \/ (Uses[h] = v /\ Awaits(h)' /\ call'[h].id = i)
               /\ Uses[h] = v /\ Awaits(h) /\ call[h].id = i => Awaits(h)' /\ call'[h].id = i
    PROVE  PendingInv'
<1>1. \A k \in Callers : pc'[k] = "pinging" => IsOwner(k)
    BY DEF PendingInv, Same
<1>2. ASSUME NEW v \in Wrappers PROVE LeftPending(v)' \subseteq LeftPending(v)
  <2> SUFFICES ASSUME NEW i \in LeftPending(v)' PROVE i \in LeftPending(v)
      OBVIOUS
  <2>1. i \in pending'[v] /\ ~ \E k \in Callers : Uses[k] = v /\ Awaits(k)' /\ call'[k].id = i
      BY DEF LeftPending
  <2>2. i \in pending[v]
      BY <2>1
  <2>3. ASSUME NEW k \in Callers, Uses[k] = v, Awaits(k), call[k].id = i PROVE FALSE
    <3>1. CASE k = h
        BY <2>1, <2>3, <3>1
    <3>2. CASE k # h
        BY <2>1, <2>3, <3>2 DEF Same, Awaits
    <3>3. QED
        BY <3>1, <3>2
  <2>4. QED
      BY <2>2, <2>3 DEF LeftPending
<1>3. \A k \in Callers : pc[k] \in Closing => pc'[k] \in Closing
    BY DEF Same
<1>4. \A v \in Wrappers : Owner[v] \in Callers
    BY BridgeAssumption
<1>5. ASSUME NEW v \in Wrappers
      PROVE  /\ \A i \in pending'[v] : fut'[v][i] \in Undone
             /\ LeftPending(v)' # {} => pc'[Owner[v]] \in Closing
             /\ \A i, j \in LeftPending(v)' : i = j
    BY <1>2, <1>3, <1>4 DEF PendingInv, Closing
<1>6. QED
    BY <1>1, <1>5 DEF PendingInv, IsOwner, Closing, Undone

\* The reader's end, an answer and a restart only take requests out.
LEMMA WrapperLeavesNone ==
    ASSUME PendingInv, UNCHANGED <<pc, call>>,
           \A v \in Wrappers : \A i \in pending'[v] : i \in pending[v] /\ fut'[v][i] \in Undone
    PROVE  PendingInv'
<1>1. \A v \in Wrappers : LeftPending(v)' \subseteq LeftPending(v)
    BY DEF LeftPending, Awaits
<1>2. QED
    BY <1>1 DEF PendingInv, IsOwner, Undone

\* What the end of the reader leaves in _pending is of the other wrappers.
LEMMA EndedLeaves ==
    ASSUME TypeOK, PendingInv, NEW w \in Wrappers, ReaderEnds(w)
    PROVE  \A v \in Wrappers : \A i \in pending'[v] :
               v # w /\ i \in pending[v] /\ fut'[v][i] \in Undone
<1>1. pending' = [pending EXCEPT ![w] = {}] /\ \A v \in Wrappers : v # w => fut'[v] = fut[v]
    BY DEF ReaderEnds, FailPending, TypeOK
<1>2. QED
    BY <1>1 DEF TypeOK, PendingInv, Undone

LEMMA RegisteredLeaves ==
    ASSUME BridgeInv, PendingInv, NEW h \in Callers, NEW m \in {"init", "request", "close"},
           lastId[Uses[h]] < MaxCalls, Register(h, Uses[h], m), Awaits(h)', ~ Awaits(h)
    PROVE  \A v \in Wrappers : \A i \in pending'[v] :
               /\ fut'[v][i] \in Undone
               /\ i \in pending[v] \/ (Uses[h] = v /\ Awaits(h)' /\ call'[h].id = i)
<1>1. PICK w \in Wrappers : w = Uses[h]
    BY UsesType
<1>2. PICK n \in Ids : n = lastId[w] + 1 /\ call'[h].id = n
  <2>1. TypeOK /\ OpenIsPending /\ Register(h, w, m) /\ lastId[w] < MaxCalls
      BY <1>1 DEF BridgeInv
  <2>2. lastId[w] + 1 \in Ids /\ call'[h] = [method |-> m, id |-> lastId[w] + 1]
      BY <2>1, Registered
  <2>3. QED
      BY <2>2
<1>3. /\ pending' = [pending EXCEPT ![w] = pending[w] \cup {n}]
      /\ fut' = [fut EXCEPT ![w] = [fut[w] EXCEPT ![n] = "open"]]
    BY <1>1, <1>2 DEF Register, NewId
<1>4. \A v \in Wrappers, i \in Ids : fut'[v][i] = IF v = w /\ i = n THEN "open" ELSE fut[v][i]
    BY <1>3 DEF BridgeInv, TypeOK
<1>5. \A v \in Wrappers : \A i \in pending'[v] : i \in Ids /\ (i \in pending[v] \/ (v = w /\ i = n))
    BY <1>3 DEF BridgeInv, TypeOK
<1>6. ASSUME NEW v \in Wrappers, NEW i \in pending'[v] PROVE fut'[v][i] \in Undone
  <2>1. CASE v = w /\ i = n
      BY <1>4, <2>1 DEF Undone
  <2>2. CASE ~ (v = w /\ i = n)
    <3>1. i \in pending[v] /\ i \in Ids
        BY <1>5, <1>6, <2>2
    <3>2. fut'[v][i] = fut[v][i]
        BY <1>4, <2>2, <3>1
    <3>3. QED
        BY <3>1, <3>2 DEF PendingInv, Undone
  <2>3. QED
      BY <2>1, <2>2
<1>7. ASSUME NEW v \in Wrappers, NEW i \in pending'[v]
      PROVE  i \in pending[v] \/ (Uses[h] = v /\ Awaits(h)' /\ call'[h].id = i)
    BY <1>1, <1>2, <1>5, <1>7
<1>8. QED
    BY <1>6, <1>7

LEMMA RegistersLeaveNone ==
    ASSUME BridgeInv, PendingInv, NEW h \in Callers,
           Request(h) \/ StartSpawn(h) \/ ClosePing(h)
    PROVE  PendingInv'
<1>1. PICK m \in {"init", "request", "close"} :
          Register(h, Uses[h], m) /\ lastId[Uses[h]] < MaxCalls
    BY DEF Request, StartSpawn, ClosePing, MayCall
<1>2. /\ pc[h] \in {"idle", "spawning"} /\ pc'[h] \in {"waiting", "pinging"}
      /\ pc'[h] = "pinging" => IsOwner(h)
    BY DEF Request, StartSpawn, ClosePing, BridgeInv, TypeOK
<1>3. Awaits(h)' /\ ~ Awaits(h)
    BY <1>2 DEF Awaits
<1>4. \A k \in Callers : k # h => Same(k)
    BY <1>1 DEF Request, StartSpawn, ClosePing, Register, Same, BridgeInv, TypeOK
<1>5. \A v \in Wrappers : \A i \in pending'[v] :
          /\ fut'[v][i] \in Undone
          /\ i \in pending[v] \/ (Uses[h] = v /\ Awaits(h)' /\ call'[h].id = i)
    BY <1>1, <1>3, RegisteredLeaves
<1>6. pc[h] \notin Closing
    BY <1>2 DEF Closing
<1>7. QED
    BY <1>2, <1>3, <1>4, <1>5, <1>6, CallerLeavesNone

\* A call whose future is done, or that timed out, is not pending when it returns.
LEMMA ReturnsLeaveNone ==
    ASSUME BridgeInv, PendingInv, NEW h \in Callers, Resume(h) \/ GiveUp(h)
    PROVE  PendingInv'
<1>1. PICK ok \in BOOLEAN : Returned(h, ok)
    BY DEF Resume, GiveUp
<1>2. /\ \A k \in Callers : k # h => Same(k)
      /\ pc[h] \in {"waiting", "timedout"} /\ pc'[h] \in {"idle", "failed"}
    BY <1>1 DEF Resume, GiveUp, Returned, Same, BridgeInv, TypeOK
<1>3. PICK w \in Wrappers : w = Uses[h]
    BY UsesType
<1>4. \A v \in Wrappers : pending'[v] \subseteq pending[v] /\ fut'[v] = fut[v]
  <2>1. CASE Resume(h)
      BY <2>1 DEF Resume, callVars
  <2>2. CASE GiveUp(h)
      BY <2>2 DEF GiveUp, Forget, BridgeInv, TypeOK
  <2>3. QED
      BY <2>1, <2>2
<1>5. call[h].id \notin pending'[w]
  <2>1. CASE Resume(h)
      BY <1>3, <2>1 DEF Resume, FutureOf, callVars, PendingInv
  <2>2. CASE GiveUp(h)
      BY <1>3, <2>2 DEF GiveUp, Forget, BridgeInv, TypeOK
  <2>3. QED
      BY <2>1, <2>2
<1>6. \A v \in Wrappers : \A i \in pending'[v] :
          /\ fut'[v][i] \in Undone /\ i \in pending[v]
          /\ ~ (Uses[h] = v /\ Awaits(h) /\ call[h].id = i)
    BY <1>3, <1>4, <1>5 DEF PendingInv, Undone
<1>7. QED
    BY <1>2, <1>6, CallerLeavesNone DEF Closing

LEMMA TimeoutLeavesNone ==
    ASSUME BridgeInv, PendingInv, NEW h \in Callers, Timeout(h)
    PROVE  PendingInv'
<1>1. /\ \A k \in Callers : Same(k) \/ k = h
      /\ pc[h] = "waiting" /\ pc'[h] = "timedout" /\ call' = call /\ pending' = pending
    BY DEF Timeout, Same, BridgeInv, TypeOK
<1>2. \A v \in Wrappers, i \in Ids : fut'[v][i] = fut[v][i] \/ fut'[v][i] = "cancelled"
  <2>1. PICK w \in Wrappers : w = Uses[h]
      BY UsesType
  <2>2. fut' = [fut EXCEPT ![w] = [fut[w] EXCEPT ![call[h].id] =
                    IF fut[w][call[h].id] = "open" THEN "cancelled" ELSE fut[w][call[h].id]]]
      BY <2>1 DEF Timeout
  <2>3. QED
      BY <2>2 DEF BridgeInv, TypeOK
<1>3. \A v \in Wrappers : \A i \in pending'[v] : fut'[v][i] \in Undone
    BY <1>1, <1>2 DEF PendingInv, Undone, BridgeInv, TypeOK
<1>4. QED
    BY <1>1, <1>3, CallerLeavesNone DEF Closing, Awaits

\* A close that is over has left at most the request of its ping.
LEMMA PingLeavesOne ==
    ASSUME BridgeInv, PendingInv, NEW h \in Callers, ClosePinged(h) \/ CloseRaises(h)
    PROVE  PendingInv'
<1>1. /\ \A k \in Callers : k # h => Same(k)
      /\ pc[h] = "pinging" /\ pc'[h] \in Closing /\ pending' = pending
    BY DEF ClosePinged, CloseRaises, PingOver, Terminate, Closing, Same, BridgeInv, TypeOK
<1>2. PICK w \in Wrappers : w = Uses[h]
    BY UsesType
<1>3. Owner[w] = h /\ \A v \in Wrappers : v # w => Owner[v] # h
    BY <1>1, <1>2, BridgeAssumption DEF PendingInv, IsOwner
<1>4. \A v \in Wrappers, i \in Ids : fut'[v][i] = fut[v][i] \/ fut'[v][i] = "cancelled"
  <2>1. fut' = [fut EXCEPT ![w] = [fut[w] EXCEPT ![call[h].id] =
                    IF fut[w][call[h].id] = "open" THEN "cancelled" ELSE fut[w][call[h].id]]]
      BY <1>2 DEF ClosePinged, CloseRaises, PingOver
  <2>2. QED
      BY <2>1 DEF BridgeInv, TypeOK
<1>5. \A v \in Wrappers : \A i \in pending'[v] : fut'[v][i] \in Undone
    BY <1>1, <1>4 DEF PendingInv, Undone, BridgeInv, TypeOK
<1>6. LeftPending(w) = {}
    BY <1>1, <1>3 DEF PendingInv
<1>7. \A i \in LeftPending(w)' : i = call[h].id
  <2> SUFFICES ASSUME NEW i \in LeftPending(w)', i # call[h].id PROVE FALSE
      OBVIOUS
  <2>1. i \in pending[w]
      BY <1>1 DEF LeftPending
  <2>2. PICK k \in Callers : Uses[k] = w /\ Awaits(k) /\ call[k].id = i
      BY <1>6, <2>1 DEF LeftPending
  <2>3. k # h
      BY <2>2
  <2>4. QED
      BY <1>1, <2>2, <2>3 DEF LeftPending, Same, Awaits
<1>8. ASSUME NEW v \in Wrappers, v # w PROVE LeftPending(v)' = LeftPending(v)
  <2>1. \A k \in Callers : Uses[k] = v => Same(k)
      BY <1>1, <1>2, <1>8
  <2>2. QED
      BY <1>1, <2>1 DEF LeftPending, Same, Awaits
<1>9. \A v \in Wrappers : /\ LeftPending(v)' # {} => pc'[Owner[v]] \in Closing
                          /\ \A i, j \in LeftPending(v)' : i = j
  <2> SUFFICES ASSUME NEW v \in Wrappers
               PROVE  /\ LeftPending(v)' # {} => pc'[Owner[v]] \in Closing
                      /\ \A i, j \in LeftPending(v)' : i = j
      OBVIOUS
  <2>1. CASE v = w
      BY <1>1, <1>3, <1>7, <2>1
  <2>2. CASE v # w
    <3>1. Owner[v] \in Callers /\ pc'[Owner[v]] = pc[Owner[v]]
        BY <1>1, <1>3, <2>2, BridgeAssumption DEF Same
    <3>2. QED
        BY <1>8, <2>2, <3>1 DEF PendingInv, Closing
  <2>3. QED
      BY <2>1, <2>2
<1>10. \A k \in Callers : pc'[k] = "pinging" => IsOwner(k)
    BY <1>1 DEF Same, Closing, PendingInv
<1>11. QED
    BY <1>5, <1>9, <1>10 DEF PendingInv, Undone, Closing, IsOwner

LEMMA ClosesLeaveNone ==
    ASSUME BridgeInv, PendingInv, NEW h \in Callers, CloseDone(h) \/ CloseNoProcess(h)
    PROVE  PendingInv'
<1>1. /\ \A k \in Callers : k # h => Same(k)
      /\ pc[h] \in {"idle", "terminating"} /\ pc'[h] = "closed"
    BY DEF CloseDone, CloseNoProcess, Same, BridgeInv, TypeOK
<1>2. \A v \in Wrappers : \A i \in pending'[v] : i \in pending[v] /\ fut'[v][i] \in Undone
    BY UsesType, EndedLeaves DEF CloseDone, CloseNoProcess, BridgeInv
<1>3. pc'[h] # "pinging" /\ pc'[h] \in Closing /\ ~ Awaits(h)
    BY <1>1 DEF Closing, Awaits
<1>4. QED
    BY <1>1, <1>2, <1>3, CallerLeavesNone

\* The steps of a coroutine that do not touch the requests.
LEMMA QuietStepsLeaveNone ==
    ASSUME BridgeInv, PendingInv, NEW h \in Callers,
           \/ Start(h) \/ StartClean(h) \/ StartFails(h) \/ BrokenPipe(h)
           \/ CloseUnasked(h) \/ CloseKill(h)
    PROVE  PendingInv'
<1>1. /\ UNCHANGED <<call, pending, fut>>
      /\ \/ UNCHANGED pc
         \/ /\ \A k \in Callers : k # h => pc'[k] = pc[k]
            /\ pc[h] \in {"idle", "cleaning", "spawning"}
            /\ pc'[h] \in {"cleaning", "spawning", "failed", "terminating"}
    BY DEF Start, StartClean, StartFails, BrokenPipe, CloseUnasked, CloseKill, Terminate,
        callVars, BridgeInv, TypeOK
<1>2. \A v \in Wrappers : \A i \in pending'[v] : i \in pending[v] /\ fut'[v][i] \in Undone
    BY <1>1 DEF PendingInv, Undone
<1>3. CASE UNCHANGED pc
    BY <1>1, <1>2, <1>3, WrapperLeavesNone
<1>4. CASE ~ UNCHANGED pc
  <2>1. \A k \in Callers : k # h => Same(k)
      BY <1>1, <1>4 DEF Same
  <2>2. pc'[h] # "pinging" /\ pc[h] \notin Closing /\ ~ Awaits(h)
      BY <1>1, <1>4 DEF Closing, Awaits
  <2>3. QED
      BY <1>2, <2>1, <2>2, CallerLeavesNone
<1>5. QED
    BY <1>3, <1>4

LEMMA ReplyLeavesNone ==
    ASSUME BridgeInv, PendingInv, NEW w \in Wrappers, NEW i \in Ids,
           NEW kind \in {"result", "error"}, Reply(w, i, kind)
    PROVE  PendingInv'
<1>1. UNCHANGED <<pc, call>>
    BY DEF Reply
<1>2. \A v \in Wrappers : \A k \in pending'[v] : k \in pending[v] /\ fut'[v][k] \in Undone
  <2>1. CASE i \notin pending[w]
    <3>1. UNCHANGED <<pending, fut>>
        BY <2>1 DEF Reply
    <3>2. QED
        BY <3>1 DEF PendingInv, Undone
  <2>2. CASE i \in pending[w] /\ fut[w][i] = "open"
    <3>1. /\ pending' = [pending EXCEPT ![w] = pending[w] \ {i}]
          /\ fut' = [fut EXCEPT ![w] = [fut[w] EXCEPT ![i] = kind]]
        BY <2>2 DEF Reply
    <3>2. \A v \in Wrappers : \A k \in pending'[v] :
              k \in pending[v] /\ k \in Ids /\ ~ (v = w /\ k = i)
        BY <3>1 DEF BridgeInv, TypeOK
    <3>3. \A v \in Wrappers, k \in Ids : ~ (v = w /\ k = i) => fut'[v][k] = fut[v][k]
        BY <3>1 DEF BridgeInv, TypeOK
    <3>4. QED
        BY <3>2, <3>3 DEF PendingInv, Undone
  <2>3. CASE i \in pending[w] /\ fut[w][i] # "open"
    <3>1. ReaderEnds(w)
        BY <2>3 DEF Reply
    <3>2. QED
        BY <3>1, EndedLeaves DEF BridgeInv
  <2>4. QED
      BY <2>1, <2>2, <2>3
<1>3. QED
    BY <1>1, <1>2, WrapperLeavesNone

LEMMA WrappersLeaveNone ==
    ASSUME BridgeInv, PendingInv, NEW w \in Wrappers,
           Noise(w) \/ Exit(w) \/ Eof(w) \/ Reap(w) \/ Restart(w)
    PROVE  PendingInv'
<1>1. UNCHANGED <<pc, call>>
    BY DEF Noise, Exit, Eof, Reap, Restart, RestartBegin, RestartClear, RestartClean,
        RestartSpawn, RestartFails
<1>2. ReaderEnds(w) \/ UNCHANGED <<pending, fut>>
    BY DEF Noise, Exit, Eof, Reap, Restart, RestartBegin, RestartClear, RestartClean,
        RestartSpawn, RestartFails, callVars
<1>3. \A v \in Wrappers : \A i \in pending'[v] : i \in pending[v] /\ fut'[v][i] \in Undone
  <2>1. CASE ReaderEnds(w)
      BY <2>1, EndedLeaves DEF BridgeInv
  <2>2. CASE UNCHANGED <<pending, fut>>
      BY <2>2 DEF PendingInv, Undone
  <2>3. QED
      BY <1>2, <2>1, <2>2
<1>4. QED
    BY <1>1, <1>3, WrapperLeavesNone

LEMMA NextLeaves == BridgeInv /\ PendingInv /\ [Next]_vars => PendingInv'
<1> SUFFICES ASSUME BridgeInv, PendingInv, [Next]_vars PROVE PendingInv'
    OBVIOUS
<1>1. ASSUME NEW h \in Callers, Use(h) \/ Timeout(h) \/ Step(h) PROVE PendingInv'
    BY <1>1, RegistersLeaveNone, ReturnsLeaveNone, TimeoutLeavesNone, PingLeavesOne,
       ClosesLeaveNone, QuietStepsLeaveNone
       DEF Use, Step
<1>2. ASSUME NEW w \in Wrappers, Bridge(w) \/ Restart(w) PROVE PendingInv'
    BY <1>2, ReplyLeavesNone, WrappersLeaveNone DEF Bridge
<1>3. ASSUME UNCHANGED vars PROVE PendingInv'
  <2>1. UNCHANGED <<pc, call>> /\ UNCHANGED <<pending, fut>>
      BY <1>3 DEF vars, callVars
  <2>2. QED
      BY <2>1, WrapperLeavesNone DEF PendingInv, Undone
<1>4. QED
    BY <1>1, <1>2, <1>3 DEF Next

\* _pending holds the requests that are awaited and nothing else but the request of a close
\* that was over first: timeouts, errors, the reader's ends and restarts leak none.
THEOREM PendingIsAwaitedHolds == Spec => []PendingIsAwaited
<1>1. Init => PendingInv
    BY DEF Init, PendingInv, LeftPending
<1>2. PendingInv => PendingIsAwaited
  <2> SUFFICES ASSUME PendingInv, NEW w \in Wrappers
               PROVE  Cardinality(LeftPending(w))
                          <= (IF pc[Owner[w]] \in {"terminating", "closed"} THEN 1 ELSE 0)
      BY DEF PendingIsAwaited
  <2>1. CASE LeftPending(w) = {}
      BY <2>1, FS_EmptySet
  <2>2. CASE LeftPending(w) # {}
    <3>1. PICK i \in LeftPending(w) : LeftPending(w) = {i}
        BY <2>2 DEF PendingInv
    <3>2. Cardinality(LeftPending(w)) = 1
        BY <3>1, FS_Singleton
    <3>3. QED
        BY <2>2, <3>2 DEF PendingInv
  <2>3. QED
      BY <2>1, <2>2
<1>3. QED
    BY <1>1, <1>2, NextLeaves, BridgeInvHolds, PTL DEF Spec

\* While a restart replaces the bridge no request is written, for any number of callers: a
\* start is over before, and every other request asks first.
THEOREM QuietRestartHolds == Spec => QuietRestart
<1>1. ASSUME BridgeInv, [Next]_vars, NEW w \in Wrappers, Restarting(w)
      PROVE  lastId'[w] = lastId[w]
  <2>1. ASSUME NEW h \in Callers, Request(h) \/ BrokenPipe(h) \/ ClosePing(h) \/ StartSpawn(h)
        PROVE  lastId'[w] = lastId[w]
    <3>1. PICK v \in Wrappers : v = Uses[h]
        BY UsesType
    <3>2. ~ Restarting(v)
      <4>1. CASE Request(h) \/ BrokenPipe(h) \/ ClosePing(h)
          BY <3>1, <4>1 DEF Request, BrokenPipe, ClosePing, MayCall
      <4>2. CASE StartSpawn(h)
        <5>1. Unstarted(h)
            BY <4>2 DEF StartSpawn, Unstarted
        <5>2. proc[v] = 0
            BY <1>1, <3>1, <5>1 DEF BridgeInv, CallerInv
        <5>3. QED
            BY <1>1, <5>2 DEF BridgeInv, ProcessInv
      <4>3. QED
          BY <2>1, <4>1, <4>2
    <3>3. lastId' = [lastId EXCEPT ![v] = NewId(v)]
        BY <2>1, <3>1 DEF Request, BrokenPipe, ClosePing, StartSpawn, Register
    <3>4. v # w
        BY <1>1, <3>2
    <3>5. QED
        BY <1>1, <3>3, <3>4 DEF BridgeInv, TypeOK
  <2>2. ASSUME NEW h \in Callers, Use(h) \/ Timeout(h) \/ Step(h) PROVE lastId'[w] = lastId[w]
    <3>1. \/ Request(h) \/ BrokenPipe(h) \/ ClosePing(h) \/ StartSpawn(h)
          \/ UNCHANGED lastId
        BY <2>2 DEF Use, Step, Timeout, Start, CloseUnasked, CloseNoProcess, StartClean,
            StartFails, Resume, GiveUp, ClosePinged, CloseRaises, PingOver, CloseKill,
            CloseDone, callVars
    <3>2. QED
        BY <2>1, <3>1
  <2>3. ASSUME NEW v \in Wrappers, Bridge(v) \/ Restart(v) PROVE UNCHANGED lastId
      BY <2>3 DEF Bridge, Restart, Reply, Noise, Exit, Eof, Reap, RestartBegin, RestartClear,
          RestartClean, RestartSpawn, RestartFails, callVars
  <2>4. CASE UNCHANGED vars
      BY <2>4 DEF vars, callVars
  <2>5. QED
      BY <1>1, <2>2, <2>3, <2>4 DEF Next
<1>2. BridgeInv /\ [Next]_vars =>
          [\A w \in Wrappers : Restarting(w) => lastId'[w] = lastId[w]]_vars
    BY <1>1
<1>3. QED
    BY <1>2, BridgeInvHolds, PTL DEF Spec, QuietRestart

=============================================================================
