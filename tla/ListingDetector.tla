-------------------------- MODULE ListingDetector ---------------------------
(***************************************************************************)
(* ListingDetector: one polling loop per exchange reads the page of        *)
(* notices, remembers each, and emits an event for those that announce a   *)
(* listing: history file, the file of seen ids, the operator's message,    *)
(* the listeners.  The process may die anywhere and be started again.      *)
(***************************************************************************)
EXTENDS Integers, FiniteSets

CONSTANTS
    Exchanges,    \* those whose loop runs
    Notices,
    Page,         \* Page[x]: the notices x publishes
    Listings,     \* the notices whose title names a ticker
    SeenCap,      \* _SEEN_HARD_CAP
    Tears,        \* may the process die, or the disk be full, while the file is written?
    MaxCrashes    \* bound: restarts

ASSUME DetectorAssumption ==
    /\ Page \in [Exchanges -> SUBSET Notices]
    /\ \A x, y \in Exchanges : x # y => Page[x] \cap Page[y] = {}
    /\ Listings \subseteq Notices
    /\ SeenCap \in Nat /\ MaxCrashes \in Nat
    /\ Tears \in BOOLEAN

VARIABLES
    published,  \* the notices on the pages
    up,         \* _running
    seen,       \* _seen_ids
    disk,       \* the ids _load_seen would read: none from no file, or from a torn one
    items,      \* items[x]: the notices of the answer that x's loop has still to look at
    emitting,   \* emitting[x]: the notice whose _notify is awaited, as a set
    announced,  \* announced[n]: the events of n the listeners have had
    torn,       \* history: the file was truncated
    lost,       \* history: the notices whose event died with the process
    crashes

loopVars == <<items, emitting>>
history == <<torn, lost, crashes>>
vars == <<published, up, seen, disk, loopVars, announced, history>>

Feed == INSTANCE ListingFeed

-----------------------------------------------------------------------------
Init ==
    /\ published = {} /\ up = TRUE
    /\ seen = {} /\ disk = {}
    /\ items = [x \in Exchanges |-> {}]
    /\ emitting = [x \in Exchanges |-> {}]
    /\ announced = [n \in Listings |-> 0]
    /\ torn = FALSE /\ lost = {} /\ crashes = 0

\* An exchange publishes a notice.
Publish(x) ==
    /\ \E n \in Page[x] \ published : published' = published \cup {n}
    /\ UNCHANGED <<up, seen, disk, loopVars, announced, history>>

\* The GET of a poll is answered; a failed one, a 403 or a 429 leaves all as it was.
Fetch(x) ==
    /\ up /\ items[x] = {} /\ emitting[x] = {}
    /\ items' = [items EXCEPT ![x] = published \cap Page[x]]
    /\ UNCHANGED <<published, up, seen, disk, emitting, announced, history>>

\* What _remember_seen may leave: over the cap, a quarter of it goes, and set.pop picks.
Remembered(n) ==
    LET all == seen \cup {n}
    IN  IF Cardinality(all) <= SeenCap THEN {all}
        ELSE {s \in SUBSET all : Cardinality(s) = Cardinality(all) - SeenCap \div 4}

\* A notice seen before is passed over; another title than a listing's is remembered.
Pass(x, n) ==
    /\ up /\ emitting[x] = {} /\ n \in items[x]
    /\ items' = [items EXCEPT ![x] = @ \ {n}]
    /\ \/ n \in seen /\ UNCHANGED seen
       \/ n \notin seen \cup Listings /\ seen' \in Remembered(n)
    /\ UNCHANGED <<published, up, disk, emitting, announced, history>>

\* x's loop has come to a listing it has not seen.
Finds(x, n) == up /\ emitting[x] = {} /\ n \in items[x] \cap (Listings \ seen)

\* Mutant of Emit: the ids are saved before this one is among them.
EmitUnsaved(x, n) ==
    /\ Finds(x, n)
    /\ items' = [items EXCEPT ![x] = @ \ {n}]
    /\ seen' \in Remembered(n)
    /\ \/ disk' = seen /\ UNCHANGED torn
       \/ Tears /\ disk' = {} /\ torn' = TRUE
    /\ emitting' = [emitting EXCEPT ![x] = {n}]
    /\ UNCHANGED <<published, up, announced, lost, crashes>>

\* It is remembered, appended to the history and saved with all that is seen, with no
\* await between (a full disk leaves the file empty, and nobody is told); then the
\* operator's message is awaited.
Emit(x, n) ==
    /\ Finds(x, n)
    /\ items' = [items EXCEPT ![x] = @ \ {n}]
    /\ seen' \in Remembered(n)
    /\ \/ disk' = seen' /\ UNCHANGED torn
       \/ Tears /\ disk' = {} /\ torn' = TRUE
    /\ emitting' = [emitting EXCEPT ![x] = {n}]
    /\ UNCHANGED <<published, up, announced, lost, crashes>>

\* Mutant of Dispatch: the listeners are called only when the message was sent.
DispatchIfSent(x) ==
    /\ up /\ emitting[x] # {}
    /\ announced' \in {announced, [n \in Listings |-> IF n \in emitting[x] THEN announced[n] + 1
                                                                          ELSE announced[n]]}
    /\ emitting' = [emitting EXCEPT ![x] = {}]
    /\ UNCHANGED <<published, up, seen, disk, items, history>>

\* _notify is back, sent or not: _dispatch_listeners makes a task for each listener.
Dispatch(x) ==
    /\ up /\ emitting[x] # {}
    /\ announced' = [n \in Listings |-> IF n \in emitting[x] THEN announced[n] + 1
                                                            ELSE announced[n]]
    /\ emitting' = [emitting EXCEPT ![x] = {}]
    /\ UNCHANGED <<published, up, seen, disk, items, history>>

\* The process dies, or stop cancels the loops: an event whose message is awaited is gone.
\* It may die while the file is open for writing.
Crash ==
    /\ up /\ crashes < MaxCrashes
    /\ up' = FALSE /\ crashes' = crashes + 1
    /\ seen' = {}
    /\ items' = [x \in Exchanges |-> {}]
    /\ emitting' = [x \in Exchanges |-> {}]
    /\ lost' = lost \cup UNION {emitting[x] : x \in Exchanges}
    /\ \/ UNCHANGED <<disk, torn>>
       \/ Tears /\ (\E x \in Exchanges, n \in Notices : Finds(x, n))
                /\ disk' = {} /\ torn' = TRUE
    /\ UNCHANGED <<published, announced>>

\* Mutant of Restart: the file is not read.
RestartBlank ==
    /\ ~up /\ up' = TRUE
    /\ seen' = {}
    /\ UNCHANGED <<published, disk, loopVars, announced, history>>

\* start reads the file before it makes the loops.
Restart ==
    /\ ~up /\ up' = TRUE
    /\ seen' = disk
    /\ UNCHANGED <<published, disk, loopVars, announced, history>>

Reads(x) == \E n \in Notices : Pass(x, n) \/ Emit(x, n)

Next ==
    \/ \E x \in Exchanges : Publish(x) \/ Fetch(x) \/ Reads(x) \/ Dispatch(x)
    \/ Crash \/ Restart

Spec == Init /\ [][Next]_vars

\* A loop goes on until it is cancelled; the telegram client has a timeout.
Fairness == \A x \in Exchanges : WF_vars(Fetch(x)) /\ WF_vars(Reads(x)) /\ WF_vars(Dispatch(x))

FairSpec == Spec /\ Fairness

-----------------------------------------------------------------------------
(* Properties *)

\* Every variable has its type.
TypeOK ==
    /\ published \subseteq Notices /\ seen \subseteq Notices /\ disk \subseteq Notices
    /\ up \in BOOLEAN /\ torn \in BOOLEAN
    /\ items \in [Exchanges -> SUBSET Notices]
    /\ emitting \in [Exchanges -> SUBSET Listings]
    /\ announced \in [Listings -> Nat]
    /\ lost \subseteq Listings /\ crashes \in 0..MaxCrashes

\* While the file is whole, an event that is being emitted or has been is in the file
\* and, while the process is up, in the set of seen ids; no two loops emit the same.
SavedBeforeSent == ~torn =>
    \A n \in Listings :
        LET held == {x \in Exchanges : n \in emitting[x]}
        IN  /\ announced[n] > 0 \/ held # {} => n \in disk
            /\ announced[n] <= 1 /\ (announced[n] = 1 => held = {})
            /\ \A x, y \in held : x = y

\* With it: what was saved is still seen, and a loop handles notices of its own page, one
\* at a time.
DetectorInv ==
    /\ TypeOK /\ SavedBeforeSent
    /\ up /\ ~torn => disk \subseteq seen
    /\ \A x \in Exchanges : items[x] \cup emitting[x] \subseteq Page[x]
    /\ \A x \in Exchanges : \A n, m \in emitting[x] : n = m

\* The detector keeps its promise: no notice is announced twice, whatever crashes and
\* restarts, until the file of seen ids is truncated (seen_ids is saved before the
\* listeners are called).
Promise == Feed!Spec

\* If the process stays up in the end, each listing on a page is announced, or was lost
\* with the process while the operator's message was awaited: a loop never passes by a
\* listing for good.
AllAnnounced ==
    <>[]up => \A n \in Listings :
                  n \in published ~> announced[n] > 0 \/ n \in lost
=============================================================================
