----------------------- MODULE ListingDetector_proofs -----------------------
(***************************************************************************)
(* The detector keeps its promise, for any exchanges, pages and listings,  *)
(* crashes and truncated files, as long as the set of seen ids is never    *)
(* over its cap.                                                           *)
(***************************************************************************)
EXTENDS ListingDetector, FiniteSetTheorems, TLAPS

\* No id is ever evicted from the set of seen ids.
NoEviction == IsFiniteSet(Notices) /\ Cardinality(Notices) <= SeenCap

\* Below the cap _remember_seen adds the id and drops none.
LEMMA RemembersAll ==
    ASSUME NoEviction, TypeOK, NEW n \in Notices, seen' \in Remembered(n)
    PROVE  seen' = seen \cup {n} /\ seen' \subseteq Notices
<1>1. seen \cup {n} \subseteq Notices
    BY DEF TypeOK
<1>2. Cardinality(seen \cup {n}) <= Cardinality(Notices)
    BY <1>1, FS_Subset DEF NoEviction
<1>3. Cardinality(seen \cup {n}) \in Nat /\ Cardinality(Notices) \in Nat
    BY <1>1, FS_Subset, FS_CardinalityType DEF NoEviction
<1>4. Cardinality(seen \cup {n}) <= SeenCap
    BY <1>2, <1>3, DetectorAssumption DEF NoEviction
<1>5. QED
    BY <1>1, <1>4 DEF Remembered

\* A step of the pages, of a loop that reads what it knows or that fetches a page.
LEMMA QuietSteps ==
    ASSUME NoEviction, DetectorInv, NEW x \in Exchanges,
           Publish(x) \/ Fetch(x) \/ (\E n \in Notices : Pass(x, n))
    PROVE  DetectorInv'
<1>1. CASE Publish(x)
    BY <1>1, DetectorAssumption DEF Publish, DetectorInv, TypeOK, SavedBeforeSent, loopVars, history
<1>2. CASE Fetch(x)
    BY <1>2, DetectorAssumption DEF Fetch, DetectorInv, TypeOK, SavedBeforeSent, history
<1>3. CASE \E n \in Notices : Pass(x, n)
  <2>1. PICK n \in Notices : Pass(x, n)
    BY <1>3
  <2>2. seen \subseteq seen' /\ seen' \subseteq Notices
    BY <2>1, RemembersAll DEF Pass, DetectorInv, TypeOK
  <2>3. QED
    BY <2>1, <2>2, DetectorAssumption DEF Pass, DetectorInv, TypeOK, SavedBeforeSent, history
<1>4. QED
    BY <1>1, <1>2, <1>3

\* A listing a loop emits was not seen, so while the file is whole it was not announced
\* and nobody emits it; from now on it is in the file.
LEMMA EmitStep ==
    ASSUME NoEviction, DetectorInv, NEW x \in Exchanges, NEW n \in Notices, Emit(x, n)
    PROVE  DetectorInv'
<1>1. /\ n \in Listings /\ n \notin seen /\ n \in items[x] /\ emitting[x] = {} /\ up
      /\ n \in Page[x] /\ TypeOK /\ SavedBeforeSent
    BY DEF Emit, Finds, DetectorInv
<1>2. seen' = seen \cup {n} /\ seen' \subseteq Notices
    BY <1>1, RemembersAll DEF Emit
<1>3. emitting'[x] = {n} /\ \A y \in Exchanges : y # x => emitting'[y] = emitting[y]
    BY <1>1 DEF Emit, TypeOK
<1>4. TypeOK'
    BY <1>1, <1>2 DEF Emit, TypeOK
<1>5. ASSUME ~torn' PROVE disk' = seen' /\ ~torn /\ n \notin disk /\ disk \subseteq seen
    BY <1>1, <1>5 DEF Emit, DetectorInv, TypeOK
<1>6. SavedBeforeSent'
  <2> SUFFICES ASSUME ~torn', NEW k \in Listings
               PROVE  LET held == {y \in Exchanges : k \in emitting'[y]}
                      IN  /\ announced'[k] > 0 \/ held # {} => k \in disk'
                          /\ announced'[k] <= 1 /\ (announced'[k] = 1 => held = {})
                          /\ \A y, z \in held : y = z
    BY DEF SavedBeforeSent
  <2>1. disk' = seen' /\ ~torn /\ n \notin disk /\ disk \subseteq seen /\ announced' = announced
    BY <1>5 DEF Emit
  <2>2. CASE k = n
    <3>1. announced[k] = 0 /\ \A y \in Exchanges : k \notin emitting[y]
      BY <1>1, <2>1, <2>2 DEF SavedBeforeSent, TypeOK
    <3>2. QED
      BY <1>2, <1>3, <2>1, <2>2, <3>1
  <2>3. CASE k # n
    <3>1. \A y \in Exchanges : k \in emitting'[y] <=> k \in emitting[y]
      BY <1>1, <1>3, <2>3
    <3>2. QED
      BY <1>1, <1>2, <2>1, <3>1 DEF SavedBeforeSent
  <2>4. QED
    BY <2>2, <2>3
<1>7. up' /\ ~torn' => disk' \subseteq seen'
    BY <1>5
<1>8. \A y \in Exchanges : items'[y] \cup emitting'[y] \subseteq Page[y]
    BY <1>1, <1>3 DEF Emit, DetectorInv, TypeOK
<1>9. \A y \in Exchanges : \A k, m \in emitting'[y] : k = m
    BY <1>3 DEF DetectorInv
<1>10. QED
    BY <1>4, <1>6, <1>7, <1>8, <1>9 DEF DetectorInv

\* The listing that is dispatched was announced to nobody before, and its loop is through
\* with it.
LEMMA DispatchStep ==
    ASSUME DetectorInv, NEW x \in Exchanges, Dispatch(x)
    PROVE  DetectorInv'
<1>1. TypeOK /\ SavedBeforeSent /\ emitting[x] \subseteq Listings
    BY DEF DetectorInv, TypeOK
<1>2. emitting'[x] = {} /\ \A y \in Exchanges : y # x => emitting'[y] = emitting[y]
    BY <1>1 DEF Dispatch, TypeOK
<1>3. TypeOK'
    BY <1>1 DEF Dispatch, TypeOK, history
<1>4. SavedBeforeSent'
  <2> SUFFICES ASSUME ~torn', NEW k \in Listings
               PROVE  LET held == {y \in Exchanges : k \in emitting'[y]}
                      IN  /\ announced'[k] > 0 \/ held # {} => k \in disk'
                          /\ announced'[k] <= 1 /\ (announced'[k] = 1 => held = {})
                          /\ \A y, z \in held : y = z
    BY DEF SavedBeforeSent
  <2>1. ~torn /\ disk' = disk
    BY DEF Dispatch, history
  <2>2. CASE k \in emitting[x]
    <3>1. announced[k] = 0 /\ k \in disk /\ \A y \in Exchanges : k \in emitting[y] => y = x
      BY <1>1, <2>1, <2>2 DEF SavedBeforeSent, TypeOK
    <3>2. announced'[k] = 1
      BY <2>2, <3>1 DEF Dispatch
    <3>3. QED
      BY <1>2, <2>1, <3>1, <3>2
  <2>3. CASE k \notin emitting[x]
    <3>1. announced'[k] = announced[k]
      BY <2>3 DEF Dispatch
    <3>2. \A y \in Exchanges : k \in emitting'[y] <=> k \in emitting[y]
      BY <1>2, <2>3
    <3>3. QED
      BY <1>1, <2>1, <3>1, <3>2 DEF SavedBeforeSent
  <2>4. QED
    BY <2>2, <2>3
<1>5. QED
    BY <1>2, <1>3, <1>4 DEF Dispatch, DetectorInv, history

\* What a restart reads is what the loops that died had saved.
LEMMA ProcessSteps ==
    ASSUME DetectorInv, Crash \/ Restart
    PROVE  DetectorInv'
<1>1. CASE Crash
  <2>1. TypeOK'
    <3>1. crashes' \in 0..MaxCrashes
      BY <1>1, DetectorAssumption DEF Crash, DetectorInv, TypeOK
    <3>2. items' \in [Exchanges -> SUBSET Notices] /\ emitting' \in [Exchanges -> SUBSET Listings]
      BY <1>1 DEF Crash
    <3>3. lost' \subseteq Listings
      BY <1>1 DEF Crash, DetectorInv, TypeOK
    <3>4. QED
      BY <1>1, <3>1, <3>2, <3>3 DEF Crash, DetectorInv, TypeOK
  <2>2. ~torn' => ~torn /\ UNCHANGED <<disk, announced>>
    BY <1>1 DEF Crash, DetectorInv, TypeOK
  <2>3. ~up' /\ \A x \in Exchanges : items'[x] = {} /\ emitting'[x] = {}
    BY <1>1 DEF Crash
  <2>4. SavedBeforeSent'
    BY <2>2, <2>3 DEF DetectorInv, SavedBeforeSent
  <2>5. QED
    BY <2>1, <2>3, <2>4 DEF DetectorInv
<1>2. CASE Restart
    BY <1>2, DetectorAssumption DEF Restart, DetectorInv, TypeOK, SavedBeforeSent, loopVars, history
<1>3. QED
    BY <1>1, <1>2

LEMMA StepsKeepInv ==
    ASSUME NoEviction, DetectorInv, [Next]_vars
    PROVE  DetectorInv'
<1>1. CASE \E x \in Exchanges : Publish(x) \/ Fetch(x) \/ Reads(x) \/ Dispatch(x)
    BY <1>1, QuietSteps, EmitStep, DispatchStep DEF Reads
<1>2. CASE Crash \/ Restart
    BY <1>2, ProcessSteps
<1>3. CASE UNCHANGED vars
    BY <1>3 DEF vars, loopVars, history, DetectorInv, TypeOK, SavedBeforeSent
<1>4. QED
    BY <1>1, <1>2, <1>3 DEF Next

LEMMA StartsInInv == Init => DetectorInv
<1> SUFFICES ASSUME Init PROVE DetectorInv
    OBVIOUS
<1>1. TypeOK
  <2>1. crashes \in 0..MaxCrashes
    BY DetectorAssumption DEF Init
  <2>2. items \in [Exchanges -> SUBSET Notices] /\ emitting \in [Exchanges -> SUBSET Listings]
    BY DEF Init
  <2>3. announced \in [Listings -> Nat]
    BY DEF Init
  <2>4. QED
    BY <2>1, <2>2, <2>3 DEF Init, TypeOK
<1>2. \A n \in Listings : announced[n] = 0
    BY DEF Init
<1>3. \A x \in Exchanges : items[x] = {} /\ emitting[x] = {}
    BY DEF Init
<1>4. SavedBeforeSent
    BY <1>2, <1>3 DEF SavedBeforeSent
<1>5. QED
    BY <1>1, <1>3, <1>4 DEF Init, DetectorInv

\* While the file of seen ids is whole, an event that is emitted is in it and in the set
\* of seen ids: the inductive invariant, for any exchanges, pages and listings.
THEOREM DetectorInvHolds == ASSUME NoEviction PROVE Spec => []DetectorInv
<1>1. Init => DetectorInv
    BY StartsInInv
<1>2. DetectorInv /\ [Next]_vars => DetectorInv'
    BY StepsKeepInv
<1>3. QED
    BY <1>1, <1>2, PTL DEF Spec

\* Every step of the detector is a step of the promise to its listeners, or none of it.
LEMMA StepsKeepPromise ==
    ASSUME DetectorInv, [Next]_vars
    PROVE  [Feed!Next]_<<announced, torn>>
<1>1. CASE \E x \in Exchanges : Dispatch(x)
  <2>1. PICK x \in Exchanges : Dispatch(x)
    BY <1>1
  <2>2. PICK n \in Listings : emitting[x] = {n}
    BY <2>1 DEF Dispatch, DetectorInv, TypeOK
  <2>3. announced' = [announced EXCEPT ![n] = @ + 1] /\ torn' = torn
    BY <2>1, <2>2 DEF Dispatch, history, DetectorInv, TypeOK
  <2>4. torn \/ announced[n] = 0
    BY <2>1, <2>2 DEF DetectorInv, SavedBeforeSent, TypeOK
  <2>5. QED
    BY <2>3, <2>4 DEF Feed!Next, Feed!Announce
<1>2. CASE \E x \in Exchanges, n \in Notices : Emit(x, n)
    BY <1>2 DEF Emit, Feed!Next, Feed!Tear
<1>3. CASE Crash
    BY <1>3 DEF Crash, Feed!Next, Feed!Tear
<1>4. CASE \E x \in Exchanges : Publish(x) \/ Fetch(x) \/ \E n \in Notices : Pass(x, n)
    BY <1>4 DEF Publish, Fetch, Pass, history
<1>5. CASE Restart \/ UNCHANGED vars
    BY <1>5 DEF Restart, vars, history
<1>6. QED
    BY <1>1, <1>2, <1>3, <1>4, <1>5 DEF Next, Reads

\* No listing is announced twice, whatever crashes and restarts and however the loops
\* interleave, until the file of seen ids is truncated: the detector implements
\* ListingFeed.
THEOREM PromiseHolds == ASSUME NoEviction PROVE Spec => Promise
<1>1. Init => Feed!Init
    BY DEF Init, Feed!Init
<1>2. DetectorInv /\ [Next]_vars => [Feed!Next]_<<announced, torn>>
    BY StepsKeepPromise
<1>3. Spec => []DetectorInv
    BY DetectorInvHolds
<1>4. QED
    BY <1>1, <1>2, <1>3, PTL DEF Spec, Promise, Feed!Spec
=============================================================================
