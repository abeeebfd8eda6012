------------------------ MODULE AutoTransfer_proofs -------------------------
(***************************************************************************)
(* A previewed withdrawal leaves once until an execution of it has failed, *)
(* for any callers, tickers and numbers of previews, jobs and restarts.    *)
(* First the operations of the withdrawal service, then who calls them.    *)
(***************************************************************************)
EXTENDS AutoTransfer, WellFoundedInduction, SequenceTheorems, TLAPS

Entries(n) == [token : 1..n, status : {"requested", "submitted", "failed"}]

LEMMA LeastOne ==
    ASSUME NEW S \in SUBSET Nat, S # {}
    PROVE  \E i \in S : \A j \in S : i <= j
<1>1. \E i \in S : \A j \in S : ~(<<j, i>> \in OpToRel(<, Nat))
    BY WFMin, NatLessThanWellFounded
<1>2. PICK i \in S : \A j \in S : ~(<<j, i>> \in OpToRel(<, Nat))
    BY <1>1
<1>3. \A j \in S : ~(j < i)
    BY <1>2 DEF OpToRel
<1>4. QED
    BY <1>3

\* A token whose jobs have not failed, and of which find_by_preview_token knows none, has
\* no job.
LEMMA UnknownIsNew ==
    ASSUME WithdrawTypeOK, NEW k, ~Known(k), ~Failed(k)
    PROVE  Of(k) = {}
<1> SUFFICES ASSUME Of(k) # {} PROVE FALSE
    OBVIOUS
<1>1. Of(k) \subseteq Nat
    BY DEF WithdrawTypeOK, Of
<1>2. PICK i \in Of(k) : \A j \in Of(k) : i <= j
    BY <1>1, LeastOne
<1>3. QED
    BY <1>2 DEF Known, Failed

-----------------------------------------------------------------------------
(* The withdrawal service *)

LEMMA PreviewKeeps ==
    ASSUME WithdrawAssumption, WithdrawInv, Previews,
           exec' \in [Callers -> [at : {"away", "queue", "held", "sent", "ok", "bad"}, token : 0..tokens']],
           \A p \in Callers : exec'[p] = exec[p]
                              \/ (exec[p].at = "away" /\ exec'[p].at \notin {"held", "sent"})
    PROVE  WithdrawInv'
<1>1. tokens' = tokens + 1 /\ tokens < MaxTokens /\ tokens \in Nat /\ MaxTokens \in Nat
    BY DEF Previews, WithdrawInv, WithdrawTypeOK, WithdrawAssumption
<1>2. requests' \in Seq(Entries(tokens'))
  <2>1. Entries(tokens) \subseteq Entries(tokens')
    BY <1>1 DEF Entries
  <2>2. requests \in Seq(Entries(tokens))
    BY DEF WithdrawInv, WithdrawTypeOK, Entries
  <2>3. QED
    BY <2>1, <2>2 DEF Previews
<1>3. WithdrawTypeOK'
    BY <1>1, <1>2 DEF Previews, WithdrawInv, WithdrawTypeOK, Entries
<1>4. LockInv' /\ WorkInv'
    BY DEF Previews, WithdrawInv, LockInv, WorkInv, Failed, Of
<1>5. SentHasJob' /\ SentOnce'
    BY DEF Previews, WithdrawInv, SentHasJob, SentOnce, Failed, Of
<1>6. QED
    BY <1>3, <1>4, <1>5 DEF WithdrawInv

\* A job is appended only for a token none of whose withdrawals was sent, unless one of
\* its jobs has failed.
LEMMA EntersKeeps ==
    ASSUME WithdrawAssumption, WithdrawInv, NEW p \in Callers, Enters(p)
    PROVE  WithdrawInv'
<1> DEFINE k == exec[p].token
<1> DEFINE new == [token |-> k, status |-> "requested"]
<1>1. WithdrawTypeOK /\ LockInv /\ WorkInv /\ SentHasJob /\ SentOnce /\ holder = NoOne
    BY DEF Enters, WithdrawInv
<1>2. \A q \in Callers : holder # q /\ exec[q].at \notin {"held", "sent"}
    BY <1>1, WithdrawAssumption DEF LockInv
<1>3. CASE UNCHANGED <<requests, holder>> /\ exec' \in {[exec EXCEPT ![p].at = "ok"], [exec EXCEPT ![p].at = "bad"]}
  <2>1. WithdrawTypeOK'
    BY <1>1, <1>3, ZenonT(60) DEF Enters, WithdrawTypeOK
  <2>2. \A q \in Callers : exec'[q].at \notin {"held", "sent"} /\ holder' # q
    BY <1>1, <1>2, <1>3, ZenonT(60) DEF WithdrawTypeOK
  <2>3. QED
    BY <1>1, <1>3, <2>1, <2>2 DEF Enters, WithdrawInv, LockInv, WorkInv, SentHasJob, SentOnce, Failed, Of
<1>4. CASE /\ ~Known(k) /\ k \in previews /\ requests' = Append(requests, new)
           /\ exec' = [exec EXCEPT ![p].at = "held"] /\ holder' = p
  <2>1. k \in Tokens /\ k \in 1..tokens
    BY <1>1, <1>4, WithdrawAssumption DEF WithdrawTypeOK, Tokens
  <2>2. requests \in Seq(Entries(tokens)) /\ new \in Entries(tokens)
    BY <1>1, <2>1 DEF WithdrawTypeOK, Entries
  <2>3. /\ requests' \in Seq(Entries(tokens)) /\ Len(requests') = Len(requests) + 1
        /\ requests'[Len(requests')] = new
        /\ \A i \in DOMAIN requests : i \in DOMAIN requests' /\ requests'[i] = requests[i]
        /\ DOMAIN requests' = DOMAIN requests \cup {Len(requests')}
    BY <1>4, <2>2
  <2>4. WithdrawTypeOK'
    BY <1>1, <1>4, <2>3 DEF Enters, WithdrawTypeOK, Entries
  <2>5. exec'[p].at = "held" /\ exec'[p].token = k /\ \A q \in Callers : q # p => exec'[q] = exec[q]
    BY <1>1, <1>4 DEF WithdrawTypeOK
  <2>6. LockInv'
    BY <1>2, <1>4, <2>5 DEF LockInv
  <2>7. \A m \in Tokens : Of(m) \subseteq Of(m)' /\ (Failed(m) => Failed(m)')
    BY <2>3 DEF Of, Failed
  <2>8. ~Failed(k) => sent[k] = 0
    <3>1. ~Failed(k) => Of(k) = {}
      BY <1>1, <1>4, UnknownIsNew
    <3>2. sent[k] \in Nat /\ (sent[k] > 0 => Of(k) # {})
      BY <1>1, <2>1 DEF SentHasJob, WithdrawTypeOK
    <3>3. QED
      BY <3>1, <3>2
  <2>9. WorkInv'
    <3>1. PICK m \in Tokens : m = k
      BY <2>1
    <3>2. requests' # <<>> /\ requests'[Len(requests')] = [token |-> m, status |-> "requested"]
      BY <2>2, <2>3, <3>1
    <3>3. ~Failed(m)' => sent'[m] = 0
      BY <2>7, <2>8, <3>1 DEF Enters
    <3>4. exec'[p].token = m /\ holder' = p
      BY <1>4, <2>5, <3>1
    <3>5. QED
      BY <3>2, <3>3, <3>4 DEF WorkInv
  <2>10. SentHasJob' /\ SentOnce'
    BY <1>1, <2>7 DEF Enters, SentHasJob, SentOnce
  <2>11. QED
    BY <2>4, <2>6, <2>9, <2>10 DEF WithdrawInv
<1>5. QED
    BY <1>3, <1>4 DEF Enters, Moves

\* The holder sends what was not sent yet.
LEMMA AcceptedKeeps ==
    ASSUME WithdrawAssumption, WithdrawInv, NEW p \in Callers, Accepted(p)
    PROVE  WithdrawInv'
<1> DEFINE k == exec[p].token
<1>1. WithdrawTypeOK /\ LockInv /\ WorkInv /\ SentHasJob /\ SentOnce
    BY DEF WithdrawInv
<1>2. /\ holder = p /\ k \in Tokens /\ requests # <<>>
      /\ requests[Len(requests)] = [token |-> k, status |-> "requested"]
      /\ ~Failed(k) => sent[k] = 0
    BY <1>1 DEF Accepted, LockInv, WorkInv
<1>3. exec'[p] = [at |-> "sent", token |-> k] /\ \A q \in Callers : q # p => exec'[q] = exec[q]
    BY <1>1 DEF Accepted, Moves, WithdrawTypeOK
<1>4. \A m \in Tokens : sent'[m] = IF m = k THEN sent[m] + 1 ELSE sent[m]
    BY <1>1 DEF Accepted, WithdrawTypeOK
<1>5. WithdrawTypeOK'
    BY <1>1, <1>2 DEF Accepted, Moves, WithdrawTypeOK
<1>6. LockInv'
    BY <1>1, <1>2, <1>3 DEF Accepted, LockInv
<1>7. \A m \in Tokens : Of(m)' = Of(m) /\ (Failed(m)' <=> Failed(m))
    BY DEF Accepted, Of, Failed
<1>8. WorkInv'
    BY <1>1, <1>2, <1>3 DEF Accepted, WorkInv
<1>9. Of(k) # {}
    BY <1>1, <1>2 DEF Of, WithdrawTypeOK
<1>10. SentHasJob'
    BY <1>1, <1>4, <1>7, <1>9 DEF SentHasJob
<1>11. SentOnce'
  <2> SUFFICES ASSUME NEW m \in Tokens, ~Failed(m) PROVE sent'[m] <= 1
      BY <1>7 DEF SentOnce
  <2>1. CASE m = k
      BY <1>2, <1>4, <2>1
  <2>2. CASE m # k
      BY <1>1, <1>4, <2>2 DEF SentOnce
  <2>3. QED
      BY <2>1, <2>2
<1>12. QED
    BY <1>5, <1>6, <1>8, <1>10, <1>11 DEF WithdrawInv

\* The job that is concluded was requested, so no failure is forgotten.
LEMMA ConcludesKeeps ==
    ASSUME WithdrawAssumption, WithdrawInv, NEW p \in Callers, Concludes(p)
    PROVE  WithdrawInv'
<1> DEFINE n == Len(requests)
<1>1. WithdrawTypeOK /\ LockInv /\ WorkInv /\ SentHasJob /\ SentOnce /\ holder = p /\ holder' = NoOne
    BY DEF Concludes, WithdrawInv
<1>2. requests # <<>> /\ requests[n].status = "requested"
  <2>1. requests # <<>> /\ requests[n] = [token |-> exec[p].token, status |-> "requested"]
    BY <1>1 DEF WorkInv
  <2>2. QED
    BY <2>1
<1>3. PICK s \in {"submitted", "failed"}, at \in {"ok", "bad"} :
          requests' = [requests EXCEPT ![n].status = s] /\ exec' = [exec EXCEPT ![p].at = at]
    BY DEF Concludes, Concluded, Moves
<1>4. requests \in Seq(Entries(tokens)) /\ n \in DOMAIN requests
    BY <1>1, <1>2 DEF WithdrawTypeOK, Entries
<1>5. [requests[n] EXCEPT !.status = s] \in Entries(tokens)
  <2>1. requests[n] \in Entries(tokens)
    BY <1>4
  <2>2. QED
    BY <2>1 DEF Entries
<1>6. /\ requests' \in Seq(Entries(tokens)) /\ DOMAIN requests' = DOMAIN requests
      /\ \A i \in DOMAIN requests : requests'[i].token = requests[i].token
      /\ \A i \in DOMAIN requests : i # n => requests'[i] = requests[i]
    BY <1>3, <1>4, <1>5 DEF Entries
<1>7. WithdrawTypeOK'
    BY <1>1, <1>3, <1>6 DEF Concludes, WithdrawTypeOK, Entries
<1>8. \A q \in Callers : exec'[q].at \notin {"held", "sent"} /\ holder' # q
    BY <1>1, <1>3, WithdrawAssumption DEF LockInv, WithdrawTypeOK
<1>9. \A m \in Tokens : Of(m)' = Of(m)
    BY <1>6 DEF Of
<1>10. \A m \in Tokens : Failed(m) => Failed(m)'
    BY <1>2, <1>6, <1>9 DEF Failed, Of
<1>11. QED
    BY <1>1, <1>7, <1>8, <1>9, <1>10 DEF Concludes, WithdrawInv, LockInv, WorkInv, SentHasJob, SentOnce

LEMMA OthersKeep ==
    ASSUME WithdrawAssumption, WithdrawInv,
           \/ Expires
           \/ \E p \in Callers, k \in 1..tokens : Executes(p, k)
           \/ \E p \in Callers : Leaves(p)
           \/ UNCHANGED withdrawVars
    PROVE  WithdrawInv'
<1>1. WithdrawTypeOK /\ LockInv /\ WorkInv /\ SentHasJob /\ SentOnce
    BY DEF WithdrawInv
<1>2. UNCHANGED <<tokens, requests, holder, sent>> /\ previews' \subseteq previews
    BY DEF Expires, Executes, Leaves, withdrawVars
<1>3. /\ exec' \in [Callers -> [at : {"away", "queue", "held", "sent", "ok", "bad"}, token : 0..tokens]]
      /\ \A q \in Callers : exec'[q] = exec[q]
                            \/ (exec[q].at \notin {"held", "sent"} /\ exec'[q].at \notin {"held", "sent"})
  <2>1. exec \in [Callers -> [at : {"away", "queue", "held", "sent", "ok", "bad"}, token : 0..tokens]]
    BY <1>1 DEF WithdrawTypeOK
  <2>2. CASE exec' = exec
    BY <2>1, <2>2
  <2>3. CASE \E p \in Callers, k \in 0..tokens, at \in {"queue", "away"} :
                 /\ exec' = [exec EXCEPT ![p] = [at |-> at, token |-> k]]
                 /\ exec[p].at \notin {"held", "sent"}
    BY <2>1, <2>3
  <2>4. tokens \in Nat
    BY <1>1, WithdrawAssumption DEF WithdrawTypeOK
  <2>5. QED
    BY <2>2, <2>3, <2>4 DEF Expires, Executes, Leaves, Away, withdrawVars
<1>4. WithdrawTypeOK'
    BY <1>1, <1>2, <1>3 DEF WithdrawTypeOK
<1>5. \A k \in Tokens : Of(k)' = Of(k) /\ (Failed(k)' <=> Failed(k))
    BY <1>2 DEF Of, Failed
<1>6. LockInv'
    BY <1>1, <1>2, <1>3 DEF LockInv
<1>7. WorkInv'
    BY <1>1, <1>2, <1>3 DEF WorkInv, LockInv, Failed, Of
<1>8. QED
    BY <1>1, <1>2, <1>4, <1>5, <1>6, <1>7 DEF WithdrawInv, SentHasJob, SentOnce

\* What a crash leaves are the jobs, of which none is worked on.
LEMMA LostKeeps ==
    ASSUME WithdrawAssumption, WithdrawInv, WithdrawLost
    PROVE  WithdrawInv'
<1>1. WithdrawTypeOK /\ SentHasJob /\ SentOnce
    BY DEF WithdrawInv
<1>2. \A q \in Callers : exec'[q] = Away /\ holder' # q
    BY WithdrawAssumption DEF WithdrawLost
<1>3. WithdrawTypeOK'
    BY <1>1, WithdrawAssumption DEF WithdrawLost, WithdrawTypeOK, Away
<1>4. LockInv' /\ WorkInv'
    BY <1>2 DEF LockInv, WorkInv, Away
<1>5. QED
    BY <1>1, <1>3, <1>4 DEF WithdrawLost, WithdrawInv, SentHasJob, SentOnce, Failed, Of

LEMMA WithdrawStarts == WithdrawAssumption /\ WithdrawInit => WithdrawInv
<1> SUFFICES ASSUME WithdrawAssumption, WithdrawInit PROVE WithdrawInv
    OBVIOUS
<1>1. WithdrawTypeOK
    BY DEF WithdrawAssumption, WithdrawInit, WithdrawTypeOK, Away, Tokens
<1>2. \A p \in Callers : exec[p] = Away /\ holder # p
    BY DEF WithdrawAssumption, WithdrawInit
<1>3. \A k \in Tokens : sent[k] = 0
    BY DEF WithdrawInit
<1>4. LockInv /\ WorkInv
    BY <1>2 DEF LockInv, WorkInv, Away
<1>5. SentHasJob /\ SentOnce
    BY <1>3 DEF SentHasJob, SentOnce
<1>6. QED
    BY <1>1, <1>4, <1>5 DEF WithdrawInv

-----------------------------------------------------------------------------
(* The transfers *)

DriveStates == [at : {"rest", "buy", "preview", "execute", "tell"}, job : Nat, before : BOOLEAN]

\* The steps that leave the withdrawal service and the drives alone.
LEMMA AsideKeeps ==
    ASSUME TransferAssumption, WithdrawAssumption, TransferInv,
           UNCHANGED <<withdrawVars, drive, cast>>, jobs' \in Seq(Jobs), dry' \in BOOLEAN
    PROVE  TransferInv'
<1>1. WithdrawInv'
    BY OthersKeep DEF TransferInv
<1>2. QED
    BY <1>1 DEF TransferInv, withdrawVars

LEMMA StatesAreJobs ==
    ASSUME TransferInv, NEW j,
           NEW s \in Done \cup {"PENDING", "BITHUMB_BOUGHT", "WITHDRAWING"}
    PROVE  JobState(j, s) \in Seq(Jobs)
<1> DEFINE n == Len(jobs)
<1>1. n \in Nat /\ DOMAIN jobs = 1..n /\ jobs \in [1..n -> Jobs]
    BY DEF TransferInv
<1>2. \A i \in 1..n : [jobs[i] EXCEPT !.state = s] \in Jobs
    BY <1>1 DEF Jobs, Done
<1>3. JobState(j, s) \in [1..n -> Jobs]
    BY <1>1, <1>2 DEF JobState
<1>4. QED
    BY <1>1, <1>3, SeqDef

\* Who starts a job was at rest, and so executes nothing.
LEMMA StartsKeep ==
    ASSUME TransferAssumption, WithdrawAssumption, TransferInv,
           NEW p \in Drivers, NEW t \in Tickers, NEW d \in BOOLEAN,
           Starts(p, t, d), dry' \in BOOLEAN
    PROVE  TransferInv'
<1>1. WithdrawInv'
    BY OthersKeep DEF TransferInv, Starts
<1>2. jobs \in Seq(Jobs) /\ Len(jobs) \in Nat
    BY DEF TransferInv
<1>3. [ticker |-> t, live |-> ~d, by |-> p, token |-> 0, state |-> IF d THEN "COMPLETE" ELSE "PENDING"] \in Jobs
    BY DEF Jobs, Done
<1>4. jobs' \in Seq(Jobs) /\ Len(jobs') \in Nat
    BY <1>2, <1>3 DEF Starts
<1>5. drive' \in [Drivers -> DriveStates] /\ \A q \in Drivers : q # p => drive'[q] = drive[q]
    BY <1>4 DEF Starts, TransferInv, DriveStates
<1>6. \A q \in Drivers : exec'[q].at # "away" => drive'[q].at = "execute"
    BY <1>5 DEF Starts, TransferInv, withdrawVars
<1>7. QED
    BY <1>1, <1>4, <1>5, <1>6 DEF Starts, TransferInv, DriveStates

\* A step of a drive, to any place but "execute": its driver executes nothing then.
LEMMA DriveGoesOn ==
    ASSUME TransferAssumption, WithdrawAssumption, TransferInv, WithdrawInv',
           NEW p \in Drivers, jobs' \in Seq(Jobs), dry' \in BOOLEAN, cast' = cast,
           drive' \in [Drivers -> DriveStates],
           \A q \in Drivers : q # p => drive'[q] = drive[q] /\ exec'[q] = exec[q],
           exec'[p].at = "away" \/ drive'[p].at = "execute"
    PROVE  TransferInv'
    BY DEF TransferInv, DriveStates

LEMMA DriveKeeps ==
    ASSUME TransferAssumption, WithdrawAssumption, TransferInv, NEW p \in Drivers, Drive(p)
    PROVE  TransferInv'
<1>1. /\ WithdrawInv /\ p \in Callers /\ Drivers \subseteq Callers
      /\ drive \in [Drivers -> DriveStates] /\ jobs \in Seq(Jobs) /\ dry \in BOOLEAN
      /\ exec[p].at # "away" => drive[p].at = "execute"
      /\ exec \in [Callers -> [at : {"away", "queue", "held", "sent", "ok", "bad"}, token : 0..tokens]]
    BY DEF TransferAssumption, TransferInv, DriveStates, WithdrawInv, WithdrawTypeOK
<1>2. \A at \in {"rest", "buy", "preview", "execute", "tell"} : Drives(p, at) =>
          /\ drive' \in [Drivers -> DriveStates] /\ drive'[p].at = at
          /\ \A q \in Drivers : q # p => drive'[q] = drive[q]
  <2> SUFFICES ASSUME NEW at \in {"rest", "buy", "preview", "execute", "tell"}, Drives(p, at)
               PROVE  /\ drive' \in [Drivers -> DriveStates] /\ drive'[p].at = at
                      /\ \A q \in Drivers : q # p => drive'[q] = drive[q]
    OBVIOUS
  <2>1. drive[p] \in DriveStates
    BY <1>1
  <2>2. [drive[p] EXCEPT !.at = at] \in DriveStates /\ [drive[p] EXCEPT !.at = at].at = at
    BY <2>1 DEF DriveStates
  <2>3. QED
    BY <1>1, <2>2 DEF Drives
<1>3. CASE Buys(p)
  <2>1. jobs' \in Seq(Jobs)
    BY <1>3, StatesAreJobs DEF Buys, Done
  <2>2. WithdrawInv' /\ exec' = exec /\ dry' = dry
    BY <1>1, <1>3, OthersKeep DEF Buys, withdrawVars
  <2>3. exec[p].at = "away"
    BY <1>1, <1>3 DEF Buys
  <2>4. QED
    BY <1>1, <1>2, <1>3, <2>1, <2>2, <2>3, DriveGoesOn DEF Buys
<1>4. CASE Withdraws(p)
  <2>1. exec[p].at = "away" /\ dry' = dry
    BY <1>1, <1>4 DEF Withdraws
  <2>2. CASE /\ Previews /\ exec' = [exec EXCEPT ![p] = [at |-> "queue", token |-> tokens']]
             /\ jobs' = [jobs EXCEPT ![drive[p].job].token = tokens'] /\ Drives(p, "execute")
    <3>1. tokens \in Nat /\ tokens' = tokens + 1
      BY <1>1, <2>2, WithdrawAssumption DEF Previews, WithdrawInv, WithdrawTypeOK
    <3>2. exec' \in [Callers -> [at : {"away", "queue", "held", "sent", "ok", "bad"}, token : 0..tokens']]
      BY <1>1, <2>2, <3>1
    <3>3. \A q \in Callers : exec'[q] = exec[q] \/ (exec[q].at = "away" /\ exec'[q].at \notin {"held", "sent"})
      BY <1>1, <2>1, <2>2
    <3>4. WithdrawInv'
      BY <1>1, <2>2, <3>2, <3>3, PreviewKeeps
    <3>5. jobs' \in Seq(Jobs)
      <4> DEFINE n == Len(jobs)
      <4>1. n \in Nat /\ jobs \in [1..n -> Jobs]
        BY <1>1
      <4>2. \A i \in 1..n : [jobs[i] EXCEPT !.token = tokens'] \in Jobs
        BY <3>1, <4>1 DEF Jobs
      <4>3. jobs' \in [1..n -> Jobs]
        BY <2>2, <4>1, <4>2
      <4>4. QED
        BY <4>1, <4>3, SeqDef
    <3>6. QED
      BY <1>1, <1>2, <2>1, <2>2, <3>4, <3>5, <1>4, DriveGoesOn DEF Withdraws
  <2>3. CASE /\ \E s \in {"STUCK", "FAILED"} : jobs' = JobState(drive[p].job, s)
             /\ Drives(p, "tell") /\ UNCHANGED withdrawVars
    <3>1. jobs' \in Seq(Jobs)
      BY <2>3, StatesAreJobs DEF Done
    <3>2. WithdrawInv' /\ exec' = exec
      BY <1>1, <2>3, OthersKeep DEF withdrawVars
    <3>3. QED
      BY <1>1, <1>2, <2>1, <2>3, <3>1, <3>2, <1>4, DriveGoesOn DEF Withdraws
  <2>4. QED
    BY <1>4, <2>2, <2>3 DEF Withdraws
<1>5. CASE Withdrawn(p)
  <2>1. WithdrawInv'
    BY <1>1, <1>5, OthersKeep DEF Withdrawn
  <2>2. jobs' \in Seq(Jobs) /\ dry' = dry
    BY <1>5, StatesAreJobs DEF Withdrawn, Done
  <2>3. exec'[p].at = "away" /\ \A q \in Drivers : q # p => exec'[q] = exec[q]
    BY <1>1, <1>5 DEF Withdrawn, Leaves, Away
  <2>4. QED
    BY <1>1, <1>2, <1>5, <2>1, <2>2, <2>3, DriveGoesOn DEF Withdrawn
<1>6. CASE Tells(p)
  <2>1. WithdrawInv' /\ exec' = exec /\ jobs' = jobs /\ exec[p].at = "away"
    BY <1>1, <1>6, OthersKeep DEF Tells, withdrawVars
  <2>2. dry' \in BOOLEAN
    BY <1>1, <1>6 DEF Tells, DriveStates
  <2>3. drive' \in [Drivers -> DriveStates] /\ \A q \in Drivers : q # p => drive'[q] = drive[q]
    BY <1>1, <1>6 DEF Tells, Resting, DriveStates
  <2>4. QED
    BY <1>1, <1>6, <2>1, <2>2, <2>3, DriveGoesOn DEF Tells
<1>7. QED
    BY <1>3, <1>4, <1>5, <1>6 DEF Drive

\* The service works on calls that were made, and a clerk is no driver.
LEMMA ServiceKeeps ==
    ASSUME TransferAssumption, WithdrawAssumption, TransferInv, NEW p \in Callers,
           Serves(p) \/ (p \in Clerks /\ Clerical(p))
    PROVE  TransferInv'
<1>1. WithdrawInv /\ Drivers \subseteq Callers /\ LockInv /\ WithdrawTypeOK
    BY DEF TransferAssumption, TransferInv, WithdrawInv
<1>2. CASE Serves(p)
  <2>1. WithdrawInv'
    BY <1>1, <1>2, EntersKeeps, AcceptedKeeps, ConcludesKeeps DEF Serves
  <2>2. exec[p].at # "away" /\ \A q \in Callers : q # p => exec'[q] = exec[q]
    BY <1>1, <1>2 DEF Serves, Enters, Accepted, Concludes, Moves, LockInv, WithdrawTypeOK
  <2>3. UNCHANGED ownVars
    BY <1>2 DEF Serves
  <2>4. QED
    BY <1>1, <2>1, <2>2, <2>3 DEF TransferInv, ownVars
<1>3. CASE p \in Clerks /\ Clerical(p)
  <2>1. CASE Previews /\ UNCHANGED exec
    <3>1. exec' \in [Callers -> [at : {"away", "queue", "held", "sent", "ok", "bad"}, token : 0..tokens']]
      BY <1>1, <2>1, WithdrawAssumption DEF Previews, WithdrawTypeOK
    <3>2. WithdrawInv'
      BY <1>1, <2>1, <3>1, PreviewKeeps
    <3>3. QED
      BY <1>3, <2>1, <3>2 DEF Clerical, TransferInv, ownVars
  <2>2. CASE (\E k \in 1..tokens : Executes(p, k)) \/ Leaves(p)
    <3>1. WithdrawInv'
      BY <1>1, <2>2, OthersKeep
    <3>2. \A q \in Drivers : exec'[q] = exec[q]
      BY <1>1, <1>3, <2>2, TransferAssumption DEF Executes, Leaves, WithdrawTypeOK
    <3>3. QED
      BY <1>3, <3>1, <3>2 DEF Clerical, TransferInv, ownVars
  <2>3. QED
    BY <1>3, <2>1, <2>2 DEF Clerical
<1>4. QED
    BY <1>2, <1>3

LEMMA TransferStepsKeep ==
    ASSUME TransferAssumption, WithdrawAssumption, TransferInv, [Next]_vars
    PROVE  TransferInv'
<1>1. WithdrawInv /\ jobs \in Seq(Jobs) /\ dry \in BOOLEAN /\ Loop \in Drivers /\ Users \subseteq Drivers
      /\ cast \subseteq Callers
    BY TransferAssumption DEF TransferInv, Drivers
<1>2. CASE Ticks
    BY <1>1, <1>2, StartsKeep DEF Ticks
<1>3. CASE \E u \in Users \cap cast : Triggers(u)
    BY <1>1, <1>3, StartsKeep DEF Triggers
<1>4. CASE Sweeps \/ SetsDry \/ SetsEnabled \/ Midnight \/ Cools
    BY <1>1, <1>4, AsideKeeps DEF Sweeps, SetsDry, SetsEnabled, Midnight, Cools
<1>5. CASE \E j \in DOMAIN jobs : Judges(j) \/ Aborts(j)
    BY <1>1, <1>5, AsideKeeps, StatesAreJobs DEF Judges, Aborts, Done
<1>6. CASE \E p \in Drivers \cap cast : Drive(p)
    BY <1>6, DriveKeeps
<1>7. CASE \E p \in cast : Serves(p)
    BY <1>1, <1>7, ServiceKeeps
<1>8. CASE \E c \in Clerks \cap cast : Clerical(c)
    BY <1>8, ServiceKeeps, TransferAssumption
<1>9. CASE Expires /\ UNCHANGED ownVars
    BY <1>1, <1>9, OthersKeep DEF Expires, TransferInv, ownVars
<1>10. CASE Crash
  <2>1. WithdrawInv'
    BY <1>1, <1>10, LostKeeps DEF Crash
  <2>2. \A q \in Drivers : exec'[q].at = "away"
    BY <1>10, TransferAssumption DEF Crash, WithdrawLost, Away
  <2>3. drive' \in [Drivers -> DriveStates]
    BY <1>10 DEF Crash, Resting, DriveStates
  <2>4. QED
    BY <1>1, <1>10, <2>1, <2>2, <2>3 DEF Crash, TransferInv, DriveStates
<1>11. CASE UNCHANGED vars
    BY <1>1, <1>11, AsideKeeps DEF vars, ownVars
<1>12. QED
    BY <1>2, <1>3, <1>4, <1>5, <1>6, <1>7, <1>8, <1>9, <1>10, <1>11 DEF Next

\* The inductive invariant of the withdrawals: the store has a job for all that was sent,
\* and only the holder of the lock has something to send, once.
THEOREM TransferInvHolds == Spec => []TransferInv
<1>1. Init => TransferInv
  <2> SUFFICES ASSUME Init PROVE TransferInv
    OBVIOUS
  <2>1. WithdrawInv
    BY WithdrawStarts, WithdrawAssumption DEF Init
  <2>2. \A q \in Drivers : exec[q].at = "away"
    BY TransferAssumption DEF Init, WithdrawInit, Away
  <2>3. drive \in [Drivers -> DriveStates]
    BY DEF Init, Resting, DriveStates
  <2>4. QED
    BY <2>1, <2>2, <2>3 DEF Init, TransferInv, DriveStates
<1>2. TransferInv /\ [Next]_vars => TransferInv'
    BY TransferStepsKeep, TransferAssumption, WithdrawAssumption
<1>3. QED
    BY <1>1, <1>2, PTL DEF Spec

\* The coins of a preview leave once until an execution of it has failed, whoever calls
\* execute, together or again, with whatever restarts: for any callers and tickers.
THEOREM SentOnceHolds == Spec => []SentOnce
<1>1. TransferInv => SentOnce
    BY DEF TransferInv, WithdrawInv
<1>2. QED
    BY <1>1, TransferInvHolds, PTL

-----------------------------------------------------------------------------
(* What the withdrawal service answers *)

\* A fresh token has no request; it is the one token a driver executes.
LEMMA PreviewAnswers ==
    ASSUME TransferAssumption, WithdrawAssumption, WithdrawInv, AnswerInv, Previews,
           exec' = exec \/ \E p \in Drivers : exec' = [exec EXCEPT ![p] = [at |-> "queue", token |-> tokens']]
    PROVE  AnswerInv'
<1>1. /\ tokens \in Nat /\ tokens' = tokens + 1
      /\ \A i \in DOMAIN requests : requests[i].token \in 1..tokens
      /\ DOMAIN exec = Callers /\ Drivers \subseteq Callers
  <2>1. WithdrawTypeOK /\ requests \in Seq(Entries(tokens))
    BY DEF WithdrawInv, WithdrawTypeOK, Entries
  <2>2. \A i \in DOMAIN requests : requests[i] \in Entries(tokens)
    BY <2>1
  <2>3. \A i \in DOMAIN requests : requests[i].token \in 1..tokens
    BY <2>2 DEF Entries
  <2>4. tokens \in Nat /\ tokens' = tokens + 1
    BY <2>1, WithdrawAssumption DEF Previews, WithdrawTypeOK
  <2>5. QED
    BY <2>1, <2>3, <2>4, TransferAssumption DEF WithdrawTypeOK
<1>2. Of(tokens') = {}
    BY <1>1 DEF Of
<1>3. \A q \in Callers : exec'[q] = exec[q]
                        \/ (q \in Drivers /\ exec'[q] = [at |-> "queue", token |-> tokens'])
    BY <1>1
<1>4. UNCHANGED <<requests, holder, sent>> /\ \A k \in Nat : Of(k)' = Of(k)
    BY DEF Previews, Of
<1>5. \A q \in Drivers : exec'[q].at = "queue" =>
          \A i \in Of(exec[q].token)' : requests[i].status = "requested" =>
              holder # NoOne /\ i = Len(requests)
  <2> SUFFICES ASSUME NEW q \in Drivers, exec'[q].at = "queue",
                      NEW i \in Of(exec[q].token)', requests[i].status = "requested"
               PROVE  holder # NoOne /\ i = Len(requests)
    OBVIOUS
  <2>1. i \in Of(exec'[q].token)
    BY <1>4 DEF Of
  <2>2. exec'[q] = exec[q]
    BY <1>1, <1>2, <1>3, <2>1
  <2>3. QED
    BY <2>1, <2>2 DEF AnswerInv
<1>6. QED
    BY <1>1, <1>3, <1>4, <1>5 DEF AnswerInv

\* Who finds the lock free finds no request of a driver's token open: the job it finds
\* was submitted.
LEMMA EntersAnswers ==
    ASSUME TransferAssumption, WithdrawAssumption, WithdrawInv, AnswerInv, NEW p \in Callers, Enters(p)
    PROVE  AnswerInv'
<1> DEFINE k == exec[p].token
<1>1. /\ holder = NoOne /\ exec[p].at = "queue" /\ UNCHANGED <<tokens, sent>>
      /\ requests \in Seq(Entries(tokens)) /\ Drivers \subseteq Callers
      /\ exec \in [Callers -> [at : {"away", "queue", "held", "sent", "ok", "bad"}, token : 0..tokens]]
    BY TransferAssumption DEF Enters, WithdrawInv, WithdrawTypeOK, Entries
<1>2. \A q \in Drivers : exec[q].at = "queue" => \A i \in Of(exec[q].token) : requests[i].status # "requested"
    BY <1>1 DEF AnswerInv
<1>3. CASE Known(k) /\ Moves(p, "ok") /\ UNCHANGED <<requests, holder>>
  <2>1. exec'[p].at = "ok" /\ exec'[p].token = k /\ \A q \in Callers : q # p => exec'[q] = exec[q]
    BY <1>1, <1>3 DEF Moves
  <2>2. p \in Drivers => sent[k] > 0
    <3> SUFFICES ASSUME p \in Drivers PROVE sent[k] > 0
      OBVIOUS
    <3>1. PICK i \in Of(k) : requests[i].status # "failed"
      BY <1>3 DEF Known
    <3>2. requests[i] \in Entries(tokens) /\ requests[i].token = k /\ i \in DOMAIN requests
      BY <1>1 DEF Of
    <3>3. requests[i].status = "submitted"
      BY <1>1, <1>2, <3>1, <3>2 DEF Entries
    <3>4. QED
      BY <3>2, <3>3 DEF AnswerInv
  <2>3. \A m \in Nat : Of(m)' = Of(m)
    BY <1>3 DEF Of
  <2>4. QED
    BY <1>1, <1>3, <2>1, <2>2, <2>3, SMTT(30) DEF AnswerInv, Of
<1>4. CASE k \notin previews /\ Moves(p, "bad") /\ UNCHANGED <<requests, holder>>
  <2>1. exec'[p].at = "bad" /\ exec'[p].token = k /\ \A q \in Callers : q # p => exec'[q] = exec[q]
    BY <1>1, <1>4 DEF Moves
  <2>2. QED
    BY <1>1, <1>4, <2>1, ZenonT(60) DEF AnswerInv, Of
<1>5. CASE /\ k \in previews /\ requests' = Append(requests, [token |-> k, status |-> "requested"])
           /\ Moves(p, "held") /\ holder' = p
  <2>1. exec'[p].at = "held" /\ exec'[p].token = k /\ \A q \in Callers : q # p => exec'[q] = exec[q]
    BY <1>1, <1>5 DEF Moves
  <2>2. k \in 1..tokens
    BY <1>5 DEF WithdrawInv, WithdrawTypeOK
  <2>3. [token |-> k, status |-> "requested"] \in Entries(tokens)
    BY <2>2 DEF Entries
  <2>4. /\ DOMAIN requests' = DOMAIN requests \cup {Len(requests')}
        /\ requests'[Len(requests')].status = "requested"
        /\ \A i \in DOMAIN requests : i # Len(requests') /\ requests'[i] = requests[i]
    BY <1>1, <1>5, <2>3
  <2>5. holder' # NoOne
    BY <1>5, WithdrawAssumption
  <2>6. \A i \in DOMAIN requests' : requests'[i].status = "submitted" => sent'[requests'[i].token] > 0
    BY <1>1, <2>4 DEF AnswerInv
  <2>7. \A q \in Drivers : exec'[q].at = "queue" =>
            \A i \in Of(exec[q].token)' : requests'[i].status = "requested" =>
                holder' # NoOne /\ i = Len(requests')
    <3> SUFFICES ASSUME NEW q \in Drivers, exec'[q].at = "queue",
                        NEW i \in Of(exec[q].token)', requests'[i].status = "requested"
                 PROVE  i = Len(requests')
      BY <2>5
    <3>1. exec'[q] = exec[q]
      BY <1>1, <2>1
    <3>2. i \in DOMAIN requests' /\ requests'[i].token = exec[q].token
      BY <3>1 DEF Of
    <3>3. i \in DOMAIN requests => i \in Of(exec[q].token) /\ requests[i].status = "requested"
      BY <2>4, <3>2 DEF Of
    <3>4. QED
      BY <1>2, <2>4, <3>1, <3>2, <3>3
  <2>8. QED
    BY <1>1, <2>1, <2>6, <2>7 DEF AnswerInv
<1>6. QED
    BY <1>3, <1>4, <1>5 DEF Enters

\* What is sent is the holder's token.
LEMMA AcceptedAnswers ==
    ASSUME TransferAssumption, WithdrawAssumption, WithdrawInv, AnswerInv, NEW p \in Callers, Accepted(p)
    PROVE  AnswerInv'
<1>1. /\ requests \in Seq(Entries(tokens)) /\ Drivers \subseteq Callers /\ tokens \in 0..MaxTokens
      /\ exec \in [Callers -> [at : {"away", "queue", "held", "sent", "ok", "bad"}, token : 0..tokens]]
      /\ sent \in [Tokens -> Nat] /\ LockInv /\ WorkInv
    BY TransferAssumption DEF WithdrawInv, WithdrawTypeOK, Entries
<1>2. exec[p].token \in Tokens
    BY <1>1 DEF Accepted, LockInv, WorkInv
<1>3. /\ exec'[p].at = "sent" /\ exec'[p].token = exec[p].token
      /\ \A q \in Callers : q # p => exec'[q] = exec[q]
    BY <1>1 DEF Accepted, Moves
<1>4. sent'[exec[p].token] > 0 /\ \A k \in Tokens : sent[k] > 0 => sent'[k] > 0
    BY <1>1, <1>2 DEF Accepted
<1>5. \A i \in DOMAIN requests : requests[i].token \in Tokens
  <2>1. \A i \in DOMAIN requests : requests[i] \in Entries(tokens)
    BY <1>1
  <2>2. 1..tokens \subseteq Tokens
    BY <1>1, WithdrawAssumption DEF Tokens
  <2>3. QED
    BY <2>1, <2>2 DEF Entries
<1>6. \A q \in Callers : exec[q].token = 0 \/ exec[q].token \in Tokens
    BY <1>1, WithdrawAssumption DEF Tokens
<1>7. UNCHANGED <<requests, holder>> /\ \A k : Of(k)' = Of(k)
    BY DEF Accepted, Of
<1>8. \A q \in Callers : exec'[q].at = "sent" => sent'[exec'[q].token] > 0
  <2>1. \A q \in Callers : exec[q].at = "sent" => exec[q].token \in Tokens
    BY <1>1, <1>6 DEF LockInv, WorkInv
  <2>2. QED
    BY <1>3, <1>4, <2>1 DEF AnswerInv
<1>9. \A q \in Drivers : exec'[q].at = "ok" => sent'[exec'[q].token] > 0
  <2>1. \A q \in Drivers : exec[q].at = "ok" => exec[q].token \in Tokens
    BY <1>1, <1>6 DEF AnswerInv
  <2>2. QED
    BY <1>1, <1>3, <1>4, <2>1 DEF AnswerInv
<1>10. \A i \in DOMAIN requests' : requests'[i].status = "submitted" => sent'[requests'[i].token] > 0
    BY <1>4, <1>5, <1>7 DEF AnswerInv
<1>11. \A q \in Drivers : exec'[q].at # "away" => exec'[q].token > 0
  <2>1. exec[p].at # "away"
    BY DEF Accepted
  <2>2. QED
    BY <1>1, <1>3, <2>1 DEF AnswerInv
<1>12. \A q \in Drivers : exec'[q].at = "queue" =>
           \A i \in Of(exec[q].token)' : requests'[i].status = "requested" =>
               holder' # NoOne /\ i = Len(requests')
  <2>1. ASSUME NEW q \in Drivers, exec'[q].at = "queue"
        PROVE  exec'[q] = exec[q] /\ Of(exec[q].token)' = Of(exec[q].token)
    <3>1. exec'[q] = exec[q]
      BY <1>1, <1>3, <2>1
    <3>2. QED
      BY <1>7, <3>1 DEF Of
  <2>2. QED
    BY <1>7, <2>1 DEF AnswerInv
<1>13. QED
    BY <1>8, <1>9, <1>10, <1>11, <1>12 DEF AnswerInv

\* The holder's request is concluded, as submitted once it was sent.
LEMMA ConcludesAnswers ==
    ASSUME TransferAssumption, WithdrawAssumption, WithdrawInv, AnswerInv, NEW p \in Callers, Concludes(p)
    PROVE  AnswerInv'
<1> DEFINE n == Len(requests)
<1>1. /\ requests \in Seq(Entries(tokens)) /\ Drivers \subseteq Callers
      /\ exec \in [Callers -> [at : {"away", "queue", "held", "sent", "ok", "bad"}, token : 0..tokens]]
      /\ LockInv /\ WorkInv /\ holder = p /\ UNCHANGED <<tokens, sent>>
    BY TransferAssumption DEF WithdrawInv, WithdrawTypeOK, Entries, Concludes
<1>2. requests # <<>> /\ requests[n] = [token |-> exec[p].token, status |-> "requested"]
    BY <1>1 DEF WorkInv
<1>3. PICK s \in {"submitted", "failed"} :
          /\ requests' = [requests EXCEPT ![n].status = s]
          /\ s = "submitted" => exec[p].at = "sent" /\ Moves(p, "ok")
          /\ s = "failed" => Moves(p, "bad")
    BY DEF Concludes, Concluded
<1>4. /\ DOMAIN requests' = DOMAIN requests /\ Len(requests') = n
      /\ \A i \in DOMAIN requests : requests'[i].token = requests[i].token
                                  /\ (i # n => requests'[i] = requests[i])
      /\ requests'[n].status = s
    BY <1>1, <1>2, <1>3 DEF Entries
<1>5. /\ \A q \in Callers : q # p => exec'[q] = exec[q]
      /\ exec'[p].token = exec[p].token
      /\ exec'[p].at = IF s = "submitted" THEN "ok" ELSE "bad"
    BY <1>1, <1>3 DEF Moves
<1>6. s = "submitted" => sent[exec[p].token] > 0
    BY <1>3 DEF AnswerInv
<1>7. \A i \in DOMAIN requests' : requests'[i].status = "submitted" => sent'[requests'[i].token] > 0
  <2> SUFFICES ASSUME NEW i \in DOMAIN requests', requests'[i].status = "submitted"
               PROVE  sent[requests[i].token] > 0
    BY <1>1, <1>4
  <2>1. CASE i = n
    BY <1>2, <1>4, <1>6, <2>1
  <2>2. CASE i # n
    BY <1>4, <2>2 DEF AnswerInv
  <2>3. QED
    BY <2>1, <2>2
<1>8. \A q \in Drivers : exec'[q].at = "queue" =>
          \A i \in Of(exec[q].token)' : requests'[i].status # "requested"
  <2> SUFFICES ASSUME NEW q \in Drivers, exec'[q].at = "queue",
                      NEW i \in Of(exec[q].token)', requests'[i].status = "requested"
               PROVE  FALSE
    OBVIOUS
  <2>1. exec'[q] = exec[q]
    BY <1>1, <1>5
  <2>2. i # n /\ i \in DOMAIN requests /\ requests[i].token = exec[q].token /\ requests[i].status = "requested"
    BY <1>4, <2>1 DEF Of
  <2>3. QED
    BY <2>1, <2>2 DEF AnswerInv, Of
<1>9. QED
  <2>1. exec[p].at # "away"
    BY <1>1 DEF LockInv
  <2>2. QED
    BY <1>1, <1>5, <1>6, <1>7, <1>8, <2>1 DEF AnswerInv

\* A clerk calls, a caller leaves, a preview expires, or everything is lost but the jobs.
LEMMA OthersAnswer ==
    ASSUME TransferAssumption, WithdrawAssumption, WithdrawInv, AnswerInv,
           \/ Expires
           \/ \E p \in Clerks, k \in 1..tokens : Executes(p, k)
           \/ \E p \in Callers : Leaves(p)
           \/ WithdrawLost
           \/ UNCHANGED withdrawVars
    PROVE  AnswerInv'
<1>1. /\ Drivers \subseteq Callers /\ Clerks \subseteq Callers /\ Drivers \cap Clerks = {}
      /\ DOMAIN exec = Callers
    BY TransferAssumption DEF WithdrawInv, WithdrawTypeOK
<1>2. UNCHANGED <<tokens, requests, sent>> /\ \A k : Of(k)' = Of(k)
    BY DEF Expires, Executes, Leaves, WithdrawLost, withdrawVars, Of
<1>3. CASE WithdrawLost
  <2>1. \A p \in Callers : exec'[p].at = "away"
    BY <1>3 DEF WithdrawLost, Away
  <2>2. QED
    BY <1>1, <1>2, <2>1 DEF AnswerInv
<1>4. CASE ~WithdrawLost
  <2>1. holder' = holder
    BY <1>4 DEF Expires, Executes, Leaves, withdrawVars
  <2>2. \A q \in Callers : exec'[q] = exec[q] \/ exec'[q].at = "away" \/ (q \in Clerks /\ exec'[q].at = "queue")
    BY <1>1, <1>4 DEF Expires, Executes, Leaves, Away, withdrawVars
  <2>3. QED
    BY <1>1, <1>2, <2>1, <2>2 DEF AnswerInv
<1>5. QED
    BY <1>3, <1>4

-----------------------------------------------------------------------------
(* One transfer of a ticker, and one token of a transfer *)

JobSeq == jobs \in Seq(Jobs) /\ drive \in [Drivers -> DriveStates]

\* What a step may do to the jobs there are: the ticker stays, and no job but those of js
\* comes to a state that is not over.
Spares(js) ==
    \A i \in DOMAIN jobs :
        /\ i \in DOMAIN jobs' /\ jobs'[i].ticker = jobs[i].ticker
        /\ jobs'[i].state = jobs[i].state \/ jobs'[i].state \in Done \/ i \in js

\* One job's state is written.
LEMMA StateWritten ==
    ASSUME JobSeq, NEW j \in DOMAIN jobs, NEW s, jobs' = JobState(j, s)
    PROVE  /\ DOMAIN jobs' = DOMAIN jobs /\ Len(jobs') = Len(jobs)
           /\ jobs'[j] = [jobs[j] EXCEPT !.state = s] /\ jobs'[j].state = s
           /\ \A i \in DOMAIN jobs : i # j => jobs'[i] = jobs[i]
           /\ \A i \in DOMAIN jobs : jobs'[i].ticker = jobs[i].ticker
                                   /\ jobs'[i].live = jobs[i].live /\ jobs'[i].token = jobs[i].token
<1>1. \A i \in DOMAIN jobs : jobs[i] \in Jobs
    BY DEF JobSeq
<1>2. jobs' = [jobs EXCEPT ![j] = [jobs[j] EXCEPT !.state = s]]
    BY DEF JobState
<1>3. /\ [jobs[j] EXCEPT !.state = s].state = s /\ [jobs[j] EXCEPT !.state = s].ticker = jobs[j].ticker
      /\ [jobs[j] EXCEPT !.state = s].live = jobs[j].live /\ [jobs[j] EXCEPT !.state = s].token = jobs[j].token
    BY <1>1 DEF Jobs
<1>4. DOMAIN jobs' = DOMAIN jobs /\ Len(jobs') = Len(jobs)
    BY <1>2 DEF JobSeq
<1>5. jobs'[j] = [jobs[j] EXCEPT !.state = s] /\ \A i \in DOMAIN jobs : i # j => jobs'[i] = jobs[i]
    BY <1>2 DEF JobSeq
<1>6. QED
    BY <1>3, <1>4, <1>5

\* Nobody starts, and no job comes back to life but one that the only drive that moves
\* still has to write.
LEMMA DriveInvStays ==
    ASSUME JobSeq, DriveInv, DOMAIN jobs' = DOMAIN jobs,
           NEW js \in SUBSET {drive[p].job : p \in {q \in Drivers : Driven(q)}}, Spares(js),
           \A p \in Drivers :
               /\ drive'[p].at # "rest" =>
                     drive[p].at # "rest" /\ drive'[p].job = drive[p].job /\ jobs[drive[p].job].ticker \in hot'
               /\ Driven(p)' => Driven(p)
    PROVE  DriveInv'
<1>1. \A p \in Drivers : drive[p].at # "rest" => drive[p].job \in DOMAIN jobs
    BY DEF DriveInv
<1>2. \A i \in DOMAIN jobs : jobs'[i].ticker = jobs[i].ticker
    BY DEF Spares
<1>3. \A i \in js : \E p \in Drivers : Driven(p) /\ drive[p].at # "rest" /\ i = drive[p].job
    BY DEF Driven
<1>4. \A p \in Drivers : drive'[p].at # "rest" =>
          drive'[p].job \in DOMAIN jobs' /\ jobs'[drive'[p].job].ticker \in hot'
    BY <1>1, <1>2
<1>5. \A p, q \in Drivers : p # q /\ drive'[p].at # "rest" /\ drive'[q].at # "rest" =>
          jobs'[drive'[p].job].ticker # jobs'[drive'[q].job].ticker
    BY <1>1, <1>2 DEF DriveInv
<1>6. \A p \in Drivers : Driven(p)' =>
          \A i \in DOMAIN jobs' : i # drive'[p].job /\ jobs'[i].ticker = jobs'[drive'[p].job].ticker =>
              jobs'[i].state \in Done
  <2> SUFFICES ASSUME NEW p \in Drivers, Driven(p)', NEW i \in DOMAIN jobs,
                      i # drive[p].job, jobs[i].ticker = jobs[drive[p].job].ticker
               PROVE  jobs'[i].state \in Done
    BY <1>1, <1>2 DEF Driven
  <2>1. Driven(p) /\ drive[p].at # "rest"
    BY DEF Driven
  <2>2. jobs[i].state \in Done
    BY <2>1 DEF DriveInv
  <2>3. i \notin js
    BY <1>3, <2>1 DEF DriveInv
  <2>4. QED
    BY <2>2, <2>3 DEF Spares
<1>7. OneTransfer'
  <2> SUFFICES ASSUME NEW i \in DOMAIN jobs, NEW j \in DOMAIN jobs, i # j, jobs[i].ticker = jobs[j].ticker
               PROVE  jobs'[i].state \in Done \/ jobs'[j].state \in Done
    BY <1>2 DEF OneTransfer
  <2>1. CASE i \in js
    <3>1. PICK p \in Drivers : Driven(p) /\ drive[p].at # "rest" /\ i = drive[p].job
      BY <1>3, <2>1
    <3>2. jobs[j].state \in Done
      BY <3>1 DEF DriveInv
    <3>3. j \notin js
      BY <1>3, <3>1 DEF DriveInv
    <3>4. QED
      BY <3>2, <3>3 DEF Spares
  <2>2. CASE j \in js
    <3>1. PICK p \in Drivers : Driven(p) /\ drive[p].at # "rest" /\ j = drive[p].job
      BY <1>3, <2>2
    <3>2. jobs[i].state \in Done
      BY <3>1 DEF DriveInv
    <3>3. i \notin js
      BY <1>3, <3>1 DEF DriveInv
    <3>4. QED
      BY <3>2, <3>3 DEF Spares
  <2>3. CASE i \notin js /\ j \notin js
    <3>1. jobs[i].state \in Done \/ jobs[j].state \in Done
      BY DEF DriveInv, OneTransfer
    <3>2. QED
      BY <2>3, <3>1 DEF Spares
  <2>4. QED
    BY <2>1, <2>2, <2>3
<1>8. QED
    BY <1>4, <1>5, <1>6, <1>7 DEF DriveInv

\* Who starts one finds the ticker neither in its cooldown nor with a job.
LEMMA StartsApart ==
    ASSUME JobSeq, DriveInv, NEW p \in Drivers, NEW t \in Tickers, NEW d \in BOOLEAN, Starts(p, t, d)
    PROVE  DriveInv'
<1> DEFINE n == Len(jobs')
<1>1. /\ t \notin hot /\ hot' = hot \cup {t} /\ drive[p].at = "rest"
      /\ \A i \in DOMAIN jobs : jobs[i].ticker = t => jobs[i].state \in Done
    BY DEF Starts, Admits, Active
<1>2. jobs \in Seq(Jobs) /\ Len(jobs) \in Nat
    BY DEF JobSeq
<1>3. [ticker |-> t, live |-> ~d, by |-> p, token |-> 0, state |-> IF d THEN "COMPLETE" ELSE "PENDING"] \in Jobs
    BY DEF Jobs, Done
<1>4. /\ DOMAIN jobs' = DOMAIN jobs \cup {n} /\ n \notin DOMAIN jobs
      /\ \A i \in DOMAIN jobs : jobs'[i] = jobs[i]
      /\ jobs'[n].ticker = t
    BY <1>2, <1>3 DEF Starts
<1>5. /\ drive'[p].job = n /\ drive'[p].at # "rest"
      /\ \A q \in Drivers : q # p => drive'[q] = drive[q]
    BY DEF Starts, JobSeq, DriveStates
<1>6. \A q \in Drivers : q # p /\ drive[q].at # "rest" =>
          /\ drive[q].job \in DOMAIN jobs /\ jobs[drive[q].job].ticker \in hot
          /\ jobs[drive[q].job].ticker # t
    BY <1>1 DEF DriveInv
<1>7. \A q \in Drivers : drive'[q].at # "rest" =>
          drive'[q].job \in DOMAIN jobs' /\ jobs'[drive'[q].job].ticker \in hot'
    BY <1>1, <1>4, <1>5, <1>6
<1>8. \A q, r \in Drivers : q # r /\ drive'[q].at # "rest" /\ drive'[r].at # "rest" =>
          jobs'[drive'[q].job].ticker # jobs'[drive'[r].job].ticker
  <2>1. \A q \in Drivers : q # p /\ drive[q].at # "rest" => jobs'[drive'[q].job].ticker = jobs[drive[q].job].ticker
    BY <1>4, <1>5, <1>6
  <2>2. \A q, r \in Drivers : q # r /\ drive[q].at # "rest" /\ drive[r].at # "rest" =>
            jobs[drive[q].job].ticker # jobs[drive[r].job].ticker
    BY DEF DriveInv
  <2>3. jobs'[drive'[p].job].ticker = t
    BY <1>4, <1>5
  <2>4. \A q \in Drivers : q # p /\ drive'[q].at # "rest" => jobs'[drive'[q].job].ticker # t
    BY <1>5, <1>6, <2>1
  <2>5. \A q, r \in Drivers : q # p /\ r # p /\ q # r /\ drive'[q].at # "rest" /\ drive'[r].at # "rest" =>
            jobs'[drive'[q].job].ticker # jobs'[drive'[r].job].ticker
    BY <1>5, <2>1, <2>2
  <2>6. QED
    BY <2>3, <2>4, <2>5
<1>9. \A q \in Drivers : Driven(q)' =>
          \A i \in DOMAIN jobs' : i # drive'[q].job /\ jobs'[i].ticker = jobs'[drive'[q].job].ticker =>
              jobs'[i].state \in Done
  <2> SUFFICES ASSUME NEW q \in Drivers, Driven(q)', NEW i \in DOMAIN jobs',
                      i # drive'[q].job, jobs'[i].ticker = jobs'[drive'[q].job].ticker
               PROVE  jobs'[i].state \in Done
    OBVIOUS
  <2>1. CASE q = p
    BY <1>1, <1>4, <1>5, <2>1
  <2>2. CASE q # p
    <3>1. Driven(q) /\ drive[q].at # "rest" /\ drive'[q] = drive[q]
      BY <1>5, <2>2 DEF Driven
    <3>2. jobs'[drive'[q].job].ticker = jobs[drive[q].job].ticker /\ jobs[drive[q].job].ticker # t
      BY <1>4, <1>6, <2>2, <3>1
    <3>3. i \in DOMAIN jobs /\ jobs'[i] = jobs[i] /\ i # drive[q].job
      BY <1>4, <3>1, <3>2
    <3>4. jobs[i].ticker = jobs[drive[q].job].ticker
      BY <3>2, <3>3
    <3>5. QED
      BY <3>1, <3>3, <3>4 DEF DriveInv
  <2>3. QED
    BY <2>1, <2>2
<1>10. OneTransfer'
    BY <1>1, <1>4 DEF DriveInv, OneTransfer
<1>11. QED
    BY <1>7, <1>8, <1>9, <1>10 DEF DriveInv

LEMMA DriveInvKeeps ==
    ASSUME TransferAssumption, TransferInv, DriveInv, [Next]_vars
    PROVE  DriveInv'
<1> DEFINE driven == {drive[p].job : p \in {q \in Drivers : Driven(q)}}
<1>1. JobSeq
    BY DEF TransferInv, JobSeq, DriveStates
<1>2. Loop \in Drivers /\ Users \subseteq Drivers
    BY DEF Drivers
<1>3. CASE Ticks \/ \E u \in Users \cap cast : Triggers(u)
    BY <1>1, <1>2, <1>3, StartsApart DEF Ticks, Triggers, TransferInv
<1>4. CASE UNCHANGED <<jobs, hot, drive>>
    BY <1>4 DEF DriveInv, Driven, OneTransfer
<1>5. CASE Cools
  <2>1. jobs' = jobs /\ drive' = drive /\ \A p \in Drivers : drive[p].at # "rest" => jobs[drive[p].job].ticker \in hot'
    BY <1>5 DEF Cools, DriveInv
  <2>2. QED
    BY <2>1 DEF DriveInv, Driven, OneTransfer
<1>6. CASE \E j \in DOMAIN jobs : Judges(j) \/ Aborts(j)
  <2>1. PICK j \in DOMAIN jobs : Judges(j) \/ Aborts(j)
    BY <1>6
  <2>2. drive' = drive /\ hot' = hot /\ \E s \in Done : jobs' = jobs \/ jobs' = JobState(j, s)
    BY <2>1 DEF Judges, Aborts, Done
  <2>3. DOMAIN jobs' = DOMAIN jobs /\ Spares({})
    <3>1. CASE jobs' = jobs
      BY <3>1 DEF Spares
    <3>2. ASSUME NEW s \in Done, jobs' = JobState(j, s) PROVE DOMAIN jobs' = DOMAIN jobs /\ Spares({})
      BY <1>1, <3>2, StateWritten DEF Spares
    <3>3. QED
      BY <2>2, <3>1, <3>2
  <2>4. QED
    BY <1>1, <2>2, <2>3, DriveInvStays DEF Driven, DriveInv
<1>7. CASE \E p \in Drivers \cap cast : Drive(p)
  <2>1. PICK p \in Drivers : Drive(p)
    BY <1>7
  <2>2. /\ hot' = hot /\ drive[p].at # "rest" /\ drive[p].job \in DOMAIN jobs
        /\ \A q \in Drivers : drive[q].at # "rest" => jobs[drive[q].job].ticker \in hot
    BY <2>1 DEF Drive, Buys, Withdraws, Withdrawn, Tells, DriveInv
  <2>3. CASE Tells(p)
    <3>1. /\ jobs' = jobs /\ drive'[p].at = "rest"
          /\ \A q \in Drivers : q # p => drive'[q] = drive[q]
      BY <1>1, <2>3 DEF Tells, Resting, JobSeq
    <3>2. Spares({})
      BY <3>1 DEF Spares
    <3>3. QED
      BY <1>1, <2>2, <3>1, <3>2, DriveInvStays DEF Driven
  <2>4. CASE Buys(p) \/ Withdraws(p) \/ Withdrawn(p)
    <3>1. /\ Driven(p) /\ drive'[p].job = drive[p].job
          /\ \A q \in Drivers : q # p => drive'[q] = drive[q]
      BY <1>1, <2>4 DEF Buys, Withdraws, Withdrawn, Drives, Driven, JobSeq, DriveStates
    <3>2. {drive[p].job} \in SUBSET driven
      BY <3>1
    <3>3. \A q \in Drivers :
              /\ drive'[q].at # "rest" =>
                    drive[q].at # "rest" /\ drive'[q].job = drive[q].job /\ jobs[drive[q].job].ticker \in hot'
              /\ Driven(q)' => Driven(q)
      BY <2>2, <3>1 DEF Driven
    <3>4. CASE \E s : jobs' = JobState(drive[p].job, s)
      <4>1. DOMAIN jobs' = DOMAIN jobs /\ Spares({drive[p].job})
        BY <1>1, <2>2, <3>4, StateWritten, ZenonT(40) DEF Spares
      <4>2. QED
        BY <1>1, <3>2, <3>3, <4>1, DriveInvStays
    <3>5. CASE jobs' = [jobs EXCEPT ![drive[p].job].token = tokens']
      <4>1. DOMAIN jobs' = DOMAIN jobs /\ Spares({})
        <5>1. \A i \in DOMAIN jobs : jobs[i] \in Jobs
          BY <1>1 DEF JobSeq
        <5>2. QED
          BY <1>1, <3>5, <5>1 DEF JobSeq, Jobs, Spares
      <4>2. QED
        BY <1>1, <3>3, <4>1, DriveInvStays
    <3>6. QED
      BY <2>4, <3>4, <3>5 DEF Buys, Withdraws, Withdrawn
  <2>5. QED
    BY <2>1, <2>3, <2>4 DEF Drive
<1>8. CASE Crash
  <2>1. jobs' = jobs /\ \A p \in Drivers : drive'[p].at = "rest"
    BY <1>8 DEF Crash, Resting
  <2>2. QED
    BY <2>1 DEF DriveInv, Driven, OneTransfer
<1>9. QED
    BY <1>3, <1>4, <1>5, <1>6, <1>7, <1>8
       DEF Next, Sweeps, SetsDry, SetsEnabled, Midnight, Serves, Clerical, ownVars, vars

\* No token changes, and no job comes to wait.
LEMMA TokenInvStays ==
    ASSUME JobSeq, WithdrawAssumption, WithdrawTypeOK, TokenInv, AnswerInv', DOMAIN jobs' = DOMAIN jobs,
           tokens' \in Nat, tokens <= tokens', \A k \in Tokens : sent[k] > 0 => sent'[k] > 0,
           \A i \in DOMAIN jobs :
               /\ jobs'[i].token = jobs[i].token /\ jobs'[i].live = jobs[i].live
               /\ jobs'[i].state = jobs[i].state \/ jobs'[i].state # "WITHDRAWING",
           \A p \in Drivers :
               /\ Driven(p)' => Driven(p) /\ drive'[p].job = drive[p].job /\ drive[p].job \in DOMAIN jobs
               /\ drive'[p].at = "execute" =>
                     drive[p].at = "execute" /\ exec'[p].at # "away" /\ exec'[p].token = exec[p].token
    PROVE  TokenInv'
<1>1. tokens \in Nat /\ \A j \in DOMAIN jobs : jobs[j].token \in 0..tokens
    BY WithdrawAssumption DEF TokenInv, WithdrawTypeOK
<1>2. \A j \in DOMAIN jobs' : jobs'[j].token \in 0..tokens'
    BY <1>1
<1>3. \A i, j \in DOMAIN jobs' : i # j /\ jobs'[i].token = jobs'[j].token => jobs'[i].token = 0
    BY DEF TokenInv
<1>4. \A p \in Drivers : Driven(p)' =>
          jobs'[drive'[p].job].live /\ jobs'[drive'[p].job].state # "WITHDRAWING"
    BY DEF TokenInv
<1>5. \A p \in Drivers : drive'[p].at = "execute" =>
          exec'[p].at # "away" /\ exec'[p].token = jobs'[drive'[p].job].token
    BY DEF TokenInv, Driven
<1>6. WithdrawingWasSent'
  <2>1. \A j \in DOMAIN jobs : jobs'[j].state = "WITHDRAWING" => jobs[j].state = "WITHDRAWING"
    OBVIOUS
  <2>2. \A j \in DOMAIN jobs : jobs[j].token > 0 => jobs[j].token \in Tokens
    BY <1>1, WithdrawAssumption DEF Tokens, WithdrawTypeOK
  <2>3. \A j \in DOMAIN jobs : jobs'[j].state = "WITHDRAWING" =>
            /\ jobs[j].live /\ jobs[j].token > 0 /\ sent[jobs[j].token] > 0
            /\ \A i \in DOMAIN jobs : i # j => jobs[i].token # jobs[j].token
    BY <2>1 DEF TokenInv, WithdrawingWasSent
  <2>4. QED
    BY <2>2, <2>3 DEF WithdrawingWasSent
<1>7. QED
    BY <1>2, <1>3, <1>4, <1>5, <1>6 DEF TokenInv

\* A new job has no token yet.
LEMMA StartsTokenless ==
    ASSUME JobSeq, WithdrawTypeOK, WithdrawAssumption, DriveInv, TokenInv, AnswerInv',
           NEW p \in Drivers, NEW t \in Tickers, NEW d \in BOOLEAN, Starts(p, t, d)
    PROVE  TokenInv'
<1> DEFINE n == Len(jobs')
<1>1. jobs \in Seq(Jobs) /\ Len(jobs) \in Nat /\ tokens \in Nat
    BY WithdrawAssumption DEF JobSeq, WithdrawTypeOK
<1>2. [ticker |-> t, live |-> ~d, by |-> p, token |-> 0, state |-> IF d THEN "COMPLETE" ELSE "PENDING"] \in Jobs
    BY DEF Jobs, Done
<1>3. /\ DOMAIN jobs' = DOMAIN jobs \cup {n} /\ n \notin DOMAIN jobs
      /\ \A i \in DOMAIN jobs : jobs'[i] = jobs[i]
      /\ jobs'[n].token = 0 /\ jobs'[n].live = ~d /\ jobs'[n].state # "WITHDRAWING"
    BY <1>1, <1>2 DEF Starts
<1>4. /\ drive'[p].job = n /\ drive'[p].at = IF d THEN "tell" ELSE "buy"
      /\ \A q \in Drivers : q # p => drive'[q] = drive[q]
    BY DEF Starts, JobSeq, DriveStates
<1>5. UNCHANGED <<exec, tokens, sent>>
    BY DEF Starts, withdrawVars
<1>6. \A q \in Drivers : drive[q].at # "rest" => drive[q].job \in DOMAIN jobs
    BY DEF DriveInv
<1>7. /\ \A j \in DOMAIN jobs' : jobs'[j].token \in 0..tokens'
      /\ \A i, j \in DOMAIN jobs' : i # j /\ jobs'[i].token = jobs'[j].token => jobs'[i].token = 0
  <2>1. \A j \in DOMAIN jobs' : jobs'[j].token = IF j = n THEN 0 ELSE jobs[j].token
    BY <1>3
  <2>2. /\ \A j \in DOMAIN jobs : jobs[j].token \in 0..tokens
        /\ \A i, j \in DOMAIN jobs : i # j /\ jobs[i].token = jobs[j].token => jobs[i].token = 0
    BY DEF TokenInv
  <2>3. QED
    <3>1. ASSUME NEW j \in DOMAIN jobs' PROVE jobs'[j].token \in 0..tokens'
      <4>1. tokens' = tokens /\ 0 \in 0..tokens
        BY <1>1, <1>5
      <4>2. CASE j = n
        BY <1>3, <4>1, <4>2
      <4>3. CASE j # n
        BY <1>3, <2>2, <4>1, <4>3
      <4>4. QED
        BY <4>2, <4>3
    <3>2. ASSUME NEW i \in DOMAIN jobs', NEW j \in DOMAIN jobs', i # j, jobs'[i].token = jobs'[j].token
          PROVE  jobs'[i].token = 0
      <4>1. CASE i = n \/ j = n
        BY <2>1, <3>2, <4>1
      <4>2. CASE i # n /\ j # n
        BY <1>3, <2>2, <3>2, <4>2
      <4>3. QED
        BY <4>1, <4>2
    <3>3. QED
      BY <3>1, <3>2
<1>8. \A q \in Drivers : Driven(q)' =>
          jobs'[drive'[q].job].live /\ jobs'[drive'[q].job].state # "WITHDRAWING"
  <2> SUFFICES ASSUME NEW q \in Drivers, Driven(q)'
               PROVE  jobs'[drive'[q].job].live /\ jobs'[drive'[q].job].state # "WITHDRAWING"
    OBVIOUS
  <2>1. CASE q = p
    BY <1>3, <1>4, <2>1 DEF Driven
  <2>2. CASE q # p
    <3>1. Driven(q) /\ drive'[q] = drive[q] /\ drive[q].job \in DOMAIN jobs
      BY <1>4, <1>6, <2>2 DEF Driven
    <3>2. jobs'[drive'[q].job] = jobs[drive[q].job]
      BY <1>3, <3>1
    <3>3. QED
      BY <3>1, <3>2 DEF TokenInv
  <2>3. QED
    BY <2>1, <2>2
<1>9. \A q \in Drivers : drive'[q].at = "execute" =>
          exec'[q].at # "away" /\ exec'[q].token = jobs'[drive'[q].job].token
  <2>1. \A q \in Drivers : drive'[q].at = "execute" => q # p /\ drive'[q] = drive[q] /\ jobs'[drive[q].job] = jobs[drive[q].job]
    BY <1>3, <1>4, <1>6
  <2>2. QED
    BY <1>5, <2>1 DEF TokenInv
<1>10. WithdrawingWasSent'
  <2>1. \A j \in DOMAIN jobs' : jobs'[j].state = "WITHDRAWING" => j \in DOMAIN jobs /\ jobs[j].state = "WITHDRAWING" /\ jobs'[j] = jobs[j]
    BY <1>3
  <2>2. \A j \in DOMAIN jobs' : jobs'[j].state = "WITHDRAWING" =>
            jobs'[j].live /\ jobs'[j].token > 0 /\ sent[jobs'[j].token] > 0
    BY <2>1 DEF TokenInv, WithdrawingWasSent
  <2>3. \A i, j \in DOMAIN jobs' : i # j /\ jobs'[i].token = jobs'[j].token => ~(jobs'[j].token > 0)
    BY <1>7
  <2>4. QED
    BY <1>5, <2>2, <2>3 DEF WithdrawingWasSent
<1>11. QED
    BY <1>7, <1>8, <1>9, <1>10 DEF TokenInv

\* The jobs of two drives are two.
LEMMA JobsApart ==
    ASSUME DriveInv, NEW p \in Drivers, NEW q \in Drivers, p # q, drive[p].at # "rest", drive[q].at # "rest"
    PROVE  drive[p].job # drive[q].job
    BY DEF DriveInv

\* The fresh token is the driven job's alone, and its driver executes it.
LEMMA WithdrawsOwn ==
    ASSUME JobSeq, WithdrawTypeOK, WithdrawAssumption, TransferAssumption, DriveInv, TokenInv, AnswerInv',
           NEW p \in Drivers, drive[p].at = "preview", Previews, Drives(p, "execute"),
           exec' = [exec EXCEPT ![p] = [at |-> "queue", token |-> tokens']],
           jobs' = [jobs EXCEPT ![drive[p].job].token = tokens']
    PROVE  TokenInv'
<1> DEFINE n == drive[p].job
<1>1. tokens \in Nat /\ tokens' = tokens + 1 /\ sent' = sent /\ n \in DOMAIN jobs
    BY WithdrawAssumption DEF Previews, WithdrawTypeOK, DriveInv
<1>2. /\ DOMAIN jobs' = DOMAIN jobs /\ jobs'[n].token = tokens'
      /\ jobs'[n].live = jobs[n].live /\ jobs'[n].state = jobs[n].state
      /\ \A i \in DOMAIN jobs : i # n => jobs'[i] = jobs[i]
  <2>1. jobs[n] \in Jobs
    BY <1>1 DEF JobSeq
  <2>2. QED
    BY <1>1, <2>1 DEF JobSeq, Jobs
<1>3. /\ drive'[p].job = n /\ drive'[p].at = "execute"
      /\ \A q \in Drivers : q # p => drive'[q] = drive[q]
    BY DEF Drives, JobSeq, DriveStates
<1>4. /\ exec'[p].at = "queue" /\ exec'[p].token = tokens'
      /\ \A q \in Drivers : q # p => exec'[q] = exec[q]
    BY TransferAssumption DEF WithdrawTypeOK
<1>5. \A q \in Drivers : q # p /\ drive[q].at # "rest" => drive[q].job # n /\ drive[q].job \in DOMAIN jobs
    BY JobsApart DEF DriveInv
<1>6. \A j \in DOMAIN jobs : jobs[j].token \in 0..tokens
    BY DEF TokenInv
<1>7. /\ \A j \in DOMAIN jobs' : jobs'[j].token \in 0..tokens'
      /\ \A i, j \in DOMAIN jobs' : i # j /\ jobs'[i].token = jobs'[j].token => jobs'[i].token = 0
  <2>1. \A j \in DOMAIN jobs : jobs'[j].token = IF j = n THEN tokens + 1 ELSE jobs[j].token
    BY <1>1, <1>2
  <2>2. \A i, j \in DOMAIN jobs : i # j /\ jobs[i].token = jobs[j].token => jobs[i].token = 0
    BY DEF TokenInv
  <2>3. QED
    BY <1>1, <1>2, <1>6, <2>1, <2>2
<1>8. \A q \in Drivers : Driven(q)' =>
          jobs'[drive'[q].job].live /\ jobs'[drive'[q].job].state # "WITHDRAWING"
    BY <1>2, <1>3, <1>5 DEF Driven, TokenInv
<1>9. \A q \in Drivers : drive'[q].at = "execute" =>
          exec'[q].at # "away" /\ exec'[q].token = jobs'[drive'[q].job].token
    BY <1>2, <1>3, <1>4, <1>5 DEF TokenInv
<1>10. WithdrawingWasSent'
  <2>1. jobs[n].state # "WITHDRAWING"
    BY DEF TokenInv, Driven
  <2>2. \A j \in DOMAIN jobs : jobs'[j].state = "WITHDRAWING" => j # n /\ jobs'[j] = jobs[j]
    BY <1>2, <2>1
  <2>3. \A j \in DOMAIN jobs : jobs'[j].state = "WITHDRAWING" =>
            jobs[j].live /\ jobs[j].token > 0 /\ sent[jobs[j].token] > 0
    BY <2>2 DEF TokenInv, WithdrawingWasSent
  <2>4. QED
    BY <1>1, <1>2, <1>7, <2>2, <2>3 DEF WithdrawingWasSent
<1>11. QED
    BY <1>7, <1>8, <1>9, <1>10 DEF TokenInv

\* Who is told ok, of a token that was sent, leaves its job waiting.
LEMMA WithdrawnWasSent ==
    ASSUME JobSeq, WithdrawTypeOK, WithdrawAssumption, TransferAssumption, DriveInv, TokenInv, AnswerInv',
           NEW p \in Drivers, Withdrawn(p), exec[p].at = "ok"
    PROVE  TokenInv'
<1> DEFINE n == drive[p].job
<1>1. n \in DOMAIN jobs /\ UNCHANGED <<tokens, sent>> /\ drive[p].at = "execute"
    BY DEF DriveInv, Withdrawn, Leaves
<1>2. jobs' = JobState(n, "WITHDRAWING")
    BY DEF Withdrawn
<1>3. /\ DOMAIN jobs' = DOMAIN jobs
      /\ \A i \in DOMAIN jobs : i # n => jobs'[i] = jobs[i]
      /\ \A i \in DOMAIN jobs : jobs'[i].live = jobs[i].live /\ jobs'[i].token = jobs[i].token
    BY ONLY JobSeq, <1>1, <1>2, StateWritten
<1>4. drive'[p].at = "tell" /\ \A q \in Drivers : q # p => drive'[q] = drive[q] /\ exec'[q] = exec[q]
    BY TransferAssumption DEF Withdrawn, Drives, Leaves, JobSeq, DriveStates, WithdrawTypeOK
<1>5. \A q \in Drivers : q # p /\ drive[q].at # "rest" => drive[q].job # n /\ drive[q].job \in DOMAIN jobs
    BY <1>1, JobsApart DEF DriveInv
<1>6. jobs[n].live /\ jobs[n].token > 0 /\ sent[jobs[n].token] > 0
    BY <1>1 DEF TokenInv, AnswerInv, Driven
<1>7. /\ \A j \in DOMAIN jobs' : jobs'[j].token \in 0..tokens'
      /\ \A i, j \in DOMAIN jobs' : i # j /\ jobs'[i].token = jobs'[j].token => jobs'[i].token = 0
    BY <1>1, <1>3 DEF TokenInv
<1>8. \A q \in Drivers : Driven(q)' =>
          jobs'[drive'[q].job].live /\ jobs'[drive'[q].job].state # "WITHDRAWING"
    BY <1>3, <1>4, <1>5 DEF Driven, TokenInv
<1>9. \A q \in Drivers : drive'[q].at = "execute" =>
          exec'[q].at # "away" /\ exec'[q].token = jobs'[drive'[q].job].token
    BY <1>3, <1>4, <1>5 DEF TokenInv
<1>10. WithdrawingWasSent'
  <2>1. \A j \in DOMAIN jobs : jobs'[j].state = "WITHDRAWING" =>
            jobs[j].live /\ jobs[j].token > 0 /\ sent[jobs[j].token] > 0
    BY <1>3, <1>6 DEF TokenInv, WithdrawingWasSent
  <2>2. \A j \in DOMAIN jobs : jobs[j].token \in Nat
    <3>1. \A j \in DOMAIN jobs : jobs[j] \in Jobs
      BY DEF JobSeq
    <3>2. QED
      BY <3>1 DEF Jobs
  <2>3. QED
    BY <1>1, <1>3, <1>7, <2>1, <2>2 DEF WithdrawingWasSent
<1>11. QED
    BY <1>7, <1>8, <1>9, <1>10 DEF TokenInv

LEMMA TokenInvKeeps ==
    ASSUME TransferAssumption, WithdrawAssumption, TransferInv, DriveInv, TokenInv, [Next]_vars
    PROVE  TokenInv'
<1>1. /\ JobSeq /\ WithdrawInv /\ WithdrawTypeOK /\ LockInv /\ AnswerInv
      /\ Drivers \subseteq Callers /\ Clerks \subseteq Callers /\ Drivers \cap Clerks = {} /\ cast \subseteq Callers
      /\ Loop \in Drivers /\ Users \subseteq Drivers
    BY TransferAssumption DEF TransferInv, JobSeq, DriveStates, WithdrawInv, TokenInv, Drivers
<1>2. tokens \in Nat /\ sent \in [Tokens -> Nat]
    BY <1>1, WithdrawAssumption DEF WithdrawTypeOK
<1>3. \A p \in Drivers : drive[p].at # "rest" => drive[p].job \in DOMAIN jobs
    BY DEF DriveInv
<1>4. \A p \in Drivers :
          /\ Driven(p) => drive[p].job \in DOMAIN jobs
          /\ drive[p].at = "execute" => exec[p].at # "away"
    BY <1>3 DEF Driven, TokenInv
<1>5. CASE Ticks \/ \E u \in Users \cap cast : Triggers(u)
  <2>1. PICK p \in Drivers, t \in Tickers, d \in BOOLEAN : Starts(p, t, d)
    BY <1>1, <1>5 DEF Ticks, Triggers, TransferInv
  <2>2. AnswerInv'
    BY <1>1, <2>1, OthersAnswer DEF Starts
  <2>3. QED
    BY <1>1, <2>1, <2>2, StartsTokenless
<1>6. CASE Sweeps \/ SetsDry \/ SetsEnabled \/ Midnight \/ Cools \/ UNCHANGED vars
  <2>1. UNCHANGED <<withdrawVars, jobs, drive>>
    BY <1>6 DEF Sweeps, SetsDry, SetsEnabled, Midnight, Cools, vars, ownVars
  <2>2. AnswerInv'
    BY <1>1, <2>1, OthersAnswer
  <2>3. QED
    BY <1>1, <1>2, <1>4, <2>1, <2>2, TokenInvStays DEF withdrawVars, Driven
<1>7. CASE \E j \in DOMAIN jobs : Judges(j) \/ Aborts(j)
  <2>1. PICK j \in DOMAIN jobs : Judges(j) \/ Aborts(j)
    BY <1>7
  <2>2. UNCHANGED <<withdrawVars, drive>> /\ \E s \in Done : jobs' = jobs \/ jobs' = JobState(j, s)
    BY <2>1 DEF Judges, Aborts, Done
  <2>3. AnswerInv'
    BY <1>1, <2>2, OthersAnswer
  <2>4. /\ DOMAIN jobs' = DOMAIN jobs
        /\ \A i \in DOMAIN jobs :
               /\ jobs'[i].token = jobs[i].token /\ jobs'[i].live = jobs[i].live
               /\ jobs'[i].state = jobs[i].state \/ jobs'[i].state # "WITHDRAWING"
    <3>1. CASE jobs' = jobs
      BY <3>1
    <3>2. ASSUME NEW s \in Done, jobs' = JobState(j, s)
          PROVE  /\ DOMAIN jobs' = DOMAIN jobs
                 /\ \A i \in DOMAIN jobs :
                        /\ jobs'[i].token = jobs[i].token /\ jobs'[i].live = jobs[i].live
                        /\ jobs'[i].state = jobs[i].state \/ jobs'[i].state # "WITHDRAWING"
      BY ONLY <1>1, <3>2, StateWritten DEF Done
    <3>3. QED
      BY <2>2, <3>1, <3>2
  <2>5. QED
    BY <1>1, <1>2, <1>4, <2>2, <2>3, <2>4, TokenInvStays DEF withdrawVars, Driven
<1>8. CASE \E p \in Drivers \cap cast : Drive(p)
  <2>1. PICK p \in Drivers : Drive(p)
    BY <1>8
  <2> DEFINE n == drive[p].job
  <2>2. n \in DOMAIN jobs
    BY <1>3, <2>1 DEF Drive, Buys, Withdraws, Withdrawn, Tells
  <2>3. \A q \in Drivers : q # p => drive'[q] = drive[q]
    BY <1>1, <2>1 DEF Drive, Buys, Withdraws, Withdrawn, Tells, Drives, JobSeq
  <2>4. CASE /\ \E s : s # "WITHDRAWING" /\ jobs' = JobState(n, s)
             /\ Driven(p) /\ \E at \in {"preview", "tell"} : Drives(p, at)
             /\ UNCHANGED withdrawVars \/ Leaves(p)
    <3>1. /\ DOMAIN jobs' = DOMAIN jobs
          /\ \A i \in DOMAIN jobs :
                 /\ jobs'[i].token = jobs[i].token /\ jobs'[i].live = jobs[i].live
                 /\ jobs'[i].state = jobs[i].state \/ jobs'[i].state # "WITHDRAWING"
      <4>1. PICK s : s # "WITHDRAWING" /\ jobs' = JobState(n, s)
        BY <2>4
      <4>2. QED
        BY ONLY <1>1, <2>2, <4>1, StateWritten
    <3>2. drive'[p].at \in {"preview", "tell"} /\ drive'[p].job = n
      BY <1>1, <2>4 DEF Drives, JobSeq, DriveStates
    <3>3. AnswerInv'
      BY <1>1, <2>4, OthersAnswer
    <3>4. UNCHANGED <<tokens, sent>> /\ \A q \in Drivers : q # p => exec'[q] = exec[q]
      BY <1>1, <2>4 DEF withdrawVars, Leaves, WithdrawTypeOK
    <3>5. \A q \in Drivers :
              /\ Driven(q)' => Driven(q) /\ drive'[q].job = drive[q].job /\ drive[q].job \in DOMAIN jobs
              /\ drive'[q].at = "execute" =>
                    drive[q].at = "execute" /\ exec'[q].at # "away" /\ exec'[q].token = exec[q].token
      BY <1>4, <2>2, <2>3, <2>4, <3>2, <3>4 DEF Driven
    <3>6. QED
      BY <1>1, <1>2, <3>1, <3>3, <3>4, <3>5, TokenInvStays
  <2>5. CASE Buys(p)
    BY <2>4, <2>5 DEF Buys, Driven
  <2>6. CASE Withdraws(p)
    <3>1. CASE /\ Previews /\ exec' = [exec EXCEPT ![p] = [at |-> "queue", token |-> tokens']]
               /\ jobs' = [jobs EXCEPT ![n].token = tokens'] /\ Drives(p, "execute")
      <4>1. AnswerInv'
        BY <1>1, <3>1, PreviewAnswers
      <4>2. QED
        BY <1>1, <2>6, <3>1, <4>1, WithdrawsOwn DEF Withdraws
    <3>2. CASE /\ \E s \in {"STUCK", "FAILED"} : jobs' = JobState(n, s)
               /\ Drives(p, "tell") /\ UNCHANGED withdrawVars
      BY <2>4, <2>6, <3>2 DEF Withdraws, Driven
    <3>3. QED
      BY <2>6, <3>1, <3>2 DEF Withdraws
  <2>7. CASE Withdrawn(p)
    <3>1. CASE exec[p].at = "ok"
      <4>1. AnswerInv'
        BY <1>1, <2>7, OthersAnswer DEF Withdrawn
      <4>2. QED
        BY <1>1, <2>7, <3>1, <4>1, WithdrawnWasSent
    <3>2. CASE exec[p].at # "ok"
      BY <2>4, <2>7, <3>2 DEF Withdrawn, Driven
    <3>3. QED
      BY <3>1, <3>2
  <2>8. CASE Tells(p)
    <3>1. UNCHANGED <<withdrawVars, jobs>> /\ drive'[p].at = "rest"
      BY <1>1, <2>8 DEF Tells, JobSeq, Resting
    <3>2. AnswerInv'
      BY <1>1, <3>1, OthersAnswer
    <3>3. \A q \in Drivers :
              /\ Driven(q)' => Driven(q) /\ drive'[q].job = drive[q].job /\ drive[q].job \in DOMAIN jobs
              /\ drive'[q].at = "execute" =>
                    drive[q].at = "execute" /\ exec'[q].at # "away" /\ exec'[q].token = exec[q].token
      BY <1>4, <2>3, <3>1 DEF Driven, withdrawVars
    <3>4. QED
      BY <1>1, <1>2, <3>1, <3>2, <3>3, TokenInvStays DEF withdrawVars
  <2>9. QED
    BY <2>1, <2>5, <2>6, <2>7, <2>8 DEF Drive
<1>9. CASE \E p \in cast : Serves(p)
  <2>1. PICK p \in Callers : Serves(p)
    BY <1>1, <1>9
  <2>2. AnswerInv'
    BY <1>1, <2>1, EntersAnswers, AcceptedAnswers, ConcludesAnswers DEF Serves
  <2>3. UNCHANGED <<tokens, jobs, drive>>
    BY <2>1 DEF Serves, Enters, Accepted, Concludes, ownVars
  <2>4. \A k \in Tokens : sent[k] > 0 => sent'[k] > 0
    BY <1>2, <2>1 DEF Serves, Enters, Accepted, Concludes
  <2>5. \A q \in Callers : exec[q].at # "away" => exec'[q].at # "away" /\ exec'[q].token = exec[q].token
    <3>1. \E at \in {"held", "sent", "ok", "bad"} : Moves(p, at)
      BY <2>1 DEF Serves, Enters, Accepted, Concludes
    <3>2. QED
      BY <1>1, <3>1 DEF Moves, WithdrawTypeOK
  <2>6. \A q \in Drivers :
            /\ Driven(q)' => Driven(q) /\ drive'[q].job = drive[q].job /\ drive[q].job \in DOMAIN jobs
            /\ drive'[q].at = "execute" =>
                  drive[q].at = "execute" /\ exec'[q].at # "away" /\ exec'[q].token = exec[q].token
    BY <1>1, <1>4, <2>3, <2>5 DEF Driven
  <2>7. QED
    BY <1>1, <1>2, <2>2, <2>3, <2>4, <2>6, TokenInvStays
<1>10. CASE (\E c \in Clerks \cap cast : Clerical(c)) \/ (Expires /\ UNCHANGED ownVars)
  <2>1. /\ UNCHANGED <<jobs, drive, sent>> /\ tokens' \in Nat /\ tokens <= tokens'
        /\ \A q \in Drivers : exec'[q] = exec[q]
    BY <1>1, <1>2, <1>10 DEF Clerical, Expires, Previews, Executes, Leaves, ownVars, WithdrawTypeOK
  <2>2. AnswerInv'
    BY <1>1, <1>10, PreviewAnswers, OthersAnswer DEF Clerical
  <2>3. \A q \in Drivers :
            /\ Driven(q)' => Driven(q) /\ drive'[q].job = drive[q].job /\ drive[q].job \in DOMAIN jobs
            /\ drive'[q].at = "execute" =>
                  drive[q].at = "execute" /\ exec'[q].at # "away" /\ exec'[q].token = exec[q].token
    BY <1>4, <2>1 DEF Driven
  <2>4. QED
    BY <1>1, <2>1, <2>2, <2>3, TokenInvStays
<1>11. CASE Crash
  <2>1. UNCHANGED <<jobs, tokens, sent>> /\ \A q \in Drivers : drive'[q].at = "rest"
    BY <1>11 DEF Crash, WithdrawLost, Resting
  <2>2. AnswerInv'
    BY <1>1, <1>11, OthersAnswer DEF Crash
  <2>3. QED
    BY <1>1, <1>2, <2>1, <2>2, TokenInvStays DEF Driven
<1>12. QED
    BY <1>5, <1>6, <1>7, <1>8, <1>9, <1>10, <1>11 DEF Next

\* The inductive invariant of the transfers, above the one of the withdrawals.
THEOREM DriveAndTokenInvHold == Spec => [](DriveInv /\ TokenInv)
<1>1. Init => DriveInv /\ TokenInv
    BY TransferAssumption
       DEF Init, WithdrawInit, Drivers, Resting, Away, DriveInv, TokenInv, AnswerInv, Driven,
           OneTransfer, WithdrawingWasSent
<1>2. TransferInv /\ DriveInv /\ TokenInv /\ [Next]_vars => (DriveInv /\ TokenInv)'
    BY DriveInvKeeps, TokenInvKeeps, TransferAssumption, WithdrawAssumption
<1>3. QED
    BY <1>1, <1>2, TransferInvHolds, PTL DEF Spec

\* A ticker has one transfer at a time, though the drive of an aborted job brings it back
\* to life and a trigger may come at any moment: for any tickers, triggers and jobs.
THEOREM OneTransferHolds == Spec => []OneTransfer
<1>1. DriveInv => OneTransfer
    BY DEF DriveInv
<1>2. QED
    BY <1>1, DriveAndTokenInvHold, PTL

\* No job waits for the deposit of a withdrawal that was not sent, nor two for one, with
\* clerks who execute any token and whatever restarts between.
THEOREM WithdrawingWasSentHolds == Spec => []WithdrawingWasSent
<1>1. TokenInv => WithdrawingWasSent
    BY DEF TokenInv
<1>2. QED
    BY <1>1, DriveAndTokenInvHold, PTL
=============================================================================
