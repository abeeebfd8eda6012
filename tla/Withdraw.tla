------------------------------ MODULE Withdraw ------------------------------
(***************************************************************************)
(* WithdrawService: a withdrawal is previewed, which makes a token, and    *)
(* executed by its token under a lock; the jobs are saved to a file, the   *)
(* previews are not.  Amounts are left out: the exchange takes or refuses. *)
(***************************************************************************)
EXTENDS Integers, Sequences

CONSTANTS
    Callers,      \* the tasks that may execute a withdrawal
    NoOne,
    MaxTokens, MaxRequests     \* bounds: previews, jobs

ASSUME WithdrawAssumption == NoOne \notin Callers /\ {MaxTokens, MaxRequests} \subseteq Nat

VARIABLES
    tokens,     \* the tokens made so far are 1..tokens
    previews,   \* _previews
    requests,   \* the jobs of the store, each with its token and status
    holder,     \* who holds _execute_lock
    exec,       \* exec[p]: where p is, and with which token
    sent        \* sent[k]: the withdrawals of token k the exchange has accepted

withdrawVars == <<tokens, previews, requests, holder, exec, sent>>

Tokens == 1..MaxTokens
Away == [at |-> "away", token |-> 0]

WithdrawInit ==
    /\ tokens = 0 /\ previews = {} /\ requests = <<>> /\ holder = NoOne
    /\ exec = [p \in Callers |-> Away]
    /\ sent = [k \in Tokens |-> 0]

Moves(p, at) == exec' = [exec EXCEPT ![p].at = at]

-----------------------------------------------------------------------------
\* preview: the networks, the address, the balance and the limits agree.
Previews ==
    /\ tokens < MaxTokens
    /\ tokens' = tokens + 1 /\ previews' = previews \cup {tokens'}
    /\ UNCHANGED <<requests, holder, sent>>

\* Its time is over (_cleanup_previews).
Expires ==
    /\ \E k \in previews : previews' = previews \ {k}
    /\ UNCHANGED <<tokens, requests, holder, exec, sent>>

\* execute is called.
Executes(p, k) ==
    /\ exec[p].at = "away"
    /\ exec' = [exec EXCEPT ![p] = [at |-> "queue", token |-> k]]
    /\ UNCHANGED <<tokens, previews, requests, holder, sent>>

Of(k) == {i \in DOMAIN requests : requests[i].token = k}

\* find_by_preview_token: the first job of the token, and it has not failed.
Known(k) ==
    \E i \in Of(k) : requests[i].status # "failed" /\ \A j \in Of(k) : i <= j

\* Mutant of Enters: the jobs are not looked through.
EntersAfresh(p) ==
    LET k == exec[p].token IN
    /\ exec[p].at = "queue" /\ holder = NoOne
    /\ Len(requests) < MaxRequests \/ k \notin previews
    /\ \/ k \notin previews /\ Moves(p, "bad") /\ UNCHANGED <<requests, holder>>
       \/ /\ k \in previews
          /\ requests' = Append(requests, [token |-> k, status |-> "requested"])
          /\ Moves(p, "held") /\ holder' = p
    /\ UNCHANGED <<tokens, previews, sent>>

\* With the lock: the job there is, or no preview, or a job is created and saved.
Enters(p) ==
    LET k == exec[p].token IN
    /\ exec[p].at = "queue" /\ holder = NoOne
    /\ Len(requests) < MaxRequests \/ Known(k) \/ k \notin previews
    /\ \/ Known(k) /\ Moves(p, "ok") /\ UNCHANGED <<requests, holder>>
       \/ ~Known(k) /\ k \notin previews /\ Moves(p, "bad") /\ UNCHANGED <<requests, holder>>
       \/ /\ ~Known(k) /\ k \in previews
          /\ requests' = Append(requests, [token |-> k, status |-> "requested"])
          /\ Moves(p, "held") /\ holder' = p
    /\ UNCHANGED <<tokens, previews, sent>>

\* The address was fetched again and is the same, nothing is missing, and the exchange
\* accepts the withdrawal.
Accepted(p) ==
    /\ exec[p].at = "held"
    /\ Moves(p, "sent")
    /\ sent' = [sent EXCEPT ![exec[p].token] = @ + 1]
    /\ UNCHANGED <<tokens, previews, requests, holder>>

Concluded(status) == [requests EXCEPT ![Len(requests)].status = status]

\* The job is updated and the lock released: the exchange has answered, or the address
\* has changed, the request was refused, or its answer is lost.
Concludes(p) ==
    /\ holder = p /\ holder' = NoOne
    /\ \/ exec[p].at = "sent" /\ requests' = Concluded("submitted") /\ Moves(p, "ok")
       \/ requests' = Concluded("failed") /\ Moves(p, "bad")
    /\ UNCHANGED <<tokens, previews, sent>>

\* The caller has its answer.
Leaves(p) ==
    /\ exec[p].at \in {"ok", "bad"}
    /\ exec' = [exec EXCEPT ![p] = Away]
    /\ UNCHANGED <<tokens, previews, requests, holder, sent>>

\* The process ends: the previews and the calls are gone, the jobs are in the file.
WithdrawLost ==
    /\ previews' = {} /\ holder' = NoOne
    /\ exec' = [p \in Callers |-> Away]
    /\ UNCHANGED <<tokens, requests, sent>>

-----------------------------------------------------------------------------
(* Properties *)

WithdrawTypeOK ==
    /\ tokens \in 0..MaxTokens /\ previews \subseteq 1..tokens
    /\ requests \in Seq([token : 1..tokens, status : {"requested", "submitted", "failed"}])
    /\ holder \in Callers \cup {NoOne}
    /\ exec \in [Callers -> [at : {"away", "queue", "held", "sent", "ok", "bad"}, token : 0..tokens]]
    /\ sent \in [Tokens -> Nat]

Failed(k) == \E i \in Of(k) : requests[i].status = "failed"

\* Until an execution of a token has failed, its coins leave once at most, whoever calls
\* execute, together or again, and whatever restarts between (_execute_lock, the job that
\* is saved before the request, and the previews that are not).
SentOnce == \A k \in Tokens : ~Failed(k) => sent[k] <= 1

\* Who is past the lock's door has the lock.
LockInv == \A p \in Callers : exec[p].at \in {"held", "sent"} <=> holder = p

\* The holder's job is the last of the store and is still to be concluded; what the
\* holder has still to send was not sent.
WorkInv == \A p \in Callers : holder = p =>
    LET k == exec[p].token IN
    /\ k \in Tokens /\ requests # <<>>
    /\ requests[Len(requests)] = [token |-> k, status |-> "requested"]
    /\ exec[p].at = "held" /\ ~Failed(k) => sent[k] = 0

\* What was sent has a job in the store.
SentHasJob == \A k \in Tokens : sent[k] > 0 => Of(k) # {}

\* The inductive invariant of SentOnce.
WithdrawInv == WithdrawTypeOK /\ LockInv /\ WorkInv /\ SentHasJob /\ SentOnce

\* A preview is withdrawn once: a call after the first is answered with its job, as
\* 'idempotent' says.
ExecuteIsIdempotent ==
    [][\A k \in Tokens :
          (\E i \in Of(k) : requests[i].status = "submitted") => sent'[k] = sent[k]]_sent
=============================================================================
