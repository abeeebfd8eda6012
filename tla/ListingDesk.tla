---------------------------- MODULE ListingDesk -----------------------------
(***************************************************************************)
(* The strategies that main registers with the listing detector, in one    *)
(* process: each gets its own task for each event.                         *)
(***************************************************************************)
EXTENDS ListingExecutor, CrossLong, BithumbFollower

vars == <<worldVars, shortVars, longVars, followVars>>

Init ==
    /\ WorldInit /\ ExecInit /\ LongInit /\ FollowInit
    /\ liveShort => "short" \in started
    /\ liveLong => "long" \in started
    /\ liveFollow => "follower" \in started

Next ==
    \/ WorldNext /\ UNCHANGED <<shortVars, longVars, followVars>>
    \/ "short" \in started /\ ExecNext /\ UNCHANGED <<longVars, followVars>>
    \/ "long" \in started /\ LongNext /\ UNCHANGED <<shortVars, followVars>>
    \/ "follower" \in started /\ FollowNext /\ UNCHANGED <<shortVars, longVars>>

Spec == Init /\ [][Next]_vars

FairSpec == Spec /\ FollowFairness /\ LongFairness

\* Every variable has its type.
TypeOK == WorldTypeOK /\ ExecTypeOK /\ LongTypeOK /\ FollowTypeOK

\* What is open has somebody to close it: an entered job of the follower its monitor and
\* its slot, an entered long its task, and a ticker in flight a task that frees it.
OpenHasTask == EnteredIsMonitored /\ JobsHaveTasks
=============================================================================
