---------------------------- MODULE HedgeClients ----------------------------
(***************************************************************************)
(* Two strategies over the hedge service, each in a process with the       *)
(* service's other callers, of which the other strategy is one.            *)
(***************************************************************************)
EXTENDS PrePosition, HackHalt

CONSTANTS
    Runs,         \* the strategies, of which one runs
    MaxCrashes    \* bound: restarts

ASSUME ClientsAssumption == MaxCrashes \in Nat

VARIABLES
    who,        \* the strategy that runs
    crashes

vars == <<officeVars, preVars, hackVars, who, crashes>>

Init ==
    /\ OfficeInit /\ PreInit /\ HackInit
    /\ who \in Runs /\ crashes = 0
    /\ armed => who = "pre"
    /\ live \/ confirm => who = "hack"

\* The server dies and is started again; the hedges are as they were.
Crash ==
    /\ crashes < MaxCrashes /\ crashes' = crashes + 1
    /\ IF who = "pre" THEN Reloaded /\ UNCHANGED hackVars ELSE Reborn /\ UNCHANGED preVars
    /\ UNCHANGED <<officeVars, who>>

Next ==
    \/ who = "pre" /\ PreNext /\ UNCHANGED <<hackVars, who, crashes>>
    \/ who = "hack" /\ HackNext /\ UNCHANGED <<preVars, who, crashes>>
    \/ Crash

Spec == Init /\ [][Next]_vars

\* The loops go on, the lock is first come, first served, and every call of the hedge
\* service and every message ends.
Pre(A) == who = "pre" /\ A /\ UNCHANGED <<hackVars, who, crashes>>
Hack(A) == who = "hack" /\ A /\ UNCHANGED <<preVars, who, crashes>>

PreFairness == WF_vars(Pre(PreLoop)) /\ WF_vars(Pre(\E c \in Callers : Serves(c)))
HackFairness ==
    /\ WF_vars(Hack(\E n \in Notices : Aborts("loop", n)))
    /\ WF_vars(Hack(Sweeps)) /\ WF_vars(Hack(Aborted("loop")))

PreFairSpec == Spec /\ PreFairness
HackFairSpec == Spec /\ HackFairness

\* Every variable has its type.
TypeOK == PreTypeOK /\ HackTypeOK /\ who \in Runs /\ crashes \in 0..MaxCrashes

\* What holds of both strategies at every step; the one that does not run has spent nothing.
ClientsInv == PreInv /\ HackInv /\ (who # "pre" => spentToday = 0)
=============================================================================
