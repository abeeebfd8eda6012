---------------------------- MODULE ListingFeed -----------------------------
(***************************************************************************)
(* What the listing detector promises its listeners: one event for each    *)
(* listing notice, whatever restarts, as long as the file of seen ids is   *)
(* never truncated.                                                        *)
(***************************************************************************)
EXTENDS Naturals

CONSTANT Listings

VARIABLES announced,   \* announced[n]: the events of n the listeners have had
          torn         \* the file was truncated

Init == announced = [n \in Listings |-> 0] /\ torn = FALSE

Announce(n) ==
    /\ torn \/ announced[n] = 0
    /\ announced' = [announced EXCEPT ![n] = @ + 1]
    /\ torn' = torn

Tear == torn' = TRUE /\ UNCHANGED announced

Next == Tear \/ \E n \in Listings : Announce(n)

Spec == Init /\ [][Next]_<<announced, torn>>
=============================================================================
