----------------------------- MODULE MCHedgeFF ------------------------------
(* HedgeFF with a coarse venue and a fine one.                             *)
EXTENDS HedgeFF, TLC
CONSTANTS fine, coarse, user, other, T
CallersAlike == Permutations(Callers)
MCLot == [v \in Venues |-> IF v = coarse THEN 2 ELSE 1]
=============================================================================
