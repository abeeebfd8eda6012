---------------------------- MODULE MCAutoHedge -----------------------------
(* Small instances of AutoHedge.                                           *)
EXTENDS AutoHedge

CONSTANTS t1, t2, e1, e2, u1

=============================================================================
