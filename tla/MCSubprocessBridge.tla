------------------------- MODULE MCSubprocessBridge -------------------------
(* Small instances of SubprocessBridge. *)
EXTENDS SubprocessBridge, TLC

CONSTANTS w1, w2, h1, h2, h3, x

\* One wrapper: h1 starts and closes it, the others only call it.
OneOwner == w1 :> h1
AllUseOne == [h \in Callers |-> w1]
OneExchange == [w \in Wrappers |-> x]
\* Two wrappers of one exchange, for two of its accounts.
TwoOwners == (w1 :> h1) @@ (w2 :> h2)
EachUsesOwn == (h1 :> w1) @@ (h2 :> w2)

=============================================================================
