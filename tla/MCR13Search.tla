----------------------------- MODULE MCR13Search -----------------------------
(***************************************************************************)
(* Two routes that share pool p1, one as its first leg and the other as    *)
(* its second, with windows that overlap but are not equal.                *)
(***************************************************************************)
EXTENDS R13Search, TLC

CONSTANTS A, B, p1, p2, p3, sol, usdc

MCLegsOf ==
    A :> <<[pool |-> p1, input |-> sol, slot |-> 2], [pool |-> p2, input |-> usdc, slot |-> 1]>>
    @@ B :> <<[pool |-> p3, input |-> sol, slot |-> 2], [pool |-> p1, input |-> usdc, slot |-> 3]>>

Swap(pool, input, proof) == [pool |-> pool, input |-> input, proof |-> proof]
Kind(touches, swaps, ok) == [touches |-> touches, swaps |-> swaps, ok |-> ok]

\* Route A, proven by its instructions or not; its legs in the other order,
\* failed; route B; both pools of A named but swapped in one only.
TradeA == Kind({p1, p2}, <<Swap(p1, sol, "instruction"), Swap(p2, usdc, "instruction")>>, TRUE)
LegacyA == Kind({p1, p2}, <<Swap(p1, sol, "balances"), Swap(p2, usdc, "missing")>>, TRUE)
BackwardsA == Kind({p1, p2}, <<Swap(p2, usdc, "instruction"), Swap(p1, sol, "balances")>>, TRUE)
FailedA == Kind({p1, p2}, <<Swap(p1, sol, "instruction"), Swap(p2, usdc, "instruction")>>, FALSE)
TradeB == Kind({p1, p3}, <<Swap(p3, sol, "balances"), Swap(p1, usdc, "instruction")>>, TRUE)

MCKinds == {TradeA, LegacyA, BackwardsA, FailedA, TradeB}
FewKinds == {TradeA, BackwardsA, TradeB}
=============================================================================
