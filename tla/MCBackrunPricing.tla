-------------------------- MODULE MCBackrunPricing --------------------------
(* TLC instances of BackrunPricing.                                        *)
EXTENDS BackrunPricing, TLC

CONSTANTS p1, p2, p3, v3, bc, ac

\* Three V2 pools of one pair, one of them with a tier that optimizer.rs
\* rounds; a V3 pool of that pair; and the two pools that close a cycle.
SixPools == {p1, p2, p3, v3, bc, ac}
SixPairs == p1 :> "AB" @@ p2 :> "AB" @@ p3 :> "AB" @@ v3 :> "AB" @@ bc :> "BC" @@ ac :> "AC"
SixKinds == [p \in SixPools |-> IF p = v3 THEN "V3" ELSE "V2"]
SixTiers == p1 :> 10 @@ p2 :> 5 @@ p3 :> 20 @@ v3 :> 0 @@ bc :> 10 @@ ac :> 3

Of(r0, r1) == [reserve0 |-> r0, reserve1 |-> r1]

\* Balanced, imbalanced and empty pools, a price above and below one; and
\* pools deep enough for the searches to narrow many times.
FewReserves ==
    { p1 :> a @@ p2 :> b @@ p3 :> Of(24, 20) @@ v3 :> c
      @@ bc :> Of(30, 40) @@ ac :> Of(40, 24) :
         a \in {Of(30, 30), Of(16, 48)},
         b \in {Of(50, 12), Of(0, 0)},
         c \in {Of(8, 40), Of(3, 6)} }
    \cup { [p \in SixPools |-> Of(600, 1200)] }

\* Slightly out of balance: only small inputs pay.
DeepReserves == { [p \in SixPools |-> Of(9000, 11200)] }

FewAmounts == {1, 7, 15, 40}

\* The cycle in both directions.
BothWays == { [pools |-> <<p1, bc, ac>>, dirs |-> <<TRUE, TRUE, FALSE>>],
              [pools |-> <<ac, bc, p1>>, dirs |-> <<TRUE, FALSE, FALSE>>] }
=============================================================================
