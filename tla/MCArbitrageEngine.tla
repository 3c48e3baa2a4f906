------------------------- MODULE MCArbitrageEngine -------------------------
(* TLC instances of ArbitrageEngine.                                       *)
EXTENDS ArbitrageEngine, TLC

CONSTANTS pab, qab, pbc, rbc, xbc, pac, A, B, C

\* A pool, its counterparty on another DEX, two V3 pools of another pair with
\* different tiers, and a pool of that pair whose protocol has no simulation.
MixedPools    == {pab, qab, pbc, rbc, xbc}
MixedOrder    == <<pab, qab, rbc, xbc, pbc>>
MixedToken0   == pab :> A @@ qab :> A @@ pbc :> B @@ rbc :> B @@ xbc :> B
MixedToken1   == pab :> B @@ qab :> B @@ pbc :> C @@ rbc :> C @@ xbc :> C
MixedProtocol == pab :> "UniswapV2" @@ qab :> "Camelot" @@ pbc :> "UniswapV3"
                 @@ rbc :> "UniswapV3" @@ xbc :> "Other"
MixedFee      == pab :> 30 @@ qab :> 30 @@ pbc :> 5 @@ rbc :> 1 @@ xbc :> 9

\* One pool per pair.
TwoPools     == {pab, pbc}
TwoOrder     == <<pbc, pab>>
TwoToken0    == pab :> A @@ pbc :> B
TwoToken1    == pab :> B @@ pbc :> C
TwoProtocol  == pab :> "UniswapV2" @@ pbc :> "UniswapV3"
TwoFee       == pab :> 30 @@ pbc :> 5

\* A registry with a direct pool between the ends of a two-hop path.
EndPools     == {pab, pac}
EndOrder     == <<pab, pac>>
EndToken0    == pab :> A @@ pac :> A
EndToken1    == pab :> B @@ pac :> C
EndProtocol  == pab :> "UniswapV2" @@ pac :> "UniswapV2"
EndFee       == pab :> 30 @@ pac :> 30

Routers == {"router"}

\* A transaction that moves the pools of route, at a gas price of 1.
Tx(call, path, fee, amount, route) ==
    [form |-> "Eip1559", to |-> "router", call |-> call, path |-> path, fee |-> fee,
     amount |-> amount, value |-> 0, gasPrice |-> 1, route |-> route]

SwapAB     == Tx("swapExactTokensForTokens", <<A, B>>, 0, 3, pab :> 3)
SwapABq    == Tx("swapExactTokensForTokens", <<B, A>>, 0, 3, qab :> 3)
SwapABCBA  == Tx("swapExactTokensForTokens", <<A, B, C, B, A>>, 0, 3, pab :> 3 @@ pbc :> 2)
SwapABHuge == Tx("swapTokensForExactTokens", <<A, B>>, 0, 9, pab :> 4)
SwapEthAB  == [Tx("swapExactETHForTokens", <<A, B>>, 0, 0, pab :> 3)
                  EXCEPT !.value = 3]
SwapBC     == Tx("exactInputSingle", <<B, C>>, 5, 3, pbc :> 3)
SwapBCMax  == Tx("exactOutputSingle", <<C, B>>, 1, 4, rbc :> 2)
SwapACvia  == Tx("swapExactTokensForTokens", <<A, B, C>>, 0, 3, pab :> 3)
Batched    == [SwapBC EXCEPT !.form = "Batch"]

TrackedShapes  == {SwapAB, SwapBC}
RegistryShapes == {SwapABq, SwapABCBA, SwapABHuge, SwapEthAB, SwapBC, SwapBCMax, Batched}
OneShape       == {SwapAB}
EndShapes      == {SwapACvia}
EthShapes      == {SwapEthAB}

AllFeedFaults == FeedFaultKinds
NoFeedFaults  == {}
=============================================================================
