--------------------------- MODULE MCBackrunSystem ---------------------------
(* TLC instances of BackrunSystem.                                         *)
EXTENDS BackrunSystem, TLC

CONSTANTS pab, qab, A, B

\* A pool and its counterparty on another DEX.
PairPools    == {pab, qab}
PairOrder    == <<pab, qab>>
PairToken0   == pab :> A @@ qab :> A
PairToken1   == pab :> B @@ qab :> B
PairProtocol == pab :> "UniswapV2" @@ qab :> "Camelot"
PairFee      == pab :> 30 @@ qab :> 30

Routers == {"router"}

SwapAB == [form |-> "Eip1559", to |-> "router", call |-> "swapExactTokensForTokens",
           path |-> <<A, B>>, fee |-> 0, amount |-> 3, value |-> 0, gasPrice |-> 1,
           route |-> pab :> 3]

Users     == {SwapAB}
AllShapes == Users \cup UNION { Outcomes(s) : s \in TradeSignals }

NoFeedFaults  == {}
TradeFaults   == {"sign", "transport", "condition", "early", "other"}
NoTradeFaults == {}
=============================================================================
