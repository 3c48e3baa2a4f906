------------------------------- MODULE L2Chain -------------------------------
(***************************************************************************)
(* External: the L2 chain the bot watches.  The sequencer orders           *)
(* transactions; the n-th carries feed sequence number n, and the RPC node *)
(* executes it in block BlockAt(n).  The code takes the two numberings for *)
(* the same (the drain compares them); BlockOffset keeps them apart.       *)
(*                                                                         *)
(* A pool's reserves are abstracted to the swaps they reflect, in order,   *)
(* each with its input amount.                                             *)
(***************************************************************************)
EXTENDS SwapRouting

CONSTANTS
    TxShapes,     \* the transactions that may be sequenced
    MaxTxs,       \* bound on the length of the modelled chain
    BlockOffset   \* block number of sequence number 0

ASSUME ChainTyped == BlockOffset \in Nat /\ MaxTxs \in Nat
ASSUME ShapesTyped ==
          \A t \in TxShapes : /\ {t.amount, t.gasPrice, Len(t.path)} \subseteq Nat
                              /\ DOMAIN t.route \subseteq Pools
                              /\ \A p \in DOMAIN t.route : t.route[p] \in Nat

\* The routers do what the calls say: a single-hop V3 call moves pools of its
\* tier, and the one pool a single-hop call moves, it moves by its amount, or by
\* less if that is a maximum.  (swapExactETHForTokens names no amount.)
ASSUME RoutersFollowCalls ==
          \A t \in TxShapes : Len(t.path) = 2 =>
             /\ t.call \in SingleCalls => \A p \in DOMAIN t.route : FeeTier[p] = t.fee
             /\ \A p \in DOMAIN t.route :
                   \/ DOMAIN t.route # {p}
                   \/ t.route[p] = t.amount
                   \/ t.route[p] < t.amount /\ t.call \in ExactOutputCalls
                   \/ t.call = "swapExactETHForTokens"

VARIABLE txs   \* the sequenced transactions

ChainHead == Len(txs)
BlockAt(n) == n + BlockOffset

Moves(n, p) == p \in DOMAIN txs[n].route

\* The swaps of pool p among the first n transactions of a chain, in order.
Swaps(chain, p, n) ==
    LET hist[k \in Nat] ==
            IF k = 0 THEN <<>>
            ELSE IF p \in DOMAIN chain[k].route
                 THEN Append(hist[k - 1], [tx |-> k, amount |-> chain[k].route[p]])
                 ELSE hist[k - 1]
    IN  hist[n]

\* What the pool's reserves at block BlockAt(n) reflect.
ChainHist(p, n) == Swaps(txs, p, n)

SequenceTx ==
    /\ ChainHead < MaxTxs
    /\ \E t \in TxShapes : txs' = Append(txs, t)
=============================================================================
