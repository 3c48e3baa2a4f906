------------------------------ MODULE Optimizer ------------------------------
(***************************************************************************)
(* The pure functions of src/engine/optimizer.rs: the closed form for two  *)
(* V2 pools, which the engine calls, and the ternary searches for a V2 and *)
(* a V3 pool and for three V2 pools, which nothing calls yet.              *)
(*                                                                         *)
(* Two things hold of every state the program is in and are used here: fee *)
(* tiers do not exceed TenK, and the products of the searches fit a        *)
(* 256-bit word because V2 reserves have 112 bits.                         *)
(***************************************************************************)
EXTENDS LiquidityPool

CONSTANTS
    OneK,         \* fee denominator of optimizer.rs (1000)
    L1Fee,        \* the L1 surcharge (112_500_000_000 wei)
    PairRounds,   \* iterations of optimal_v2_v3 (40)
    CycleRounds   \* iterations of optimal_triangular (45)

ASSUME OptimizerTyped == /\ OneK \in Nat \ {0} /\ TenK % OneK = 0
                         /\ {L1Fee, PairRounds, CycleRounds} \subseteq Nat

\* What an optimizer answers: an input and the output it expects.
NoTrade == [in |-> 0, out |-> 0]
Failed  == [in |-> Overflow, out |-> Overflow]

\* The fee a pool leaves of OneK; the division loses a tier's last digit.
FeeComplement(pool) == OneK - pool.feeTier \div (TenK \div OneK)

-----------------------------------------------------------------------------
BitLength(n) == CHOOSE b \in 1 .. WordBits : n \div PowerOfTwo[b - 1] = 1

\* Mutant of NewtonStart: the exponent is rounded down.
NewtonStartLow(n) == PowerOfTwo[BitLength(n) \div 2]

NewtonStart(n) == PowerOfTwo[(BitLength(n) + 1) \div 2]

\* isqrt: Newton's iteration from above, until it stops decreasing.
ISqrt(n) ==
    LET iterate[x \in Nat \ {0}] ==
            LET next == (x + n \div x) \div 2
            IN  IF next >= x THEN x ELSE iterate[next]
    IN  IF n = 0 THEN 0 ELSE iterate[NewtonStart(n)]

-----------------------------------------------------------------------------
\* The output of one leg, with the optimizer's fee.
LegOut(pool, x, zeroForOne) ==
    LET withFee == Mul(x, FeeComplement(pool))
    IN  Div(Mul(withFee, Out(pool, zeroForOne)),
            Add(Mul(In(pool, zeroForOne), OneK), withFee))

\* Mutant of TwoLegs: the second leg forgets that the trade turns round.
TwoLegsSameWay(a, b, x, zeroForOne) == LegOut(b, LegOut(a, x, zeroForOne), zeroForOne)

\* Buy on pool a, sell what was bought on pool b.
TwoLegs(a, b, x, zeroForOne) == LegOut(b, LegOut(a, x, zeroForOne), ~zeroForOne)

\* The radicand of the closed form.
KExpanded(a, b, zeroForOne) ==
    Mul(Mul(Mul(Mul(Mul(FeeComplement(a), FeeComplement(b)),
        Out(a, zeroForOne)), Out(b, ~zeroForOne)), In(a, zeroForOne)), In(b, ~zeroForOne))

\* Mutant of OptimalInput: the root is not scaled back by OneK.
OptimalInputUnscaled(a, b, zeroForOne, root, sub) ==
    Div(root - sub,
        Mul(FeeComplement(a), Add(Mul(In(b, ~zeroForOne), OneK),
                                  Mul(FeeComplement(b), Out(a, zeroForOne)))))

\* x_opt, for a root that exceeds its bound.
OptimalInput(a, b, zeroForOne, root, sub) ==
    Div(Mul(OneK, root - sub),
        Mul(FeeComplement(a), Add(Mul(In(b, ~zeroForOne), OneK),
                                  Mul(FeeComplement(b), Out(a, zeroForOne)))))

\* optimal_v2_v2.
OptimalV2V2(a, b, zeroForOne) ==
    LET k    == KExpanded(a, b, zeroForOne)
        root == ISqrt(k)
        sub  == Mul(Mul(In(a, zeroForOne), In(b, ~zeroForOne)), OneK)
        x    == OptimalInput(a, b, zeroForOne, root, sub)
        out  == TwoLegs(a, b, x, zeroForOne)
    IN  IF 0 \in {a.reserve0, a.reserve1, b.reserve0, b.reserve1} THEN NoTrade
        ELSE IF Overflow \in {k, sub} THEN Failed
        ELSE IF root <= sub \/ x = 0 THEN NoTrade
        ELSE IF Overflow \in {x, out} THEN Failed
        ELSE [in |-> x, out |-> out]

-----------------------------------------------------------------------------
Gain(out, x) == IF out > x THEN out - x ELSE 0

\* Mutant of KeepsLowThirds: the better third is discarded.
KeepsHighThirds(profit1, profit2) == profit1 < profit2

\* The comparison that decides which third is discarded.
KeepsLowThirds(profit1, profit2) == profit1 > profit2

\* best_input, best_output and max_profit, once x is probed.
Better(best, profit, x) ==
    IF profit[x] > best.profit
    THEN [in |-> x, out |-> profit[x] + x, profit |-> profit[x]]
    ELSE best

\* One iteration: profit is a function that is zero wherever the trade does
\* not pay, and equal profits discard the left third.
Narrow(profit, search) ==
    LET third == (search.hi - search.low) \div 3
        m1    == search.low + third
        m2    == search.hi - third
    IN  IF search.hi - search.low <= 2 THEN search
        ELSE IF KeepsLowThirds(profit[m1], profit[m2])
        THEN [search EXCEPT !.hi = m2, !.best = Better(search.best, profit, m1)]
        ELSE [search EXCEPT !.low = m1, !.best = Better(search.best, profit, m2)]

\* The ternary search both functions repeat, after so many iterations.
Narrowed(profit, high, rounds) ==
    LET after[n \in Nat] ==
            IF n = 0
            THEN [low |-> 0, hi |-> high, best |-> [in |-> 0, out |-> 0, profit |-> 0]]
            ELSE Narrow(profit, after[n - 1])
    IN  after[rounds]

TernarySearch(profit, high, rounds) ==
    LET best == Narrowed(profit, high, rounds).best
    IN  [in |-> best.in, out |-> best.out]

\* evaluate_v2_v3_profit, with the placeholder that stands for the V3 leg: it
\* answers its input.
PairProfit(v2, zeroForOne) ==
    [x \in 0 .. In(v2, zeroForOne) \div 2 |-> Gain(LegOut(v2, x, zeroForOne), x)]

OptimalV2V3(v2, zeroForOne) ==
    IF 0 \in {v2.reserve0, v2.reserve1} THEN NoTrade
    ELSE TernarySearch(PairProfit(v2, zeroForOne), In(v2, zeroForOne) \div 2, PairRounds)

\* evaluate_triangular_profit: three legs, each in its own direction.
CycleProfit(p1, p2, p3, dirs) ==
    [x \in 0 .. In(p1, dirs[1]) \div 3 |->
        LET out1 == LegOut(p1, x, dirs[1])
            out2 == LegOut(p2, out1, dirs[2])
        IN  IF 0 \in {x, out1} \/ out2 = 0 THEN 0
            ELSE Gain(LegOut(p3, out2, dirs[3]), x)]

OptimalTriangular(p1, p2, p3, dirs) ==
    TernarySearch(CycleProfit(p1, p2, p3, dirs), In(p1, dirs[1]) \div 3, CycleRounds)

-----------------------------------------------------------------------------
\* estimate_gas_cost_wei, for gas prices whose product with the limit fits in
\* 128 bits.
EstimateGasCostWei(gasPrice, gasLimit) == gasPrice * gasLimit + L1Fee
=============================================================================
