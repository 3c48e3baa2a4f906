--------------------------- MODULE BackrunPricing ---------------------------
(***************************************************************************)
(* The numbers of one evaluation of src/engine/mod.rs: a user's swap is    *)
(* simulated on the pool it was attributed to, the optimizer is asked      *)
(* about every other pool of the pair, the best trade is compared with gas *)
(* and threshold, the pool takes the simulated reserves, and the signal    *)
(* tells src/execution/mod.rs what to execute.  ArbitrageEngine has the    *)
(* same step with its numbers left out; which pool a swap is attributed to *)
(* is decided there, and is a choice here.                                 *)
(***************************************************************************)
EXTENDS Optimizer

CONSTANTS
    Pools,            \* the pools of the registry
    Pair,             \* Pools -> the two tokens of a pool
    Protocol,         \* Pools -> "V2" or "V3"
    FeeTier,          \* Pools -> fee tier
    InitialReserves,  \* the reserves bootstrap may leave: functions on Pools
    Amounts,          \* the input amounts of users' swaps
    GasPrices,        \* the gas prices of users' transactions
    GasEstimateLimit, \* gas limit of the estimate (350_000)
    MinProfitWei,     \* config.min_profit_wei
    Cycles,           \* triangular routes: three pools and a direction for each
    MaxSwaps          \* bound on the number of evaluations

ASSUME PricingTyped == /\ Protocol \in [Pools -> {"V2", "V3"}]
                       /\ FeeTier \in [Pools -> 0 .. TenK]
                       /\ InitialReserves \subseteq
                             [Pools -> [reserve0 : 0 .. MaxWord, reserve1 : 0 .. MaxWord]]
                       /\ Amounts \subseteq Nat /\ GasPrices \subseteq Nat
                       /\ \A c \in Cycles : /\ c.pools \in [1 .. 3 -> Pools]
                                             /\ c.dirs \in [1 .. 3 -> BOOLEAN]
                       /\ {GasEstimateLimit, MinProfitWei, MaxSwaps} \subseteq Nat

\* A word holds the square of a fee denominator (10_000 in 256 bits).
ASSUME WordsWide == TenK * TenK <= MaxWord

\* The scale of the optimizer's fees is no bare whole (1000).
ASSUME ScaleIsFine == OneK >= 3

VARIABLES
    reserves,   \* Pools -> reserve0 and reserve1 in memory
    signal,     \* the signal of the last evaluation: {} or one signal
    last,       \* history: the swap of the last evaluation, {} if it failed
    swaps       \* evaluations so far

vars == <<reserves, signal, last, swaps>>

-----------------------------------------------------------------------------
\* A pool as the simulations and the optimizer see it.
PoolWith(p, r) ==
    [reserve0 |-> r.reserve0, reserve1 |-> r.reserve1, feeTier |-> FeeTier[p]]
PoolNow(p) == PoolWith(p, reserves[p])

\* Step 2 of evaluate: the simulation of the pool's protocol.
Simulate(p, amount, zeroForOne) ==
    IF Protocol[p] = "V2" THEN SimulateV2(PoolNow(p), amount, zeroForOne)
                          ELSE SimulateV3(PoolNow(p), amount, zeroForOne)

ReservesOf(result) == [reserve0 |-> result.reserve0, reserve1 |-> result.reserve1]

\* Mutant of Candidates: pool A is compared with itself before the swap.
CandidatesWithSelf(a) == { b \in Pools : /\ Pair[b] = Pair[a]
                                         /\ Protocol[a] = "V2" /\ Protocol[b] = "V2" }

\* Step 3: the other pools of the pair, where an optimizer exists.
Candidates(a) == { b \in Pools \ {a} : /\ Pair[b] = Pair[a]
                                       /\ Protocol[a] = "V2" /\ Protocol[b] = "V2" }

\* Our trade goes the other way on pool A: it buys what the user sold.
OurDirection(userZeroForOne) == ~userZeroForOne

\* Step 4, for pool A after the user's swap.
TradeWith(b, a, after, userZeroForOne) ==
    OptimalV2V2(PoolWith(a, after), PoolNow(b), OurDirection(userZeroForOne))

GrossProfit(trade) == Gain(trade.out, trade.in)

OurGasPrice(gasPrice) == gasPrice + 1
GasCost(gasPrice) == EstimateGasCostWei(OurGasPrice(gasPrice), GasEstimateLimit)

\* Step 5: profitable after gas, and by the configured margin.
PaysOff(gross, gasPrice) == /\ gross > GasCost(gasPrice)
                            /\ gross - GasCost(gasPrice) >= MinProfitWei

\* The slippage guard of build_calldata.
MinProfit(s) == (s.grossProfit * 80) \div 100

-----------------------------------------------------------------------------
\* Steps 5 to 7 of an evaluation without an error: the trade with the largest
\* gross profit among those that pay off is signalled.
Signals(a, after, zeroForOne, gasPrice) ==
    LET gross(b) == GrossProfit(TradeWith(b, a, after, zeroForOne))
        paying   == { b \in Candidates(a) : PaysOff(gross(b), gasPrice) }
        best     == { b \in paying : \A c \in paying : gross(c) <= gross(b) }
    IN  { [poolA |-> a, poolB |-> b, zeroForOne |-> OurDirection(zeroForOne),
           amountIn |-> TradeWith(b, a, after, zeroForOne).in,
           grossProfit |-> gross(b)] : b \in best }

\* The optimizer answers Overflow for some candidate.
OptimizerFails(a, after, zeroForOne) ==
    \E b \in Candidates(a) : TradeWith(b, a, after, zeroForOne) = Failed

\* evaluate leaves by `?`, from the simulation or from the optimizer.
EvaluateFails(a, amount, zeroForOne) ==
    LET result == Simulate(a, amount, zeroForOne)
    IN  /\ swaps < MaxSwaps
        /\ result # NoSwap => OptimizerFails(a, ReservesOf(result), zeroForOne)
        /\ signal' = {}
        /\ last' = {}
        /\ swaps' = swaps + 1
        /\ UNCHANGED reserves

\* evaluate reaches its end: pool A takes the simulated reserves, whether or
\* not there is a signal.
EvaluateCommits(a, amount, zeroForOne, gasPrice) ==
    LET result == Simulate(a, amount, zeroForOne)
        after  == ReservesOf(result)
    IN  /\ swaps < MaxSwaps
        /\ result # NoSwap
        /\ ~OptimizerFails(a, after, zeroForOne)
        /\ reserves' = [reserves EXCEPT ![a] = after]
        /\ LET signals == Signals(a, after, zeroForOne, gasPrice)
           IN  IF signals = {} THEN signal' = {}
                               ELSE \E s \in signals : signal' = {s}
        /\ last' = {[pool |-> a, zeroForOne |-> zeroForOne, gasPrice |-> gasPrice]}
        /\ swaps' = swaps + 1

Init ==
    /\ reserves \in InitialReserves
    /\ signal = {}
    /\ last = {}
    /\ swaps = 0

Next ==
    \E p \in Pools, amount \in Amounts, zeroForOne \in BOOLEAN :
       \/ EvaluateFails(p, amount, zeroForOne)
       \/ \E gasPrice \in GasPrices : EvaluateCommits(p, amount, zeroForOne, gasPrice)

Spec == Init /\ [][Next]_vars

-----------------------------------------------------------------------------
Words == 0 .. MaxWord

TypeOK ==
    /\ \A p \in Pools : {reserves[p].reserve0, reserves[p].reserve1} \subseteq Words
    /\ signal \subseteq [poolA : Pools, poolB : Pools, zeroForOne : BOOLEAN,
                         amountIn : 1 .. MaxWord, grossProfit : 1 .. MaxWord]
    /\ \A s \in signal : s.poolA # s.poolB
    /\ swaps \in 0 .. MaxSwaps

\* However swaps follow each other, no rounding of a V2 simulation gives value
\* away: the product of the reserves never shrinks, and a pool that has
\* reserves keeps some of both.
ProductNeverShrinks ==
    [][ \A p \in Pools : Protocol[p] = "V2" =>
           /\ reserves'[p].reserve0 * reserves'[p].reserve1
                >= reserves[p].reserve0 * reserves[p].reserve1
           /\ 0 \in {reserves'[p].reserve0, reserves'[p].reserve1}
                => UNCHANGED reserves[p] ]_vars

\* A V3 simulation rounds its price down whichever way it moves.  What one unit
\* of price is worth is all that a swap and the swap back may earn, and only
\* where the price fell first.
RoundTripEarns(pool, amount, zeroForOne) ==
    LET there == SimulateV3(pool, amount, zeroForOne)
        after == [pool EXCEPT !.reserve0 = there.reserve0]
        back  == SimulateV3(after, there.out, ~zeroForOne)
        unit  == (Q96 * pool.reserve1 + amount * pool.reserve0)
                    \div (pool.reserve0 * after.reserve0)
    IN  back # NoSwap => back.out <= amount + IF zeroForOne THEN unit ELSE 0

\* The price is rounded to zero, after which every simulation fails, only by an
\* input that outweighs the token0 in range (Q96 * liquidity / price) as many
\* times as the price counts units.
PriceVanishes(pool, amount, zeroForOne) ==
    SimulateV3(pool, amount, zeroForOne).reserve0 = 0 =>
       zeroForOne /\ amount * pool.reserve0 > Q96 * (pool.reserve1 * (pool.reserve0 - 1))

\* However swaps follow each other, no rounding of a V3 simulation gives away
\* more than that.
PriceKeepsValue ==
    \A p \in Pools, amount \in Amounts, zeroForOne \in BOOLEAN :
       Protocol[p] = "V3" /\ SimulateV3(PoolNow(p), amount, zeroForOne) # NoSwap =>
          /\ RoundTripEarns(PoolNow(p), amount, zeroForOne)
          /\ PriceVanishes(PoolNow(p), amount, zeroForOne)

\* isqrt answers the floor of the root for every radicand the evaluations
\* reach.
RootIsFloor ==
    \A a \in Pools, zeroForOne \in BOOLEAN : \A b \in Candidates(a) :
       LET k == KExpanded(PoolNow(a), PoolNow(b), zeroForOne)
           s == ISqrt(k)
       IN  k # Overflow => s * s <= k /\ k < (s + 1) * (s + 1)

\* What the signalled trade yields on the two pools as the engine believes
\* them to be, by the arithmetic of pool/mod.rs.
Yield(s) ==
    LET bought == SimulateV2(PoolNow(s.poolA), s.amountIn, s.zeroForOne).out
    IN  SimulateV2(PoolNow(s.poolB), bought, ~s.zeroForOne).out

\* The tiers both fee scales express exactly.
ExactTier(p) == FeeTier[p] % (TenK \div OneK) = 0

\* Pool A keeps less than everything, or the pools hold more than dust: true of
\* all reserves where the tier of pool A is at most 99 %.
NotDust(s) ==
    FeeComplement(PoolNow(s.poolA))
       * (In(PoolNow(s.poolA), s.zeroForOne) * In(PoolNow(s.poolB), ~s.zeroForOne))
    >= TenK \div OneK

\* A signal agrees with the pools it is about although optimizer.rs and
\* pool/mod.rs scale fees differently: it never promises less than the trade
\* yields, and for tiers both scales express it promises exactly that, so
\* that the executor's slippage guard lets the trade through.  The products of
\* pool/mod.rs are larger, and may overflow where those of optimizer.rs do
\* not, but only for pools of dust with a fee of nearly everything.
SignalHolds ==
    \A s \in signal :
       LET expected == s.amountIn + s.grossProfit
       IN  /\ Yield(s) <= expected
           /\ ExactTier(s.poolA) /\ ExactTier(s.poolB) /\ NotDust(s)
                => /\ Yield(s) = expected
                   /\ Yield(s) > s.amountIn + MinProfit(s)

\* The reference for the closed form: every input tried.
GrossOf(a, b, x, zeroForOne) == Gain(TwoLegs(PoolNow(a), PoolNow(b), x, zeroForOne), x)
Inputs(a, zeroForOne) == 1 .. In(PoolNow(a), zeroForOne)

\* No unit sold to a pool earns more than this.
Spot(pool, zeroForOne) == 1 + Out(pool, zeroForOne) \div In(pool, zeroForOne)

\* What integer steps may cost: one unit sold to pool A, and one of what it
\* sells at pool B's price.  Where a first unit sold to a pool A of dust buys
\* several times what pool B holds, the closed form rounds to no trade, and
\* may miss as many units.
Slack(a, b, zeroForOne) ==
    1 + Spot(PoolNow(b), ~zeroForOne)
      + Out(PoolNow(a), zeroForOne)
          \div (In(PoolNow(a), zeroForOne) * In(PoolNow(b), ~zeroForOne))

\* An evaluation that committed missed no trade: no input on any candidate
\* earns more than the signal, or than gas and threshold if there is none,
\* by more than integer steps cost.
NothingMissed ==
    \A l \in last : \A b \in Candidates(l.pool) :
       LET ours   == OurDirection(l.zeroForOne)
           earned == IF signal = {} THEN GasCost(l.gasPrice) + MinProfitWei
                     ELSE (CHOOSE s \in signal : TRUE).grossProfit
       IN  0 \notin {reserves[b].reserve0, reserves[b].reserve1} =>
           \A x \in Inputs(l.pool, ours) :
              GrossOf(l.pool, b, x, ours) <= earned + Slack(l.pool, b, ours)

-----------------------------------------------------------------------------
(* The searches, on the pools as they are.  Each is described by what an    *)
(* input buys, the profit it maximizes, what it answers, and what integer   *)
(* steps may cost it: the units its last interval still spans, sold at the  *)
(* price of all legs; and the unit each leg rounds away, at the price of    *)
(* the legs after it, which a comparison of thirds may magnify five times.  *)

\* How far the last interval of a search reaches.
Span(profit, high, rounds) ==
    LET final == Narrowed(profit, high, rounds) IN final.hi - final.low

PairSearch(pool, dir) ==
    LET high   == In(pool, dir) \div 2
        profit == PairProfit(pool, dir)
    IN  [out    |-> [x \in 0 .. high |-> LegOut(pool, x, dir)],
         profit |-> profit,
         answer |-> OptimalV2V3(pool, dir),
         slack  |-> 1 + Span(profit, high, PairRounds) * Spot(pool, dir)]

CycleSearch(pools, dirs) ==
    LET high    == In(pools[1], dirs[1]) \div 3
        profit  == CycleProfit(pools[1], pools[2], pools[3], dirs)
        leg(i, x) == LegOut(pools[i], x, dirs[i])
        spot(i) == Spot(pools[i], dirs[i])
    IN  [out    |-> [x \in 0 .. high |-> leg(3, leg(2, leg(1, x)))],
         profit |-> profit,
         answer |-> OptimalTriangular(pools[1], pools[2], pools[3], dirs),
         slack  |-> 1 + 5 * ((1 + spot(2)) * spot(3))
                     + Span(profit, high, CycleRounds) * (spot(1) * spot(2) * spot(3))]

\* Pools that hold something of both tokens.
Stocked(p) == 0 \notin {reserves[p].reserve0, reserves[p].reserve1}

\* The products of V2 reserves, which have 112 bits, fit a word: the searches
\* of larger numbers, where the code fails or wraps, are left out.
Fits(search) == \A x \in DOMAIN search.out : search.out[x] # Overflow

Searches ==
    { s \in { PairSearch(PoolNow(p), dir) :
                  p \in { q \in Pools : Protocol[q] = "V2" /\ Stocked(q) }, dir \in BOOLEAN }
             \cup { CycleSearch([i \in 1 .. 3 |-> PoolNow(c.pools[i])], c.dirs) :
                       c \in { d \in Cycles : \A i \in 1 .. 3 : Stocked(d.pools[i]) } } :
      Fits(s) }

\* A search that answers a trade answers a good one, although it compares
\* clamped and rounded profits: it reports the profit of its own input, and
\* no input it may use earns more, integer steps aside.
SearchNearBest ==
    \A s \in Searches : s.answer # NoTrade =>
       /\ s.answer.out - s.answer.in = s.profit[s.answer.in]
       /\ \A x \in DOMAIN s.profit : s.profit[x] <= s.profit[s.answer.in] + s.slack

\* src/engine/optimizer.rs, "ternary search should find an input": a search
\* answers a trade whenever some input within its bound pays more than integer
\* steps cost.
SearchFindsProfit ==
    \A s \in Searches :
       (\E x \in DOMAIN s.profit : s.profit[x] > s.slack) => s.answer # NoTrade

=============================================================================
