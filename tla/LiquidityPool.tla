---------------------------- MODULE LiquidityPool ----------------------------
(***************************************************************************)
(* The pure arithmetic of src/pool/mod.rs: what one swap does to a pool,   *)
(* in unsigned words of a fixed width.  The code uses 256-bit words, fees  *)
(* out of 10_000 and prices scaled by 2^96; the three scales are           *)
(* parameters, so that TLC can reach the overflows and the roundings.      *)
(*                                                                         *)
(* A pool is a record of reserve0, reserve1 and feeTier; for a V3 pool     *)
(* reserve0 is the square-root price and reserve1 the liquidity in range.  *)
(* Every caller passes a zero price limit, which the code ignores.         *)
(***************************************************************************)
EXTENDS Integers

CONSTANTS
    WordBits,   \* width of a word (256)
    TenK,       \* fee denominator of pool/mod.rs (10_000)
    Q96         \* scale of a square-root price (2^96)

ASSUME ScalesTyped == /\ WordBits \in Nat \ {0}
                      /\ TenK \in Nat \ {0}
                      /\ Q96 \in Nat \ {0}

\* 1 << k.
PowerOfTwo[k \in Nat] == IF k = 0 THEN 1 ELSE 2 * PowerOfTwo[k - 1]

MaxWord == PowerOfTwo[WordBits] - 1

\* What a checked operation answers for None; every operation passes it on,
\* as `?` does.
Overflow == -1

Checked(args, fits, value) == IF Overflow \in args \/ ~fits THEN Overflow ELSE value

Add(a, b) == Checked({a, b}, a <= MaxWord - b, a + b)
Sub(a, b) == Checked({a, b}, b <= a, a - b)
Mul(a, b) == Checked({a, b}, b = 0 \/ a <= MaxWord \div b, a * b)
Div(a, b) == Checked({a, b}, b # 0, a \div b)

-----------------------------------------------------------------------------
\* What a simulation answers when it fails.
NoSwap == [out |-> Overflow]

\* The reserves the input enters and the output leaves.
In(pool, zeroForOne)  == IF zeroForOne THEN pool.reserve0 ELSE pool.reserve1
Out(pool, zeroForOne) == IF zeroForOne THEN pool.reserve1 ELSE pool.reserve0

\* Mutant of AmountOut: the output is rounded up.
AmountOutRoundedUp(num, den) == Div(Add(num, Sub(den, 1)), den)

\* The integer division that yields the output.
AmountOut(num, den) == Div(num, den)

\* simulate_v2_swap_exact_in.
SimulateV2(pool, amountIn, zeroForOne) ==
    LET rIn     == In(pool, zeroForOne)
        rOut    == Out(pool, zeroForOne)
        withFee == Mul(amountIn, Sub(TenK, pool.feeTier))
        out     == AmountOut(Mul(withFee, rOut), Add(Mul(rIn, TenK), withFee))
        newIn   == Add(rIn, amountIn)
    IN  IF rIn = 0 \/ rOut = 0 \/ out = Overflow \/ out >= rOut \/ newIn = Overflow
        THEN NoSwap
        ELSE [out |-> out,
              reserve0 |-> IF zeroForOne THEN newIn ELSE rOut - out,
              reserve1 |-> IF zeroForOne THEN rOut - out ELSE newIn]

\* Mutant of V3Price: a rising price is rounded up.
V3PriceRoundedUp(price, liquidity, amountIn, zeroForOne) ==
    IF zeroForOne
    THEN Div(Mul(liquidity, price),
             Add(liquidity, Div(Mul(amountIn, price), Q96)))
    ELSE Add(price, Div(Add(Mul(amountIn, Q96), Sub(liquidity, 1)), liquidity))

\* The new square-root price of simulate_v3_swap_exact_in.
V3Price(price, liquidity, amountIn, zeroForOne) ==
    IF zeroForOne
    THEN Div(Mul(liquidity, price),
             Add(liquidity, Div(Mul(amountIn, price), Q96)))
    ELSE Add(price, Div(Mul(amountIn, Q96), liquidity))

\* simulate_v3_swap_exact_in.
SimulateV3(pool, amountIn, zeroForOne) ==
    LET price     == pool.reserve0
        liquidity == pool.reserve1
        new       == V3Price(price, liquidity, amountIn, zeroForOne)
        out       == IF zeroForOne
                     THEN Div(Mul(liquidity, Sub(price, new)), Q96)
                     ELSE Div(Mul(Div(Mul(liquidity, Q96), price), Sub(new, price)), new)
    IN  IF price = 0 \/ liquidity = 0 \/ out = Overflow
        THEN NoSwap
        ELSE [out |-> out, reserve0 |-> new, reserve1 |-> liquidity]
=============================================================================
