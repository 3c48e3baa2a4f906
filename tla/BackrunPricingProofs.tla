------------------------- MODULE BackrunPricingProofs -------------------------
(***************************************************************************)
(* The numbers of an evaluation, for every width of a word, fee scale,     *)
(* tier, amount and reserves:                                              *)
(*                                                                         *)
(*  - isqrt of src/engine/optimizer.rs is the floor of the root;           *)
(*  - everything the evaluations store and signal is a word;               *)
(*  - the roundings of src/pool/mod.rs give no value away;                 *)
(*  - a signal promises what its trade yields, although optimizer.rs and   *)
(*    pool/mod.rs compute it differently;                                  *)
(*  - the closed form of optimizer.rs misses no trade by more than integer *)
(*    steps cost, so a committed evaluation signals the best there is.     *)
(***************************************************************************)
EXTENDS BackrunPricing, InductionProofs

-----------------------------------------------------------------------------
(* Arithmetic.                                                             *)

\* A product grows with a factor.
LEMMA TimesMonotone ==
    ASSUME NEW a \in Nat, NEW b \in Nat, NEW c \in Nat, a <= b
    PROVE  a * c <= b * c
OBVIOUS

\* A common factor cancels.
LEMMA TimesCancels ==
    ASSUME NEW a \in Int, NEW b \in Int, NEW k \in Nat \ {0}, k * a <= k * b
    PROVE  a <= b
OBVIOUS

\* A quotient is the largest factor that keeps the product within bounds.
LEMMA QuotientBound ==
    ASSUME NEW a \in Nat, NEW b \in Nat \ {0}
    PROVE  a \div b \in Nat /\ b * (a \div b) <= a
OBVIOUS

\* No larger factor keeps it there.
LEMMA QuotientLeast ==
    ASSUME NEW a \in Nat, NEW b \in Nat \ {0}, NEW q \in Nat, b * q <= a
    PROVE  q <= a \div b
<1> DEFINE d == a \div b
<1>1. d \in Nat /\ a < b * (d + 1)
  OBVIOUS
<1> HIDE DEF d
<1> SUFFICES ASSUME d + 1 <= q PROVE FALSE
  BY <1>1 DEF d
<1>2. (d + 1) * b <= q * b
  BY <1>1, TimesMonotone
<1>3. (d + 1) * b = b * (d + 1) /\ q * b = b * q /\ b * q \in Nat /\ b * (d + 1) \in Nat
  BY <1>1
<1> QED  BY <1>1, <1>2, <1>3

\* Squares grow.
LEMMA SquareGrows ==
    ASSUME NEW a \in Nat, NEW b \in Nat, a <= b
    PROVE  a * a <= b * b
<1>1. a * a <= b * a
  BY TimesMonotone
<1>2. a * b <= b * b
  BY TimesMonotone
<1>3. a * b = b * a /\ a * a \in Nat /\ b * a \in Nat /\ b * b \in Nat
  OBVIOUS
<1> QED  BY <1>1, <1>2, <1>3

\* A quotient of equal multiples.
LEMMA QuotientScaled ==
    ASSUME NEW a \in Nat, NEW b \in Nat \ {0}, NEW r \in Nat \ {0}
    PROVE  (r * a) \div (r * b) = a \div b
<1> DEFINE q == a \div b
           e == (r * a) \div (r * b)
<1>1. q \in Nat /\ b * q <= a
  BY QuotientBound
<1>2. r * a \in Nat /\ r * b \in Nat \ {0}
  OBVIOUS
<1>3. e \in Nat /\ (r * b) * e <= r * a
  BY <1>2, QuotientBound
<1>4. q <= e
  <2>1. (b * q) * r <= a * r /\ (r * b) * q = (b * q) * r /\ a * r = r * a
    BY <1>1, TimesMonotone
  <2>2. (r * b) * q <= r * a
    BY <2>1
  <2> QED  BY <1>1, <1>2, <2>2, QuotientLeast
<1>5. e <= q
  <2>1. r * (b * e) <= r * a
    BY <1>3
  <2>2. b * e <= a
    BY <1>3, <2>1, TimesCancels
  <2> QED  BY <1>3, <2>2, QuotientLeast
<1> HIDE DEF q, e
<1>6. e = q
  BY <1>1, <1>3, <1>4, <1>5
<1> QED  BY <1>6 DEF q, e

\* A constant-product step with a fee of k - c out of k, its output rounded
\* down: the product of the reserves does not shrink.
LEMMA StepKeepsProduct ==
    ASSUME NEW rIn \in Nat \ {0}, NEW rOut \in Nat, NEW x \in Nat,
           NEW k \in Nat \ {0}, NEW c \in 0 .. k,
           NEW out \in 0 .. rOut,
           (rIn * k + x * c) * out <= (x * c) * rOut
    PROVE  rIn * rOut <= (rIn + x) * (rOut - out)
<1> DEFINE w    == x * c
           left == rOut - out
<1>1. /\ w \in Nat /\ left \in Nat
      /\ rIn * k \in Nat /\ x * k \in Nat
  OBVIOUS
<1>2. w <= x * k
  <2>1. c * x <= k * x
    BY TimesMonotone
  <2> QED  BY <2>1
<1>3. (rIn * k) * rOut <= (rIn * k + w) * left
  <2> HIDE DEF w
  <2>1. (rIn * k + w) * left = (rIn * k) * rOut + w * rOut - (rIn * k + w) * out
    BY <1>1
  <2>2. (rIn * k + w) * out <= w * rOut
    BY DEF w
  <2>3. /\ (rIn * k + w) * out \in Int
        /\ w * rOut \in Int
        /\ (rIn * k) * rOut \in Int
    BY <1>1
  <2> QED  BY <2>1, <2>2, <2>3
<1>4. (rIn * k + w) * left <= (rIn * k + x * k) * left
  BY <1>1, <1>2, TimesMonotone
<1>5. k * (rIn * rOut) <= k * ((rIn + x) * left)
  <2>1. k * (rIn * rOut) = (rIn * k) * rOut
    OBVIOUS
  <2>2. k * ((rIn + x) * left) = (rIn * k + x * k) * left
    BY <1>1
  <2>3. /\ (rIn * k + w) * left \in Int
        /\ (rIn * k + x * k) * left \in Int
        /\ (rIn * k) * rOut \in Int
    BY <1>1
  <2> QED  BY <1>3, <1>4, <2>1, <2>2, <2>3
<1> QED  BY <1>1, <1>5, TimesCancels

-----------------------------------------------------------------------------
(* Shifts, and the width of a word.                                        *)

\* Shifting by one bit more doubles.
LEMMA PowerSteps ==
    /\ PowerOfTwo[0] = 1
    /\ \A k \in Nat : PowerOfTwo[k] \in Nat \ {0} /\ PowerOfTwo[k + 1] = 2 * PowerOfTwo[k]
<1> DEFINE step  == [k \in Nat |-> [v \in Nat |-> 2 * v]]
           Is(h) == h = [k \in Nat |-> IF k = 0 THEN 1 ELSE 2 * h[k - 1]]
<1>1. step \in [Nat -> [Nat -> Nat]] /\ 1 \in Nat
  OBVIOUS
<1>2. PICK h : Recurs(h, Nat, 1, step)
  <2> HIDE DEF step
  <2> QED  BY <1>1, RecursionSolved
<1>3. Is(h)
  <2>1. /\ h \in [Nat -> Nat] /\ h[0] = 1
        /\ \A n \in Nat \ {0} : h[n] = step[n][h[n - 1]]
    <3> HIDE DEF step
    <3> QED  BY <1>2 DEF Recurs
  <2>2. ASSUME NEW n \in Nat, n # 0 PROVE step[n][h[n - 1]] = 2 * h[n - 1]
    BY <2>1, <2>2
  <2> HIDE DEF step
  <2> QED  BY <2>1, <2>2
<1>4. Is(PowerOfTwo)
  <2> DEFINE pow == CHOOSE g : Is(g)
  <2>1. PowerOfTwo = pow
    BY DEF PowerOfTwo
  <2>2. Is(pow)
    <3> HIDE DEF Is
    <3> QED  BY <1>3
  <2> HIDE DEF pow
  <2> QED  BY <2>1, <2>2
<1>5. PowerOfTwo[0] = 1
  BY <1>4
<1>6. ASSUME NEW k \in Nat PROVE PowerOfTwo[k + 1] = 2 * PowerOfTwo[k]
  <2>1. k + 1 \in Nat /\ k + 1 # 0 /\ (k + 1) - 1 = k
    OBVIOUS
  <2>2. PowerOfTwo[k + 1] = 2 * PowerOfTwo[(k + 1) - 1]
    BY <1>4, <2>1
  <2> QED  BY <2>1, <2>2
<1>7. \A k \in Nat : PowerOfTwo[k] \in Nat \ {0}
  <2> DEFINE T == { k \in Nat : PowerOfTwo[k] \in Nat \ {0} }
  <2>1. 0 \in T
    BY <1>5
  <2>2. ASSUME NEW k \in T PROVE k + 1 \in T
    BY <1>6, <2>2
  <2>3. T = Nat
    <3> HIDE DEF T
    <3>1. T \in SUBSET Nat
      BY DEF T
    <3> QED  BY <2>1, <2>2, <3>1, NaturalsBySteps
  <2> QED  BY <2>3
<1> QED  BY <1>5, <1>6, <1>7

\* Shifts add up.
LEMMA PowerSum ==
    ASSUME NEW a \in Nat, NEW b \in Nat
    PROVE  PowerOfTwo[a + b] = PowerOfTwo[a] * PowerOfTwo[b]
<1> DEFINE T == { k \in Nat : PowerOfTwo[a + k] = PowerOfTwo[a] * PowerOfTwo[k] }
<1>1. 0 \in T
  BY PowerSteps
<1>2. ASSUME NEW k \in T PROVE k + 1 \in T
  <2>1. /\ k \in Nat /\ a + k \in Nat /\ a + (k + 1) = (a + k) + 1
        /\ PowerOfTwo[a + k] = PowerOfTwo[a] * PowerOfTwo[k]
    BY <1>2
  <2>2. /\ PowerOfTwo[(a + k) + 1] = 2 * PowerOfTwo[a + k]
        /\ PowerOfTwo[k + 1] = 2 * PowerOfTwo[k]
        /\ PowerOfTwo[a] \in Nat /\ PowerOfTwo[k] \in Nat
    BY <2>1, PowerSteps
  <2>3. PowerOfTwo[a + (k + 1)] = PowerOfTwo[a] * PowerOfTwo[k + 1]
    BY <2>1, <2>2
  <2> QED  BY <2>1, <2>3
<1>3. T = Nat
  <2> HIDE DEF T
  <2>1. T \in SUBSET Nat
    BY DEF T
  <2> QED  BY <1>1, <1>2, <2>1, NaturalsBySteps
<1> QED  BY <1>3

\* A longer shift is no smaller.
LEMMA PowerMonotone ==
    ASSUME NEW a \in Nat, NEW b \in Nat, a <= b
    PROVE  PowerOfTwo[a] <= PowerOfTwo[b]
<1>1. b - a \in Nat /\ a + (b - a) = b
  OBVIOUS
<1>2. /\ PowerOfTwo[b] = PowerOfTwo[a] * PowerOfTwo[b - a]
      /\ PowerOfTwo[a] \in Nat /\ PowerOfTwo[b - a] \in Nat \ {0}
  <2>1. PowerOfTwo[a + (b - a)] = PowerOfTwo[a] * PowerOfTwo[b - a]
    BY <1>1, PowerSum
  <2> QED  BY <1>1, <2>1, PowerSteps
<1>3. 1 * PowerOfTwo[a] <= PowerOfTwo[b - a] * PowerOfTwo[a]
  BY <1>2, TimesMonotone
<1> QED  BY <1>2, <1>3

\* The largest word.
LEMMA MaxWordTyped == MaxWord \in Nat /\ PowerOfTwo[WordBits] = MaxWord + 1
BY PowerSteps, ScalesTyped DEF MaxWord

-----------------------------------------------------------------------------
(* isqrt.                                                                  *)

\* isqrt counts a word's bits: the top one is set, and none above it.
LEMMA BitLengthIs ==
    ASSUME NEW n \in 1 .. MaxWord
    PROVE  /\ BitLength(n) \in 1 .. WordBits
           /\ n < PowerOfTwo[BitLength(n)]
<1> DEFINE T    == { k \in Nat : n < PowerOfTwo[k] }
           Is(k) == n \div PowerOfTwo[k - 1] = 1
<1>1. n \in Nat /\ WordBits \in T
  BY MaxWordTyped, ScalesTyped
<1>2. PICK b \in T : \A k \in T : b <= k
  <2> HIDE DEF T
  <2>1. T \in SUBSET Nat
    BY DEF T
  <2> QED  BY <1>1, <2>1, LeastNatural
<1>3. b \in Nat /\ b # 0 /\ b <= WordBits
  BY <1>1, <1>2, PowerSteps
<1>4. b - 1 \in Nat /\ b - 1 \notin T /\ (b - 1) + 1 = b
  BY <1>2, <1>3
<1>5. PowerOfTwo[b - 1] \in Nat \ {0} /\ PowerOfTwo[b] = 2 * PowerOfTwo[b - 1]
  <2>1. PowerOfTwo[(b - 1) + 1] = 2 * PowerOfTwo[b - 1]
    BY <1>4, PowerSteps
  <2> QED  BY <1>4, <2>1, PowerSteps
<1>6. PowerOfTwo[b - 1] <= n /\ n < 2 * PowerOfTwo[b - 1]
  BY <1>1, <1>2, <1>4, <1>5
<1>7. Is(b)
  <2>1. ASSUME NEW p \in Nat \ {0}, p <= n, n < 2 * p PROVE n \div p = 1
    BY <1>1, <2>1
  <2> QED  BY <1>5, <1>6, <2>1
<1>8. \E k \in 1 .. WordBits : Is(k)
  BY <1>3, <1>7, ScalesTyped
<1> DEFINE len == CHOOSE k \in 1 .. WordBits : Is(k)
<1>9. len \in 1 .. WordBits /\ Is(len)
  <2> HIDE DEF Is
  <2> QED  BY <1>8
<1>10. BitLength(n) = len
  BY DEF BitLength
<1> HIDE DEF len
<1>11. len - 1 \in Nat /\ (len - 1) + 1 = len
  BY <1>9, ScalesTyped
<1>12. PowerOfTwo[len - 1] \in Nat \ {0} /\ PowerOfTwo[len] = 2 * PowerOfTwo[len - 1]
  <2>1. PowerOfTwo[(len - 1) + 1] = 2 * PowerOfTwo[len - 1]
    BY <1>11, PowerSteps
  <2> QED  BY <1>11, <2>1, PowerSteps
<1>13. n < 2 * PowerOfTwo[len - 1]
  <2>1. ASSUME NEW p \in Nat \ {0}, n \div p = 1 PROVE n < 2 * p
    BY <1>1, <2>1
  <2> QED  BY <1>9, <1>12, <2>1
<1> QED  BY <1>9, <1>10, <1>12, <1>13

\* isqrt starts above the root.
LEMMA StartAboveRoot ==
    ASSUME NEW n \in 1 .. MaxWord
    PROVE  /\ NewtonStart(n) \in Nat \ {0}
           /\ n < NewtonStart(n) * NewtonStart(n)
<1> DEFINE b == BitLength(n)
           e == (b + 1) \div 2
<1>1. b \in Nat /\ n < PowerOfTwo[b]
  BY BitLengthIs, ScalesTyped
<1> HIDE DEF b
<1>2. e \in Nat /\ b <= e + e
  BY <1>1
<1> HIDE DEF e
<1>3. /\ PowerOfTwo[e] \in Nat \ {0} /\ PowerOfTwo[b] \in Nat
      /\ PowerOfTwo[b] <= PowerOfTwo[e] * PowerOfTwo[e]
  <2>1. PowerOfTwo[b] <= PowerOfTwo[e + e]
    BY <1>1, <1>2, PowerMonotone
  <2> QED  BY <1>1, <1>2, <2>1, PowerSum, PowerSteps
<1>4. n < PowerOfTwo[e] * PowerOfTwo[e]
  <2>1. PowerOfTwo[e] * PowerOfTwo[e] \in Nat /\ n \in Nat
    BY <1>3, MaxWordTyped
  <2> QED  BY <1>1, <1>3, <2>1
<1>5. NewtonStart(n) = PowerOfTwo[e]
  BY DEF NewtonStart, b, e
<1> QED  BY <1>3, <1>4, <1>5

IsRoot(r, n) == r \in Nat /\ r * r <= n /\ n < (r + 1) * (r + 1)

\* Every natural has one root.
LEMMA RootExists ==
    ASSUME NEW n \in Nat
    PROVE  \E r \in Nat : IsRoot(r, n)
<1> DEFINE T == { r \in Nat : n < (r + 1) * (r + 1) }
<1>1. n \in T
  OBVIOUS
<1>2. PICK r \in T : \A s \in T : r <= s
  <2> HIDE DEF T
  <2>1. T \in SUBSET Nat
    BY DEF T
  <2> QED  BY <1>1, <2>1, LeastNatural
<1>3. r * r <= n
  <2>1. CASE r = 0
    BY <2>1
  <2>2. CASE r # 0
    <3>1. r - 1 \in Nat /\ r - 1 \notin T /\ (r - 1) + 1 = r
      BY <1>2, <2>2
    <3>2. ~ (n < ((r - 1) + 1) * ((r - 1) + 1))
      BY <3>1
    <3>3. ~ (n < r * r) /\ r * r \in Nat
      BY <1>2, <3>1, <3>2
    <3> QED  BY <3>3
  <2> QED  BY <2>1, <2>2
<1> QED  BY <1>2, <1>3 DEF IsRoot

\* And only one.
LEMMA RootUnique ==
    ASSUME NEW n \in Nat, NEW r, NEW s, IsRoot(r, n), IsRoot(s, n)
    PROVE  r = s
<1>1. ASSUME NEW a \in Nat, NEW b \in Nat, b * b <= n, n < (a + 1) * (a + 1)
      PROVE  ~ (a < b)
  <2> SUFFICES ASSUME a < b PROVE FALSE
    OBVIOUS
  <2>1. (a + 1) * (a + 1) <= b * b
    BY SquareGrows
  <2>2. b * b \in Nat /\ (a + 1) * (a + 1) \in Nat
    OBVIOUS
  <2> QED  BY <1>1, <2>1, <2>2
<1> QED  BY <1>1 DEF IsRoot

\* One step of Newton's iteration: from above the root it goes down, and never
\* below; from the root or below it does not go down.
NewtonNext(x, n) == (x + n \div x) \div 2

\* Where a step from x leads.
LEMMA NewtonStep ==
    ASSUME NEW n \in Nat \ {0}, NEW x \in Nat \ {0}
    PROVE  /\ NewtonNext(x, n) \in Nat
           /\ n < (NewtonNext(x, n) + 1) * (NewtonNext(x, n) + 1)
           /\ n < x * x => NewtonNext(x, n) \in Nat \ {0} /\ NewtonNext(x, n) < x
           /\ x * x <= n => NewtonNext(x, n) >= x
<1> DEFINE q == n \div x
           y == (x + q) \div 2
<1>1. q \in Nat /\ x * q <= n /\ n < x * (q + 1)
  OBVIOUS
<1> HIDE DEF q
<1>2. y \in Nat /\ 2 * y <= x + q /\ x + q < 2 * (y + 1)
  BY <1>1
<1> HIDE DEF y
<1>3. NewtonNext(x, n) = y
  BY DEF NewtonNext, q, y
<1>4. n < (y + 1) * (y + 1)
  <2> DEFINE w == y + 1
             v == q + 1
  <2>1. w \in Nat /\ v \in Nat /\ x + v <= 2 * w /\ n < x * v
    BY <1>1, <1>2
  <2> HIDE DEF w, v
  <2>2. (x + v) * (x + v) <= (2 * w) * (2 * w)
    BY <2>1, SquareGrows
  <2>3. 4 * (x * v) <= (x + v) * (x + v)
    <3>1. 0 <= (x - v) * (x - v)
      BY <2>1
    <3>2. (x + v) * (x + v) - 4 * (x * v) = (x - v) * (x - v)
      BY <2>1
    <3>3. (x + v) * (x + v) \in Int /\ x * v \in Int /\ (x - v) * (x - v) \in Int
      BY <2>1
    <3> QED  BY <3>1, <3>2, <3>3
  <2>4. (2 * w) * (2 * w) = 4 * (w * w)
    BY <2>1
  <2>5. (x + v) * (x + v) \in Int /\ x * v \in Int /\ w * w \in Int
    BY <2>1
  <2>6. n < w * w
    BY <2>1, <2>2, <2>3, <2>4, <2>5
  <2> QED  BY <2>6 DEF w
<1>5. ASSUME n < x * x PROVE y \in Nat \ {0} /\ y < x
  <2>1. q < x
    <3> SUFFICES ASSUME x <= q PROVE FALSE
      BY <1>1
    <3>1. x * x <= q * x /\ q * x = x * q
      BY <1>1, TimesMonotone
    <3>2. x * x \in Nat /\ x * q \in Nat
      BY <1>1
    <3> QED  BY <1>1, <1>5, <3>1, <3>2
  <2>2. 2 * y < 2 * x
    BY <1>1, <1>2, <2>1
  <2>3. y # 0
    <3> SUFFICES ASSUME y = 0 PROVE FALSE
      OBVIOUS
    <3>1. x + q < 2
      BY <1>2
    <3>2. x = 1 /\ q = 0
      BY <1>1, <3>1
    <3> QED  BY <1>1, <3>2
  <2> QED  BY <1>2, <2>2, <2>3
<1>6. ASSUME x * x <= n PROVE y >= x
  <2>1. x <= q
    <3> SUFFICES ASSUME q + 1 <= x PROVE FALSE
      BY <1>1
    <3>1. (q + 1) * x <= x * x /\ (q + 1) * x = x * (q + 1)
      BY <1>1, TimesMonotone
    <3>2. x * x \in Nat /\ x * (q + 1) \in Nat
      BY <1>1
    <3> QED  BY <1>1, <1>6, <3>1, <3>2
  <2> QED  BY <1>1, <1>2, <2>1
<1> QED  BY <1>2, <1>3, <1>4, <1>5, <1>6

\* isqrt answers the floor of the root of every word.
THEOREM ISqrtIsFloor ==
    ASSUME NEW n \in 0 .. MaxWord
    PROVE  IsRoot(ISqrt(n), n)
<1> DEFINE Is(h)   == h = [x \in Nat \ {0} |->
                         LET next == (x + n \div x) \div 2
                         IN  IF next >= x THEN x ELSE h[next]]
           iterate == CHOOSE h : Is(h)
<1>1. CASE n = 0
  <2>1. ISqrt(n) = 0
    BY <1>1 DEF ISqrt
  <2> QED  BY <1>1, <2>1 DEF IsRoot
<1>2. CASE n # 0
  <2>1. n \in Nat \ {0} /\ n \in 1 .. MaxWord
    BY <1>2, MaxWordTyped
  <2>2. PICK r \in Nat : IsRoot(r, n)
    BY <2>1, RootExists
  \* A solution of the recursion, in closed form.
  <2> DEFINE closed == [x \in Nat \ {0} |-> IF x * x <= n THEN x ELSE r]
  <2>3. Is(closed)
    <3>1. ASSUME NEW x \in Nat \ {0}
          PROVE  closed[x] = IF NewtonNext(x, n) >= x THEN x ELSE closed[NewtonNext(x, n)]
      <4> DEFINE y == NewtonNext(x, n)
      <4>1. /\ y \in Nat /\ n < (y + 1) * (y + 1)
            /\ n < x * x => y \in Nat \ {0} /\ y < x
            /\ x * x <= n => y >= x
        BY <2>1, NewtonStep
      <4> HIDE DEF y
      <4>2. CASE x * x <= n
        BY <4>1, <4>2 DEF y
      <4>3. CASE ~ (x * x <= n)
        <5>1. n < x * x
          BY <2>1, <4>3
        <5>2. y \in Nat \ {0} /\ y < x /\ ~ (y >= x)
          BY <4>1, <5>1
        <5>3. closed[x] = r
          BY <4>3
        <5>4. closed[y] = r
          <6>1. CASE y * y <= n
            <7>1. IsRoot(y, n)
              BY <4>1, <6>1 DEF IsRoot
            <7>2. y = r
              BY <2>1, <2>2, <7>1, RootUnique
            <7> QED  BY <5>2, <6>1, <7>2
          <6>2. CASE ~ (y * y <= n)
            BY <5>2, <6>2
          <6> QED  BY <6>1, <6>2
        <5> QED  BY <5>2, <5>3, <5>4 DEF y
      <4> QED  BY <4>2, <4>3
    <3>2. closed = [x \in Nat \ {0} |->
                      IF NewtonNext(x, n) >= x THEN x ELSE closed[NewtonNext(x, n)]]
      <4>1. closed = [x \in Nat \ {0} |-> closed[x]]
        OBVIOUS
      <4> HIDE DEF closed
      <4> QED  BY <3>1, <4>1
    <3> HIDE DEF closed
    <3> QED  BY <3>2 DEF NewtonNext
  <2> HIDE DEF closed
  <2>4. Is(iterate)
    <3> HIDE DEF Is
    <3> QED  BY <2>3
  <2>5. ISqrt(n) = iterate[NewtonStart(n)]
    BY <1>2 DEF ISqrt
  <2> HIDE DEF iterate
  <2>6. \A x \in Nat \ {0} :
           iterate[x] = IF NewtonNext(x, n) >= x THEN x ELSE iterate[NewtonNext(x, n)]
    BY <2>4 DEF NewtonNext
  <2> HIDE DEF Is
  \* From above the root, the iteration ends at it.
  <2> DEFINE Wrong == { x \in Nat \ {0} : /\ n < (x + 1) * (x + 1)
                                          /\ ~ IsRoot(iterate[x], n) }
  <2>7. Wrong = {}
    <3> SUFFICES ASSUME Wrong # {} PROVE FALSE
      OBVIOUS
    <3>1. PICK x \in Wrong : \A y \in Wrong : x <= y
      <4>1. Wrong \in SUBSET Nat
        OBVIOUS
      <4> HIDE DEF Wrong
      <4> QED  BY <4>1, LeastNatural
    <3> DEFINE y == NewtonNext(x, n)
    <3>2. /\ y \in Nat /\ n < (y + 1) * (y + 1)
          /\ n < x * x => y \in Nat \ {0} /\ y < x
          /\ x * x <= n => y >= x
      BY <2>1, <3>1, NewtonStep
    <3>3. iterate[x] = IF y >= x THEN x ELSE iterate[y]
      BY <2>6, <3>1
    <3> HIDE DEF y
    <3>4. x \in Nat \ {0} /\ n < (x + 1) * (x + 1) /\ ~ IsRoot(iterate[x], n)
      BY <3>1
    <3>5. CASE x * x <= n
      BY <3>2, <3>3, <3>4, <3>5 DEF IsRoot
    <3>6. CASE ~ (x * x <= n)
      <4>1. y \in Nat \ {0} /\ y < x /\ ~ (y >= x)
        BY <2>1, <3>2, <3>4, <3>6
      <4>2. y \notin Wrong
        BY <3>1, <3>4, <4>1
      <4>3. IsRoot(iterate[y], n)
        BY <3>2, <4>1, <4>2
      <4> QED  BY <3>3, <3>4, <4>1, <4>3
    <3> QED  BY <3>5, <3>6
  <2> DEFINE s == NewtonStart(n)
  <2>8. s \in Nat \ {0} /\ n < s * s
    BY <2>1, StartAboveRoot
  <2> HIDE DEF s
  <2>9. n < (s + 1) * (s + 1)
    <3>1. s * s <= (s + 1) * (s + 1)
      BY <2>8, SquareGrows
    <3>2. s * s \in Nat /\ (s + 1) * (s + 1) \in Nat
      BY <2>8
    <3> QED  BY <2>1, <2>8, <3>1, <3>2
  <2>10. IsRoot(iterate[s], n)
    BY <2>7, <2>8, <2>9
  <2> QED  BY <2>5, <2>10 DEF s
<1> QED  BY <1>1, <1>2

-----------------------------------------------------------------------------
(* Checked words.                                                          *)

\* A natural, or what a checked operation answers for None.
Partial(S) == S \cup {Overflow}

\* The answer for None is no number.
LEMMA WordsAreNot == Overflow \notin Nat
BY DEF Overflow

\* What a checked product is, when it is anything: a word.
LEMMA MulTyped ==
    ASSUME NEW a \in Partial(Nat), NEW b \in Partial(Nat)
    PROVE  /\ Mul(a, b) \in Partial(Words)
           /\ Mul(a, b) # Overflow => a \in Nat /\ b \in Nat /\ Mul(a, b) = a * b
<1>1. CASE Overflow \in {a, b}
  BY <1>1 DEF Mul, Checked, Partial
<1>2. CASE Overflow \notin {a, b}
  <2>1. a \in Nat /\ b \in Nat
    BY <1>2 DEF Partial
  <2>2. ASSUME b = 0 \/ a <= MaxWord \div b
        PROVE  a * b \in Words
    <3>1. MaxWord \in Nat /\ a * b \in Nat
      BY <2>1, MaxWordTyped
    <3>2. CASE b = 0
      BY <2>1, <3>1, <3>2 DEF Words
    <3>3. CASE b # 0
      <4>1. MaxWord \div b \in Nat /\ b * (MaxWord \div b) <= MaxWord
        BY <2>1, <3>1, <3>3, QuotientBound
      <4>2. a * b <= (MaxWord \div b) * b
        BY <2>1, <2>2, <3>3, <4>1, TimesMonotone
      <4>3. (MaxWord \div b) * b = b * (MaxWord \div b)
        BY <2>1, <4>1
      <4>4. b * (MaxWord \div b) \in Nat
        BY <2>1, <4>1
      <4> HIDE DEF MaxWord
      <4> QED  BY <3>1, <4>1, <4>2, <4>3, <4>4 DEF Words
    <3> QED  BY <3>2, <3>3
  <2>3. CASE b = 0 \/ a <= MaxWord \div b
    BY <1>2, <2>1, <2>2, <2>3 DEF Mul, Checked, Partial
  <2>4. CASE ~ (b = 0 \/ a <= MaxWord \div b)
    BY <1>2, <2>4 DEF Mul, Checked, Partial
  <2> QED  BY <2>3, <2>4
<1> QED  BY <1>1, <1>2

\* A product that fits a word does not overflow.
LEMMA ProductFits ==
    ASSUME NEW a \in Nat, NEW b \in Nat, a * b <= MaxWord
    PROVE  Mul(a, b) = a * b
<1>1. a # Overflow /\ b # Overflow /\ MaxWord \in Nat
  BY WordsAreNot, MaxWordTyped
<1> HIDE DEF MaxWord
<1>2. ASSUME b # 0 PROVE a <= MaxWord \div b
  <2>1. b * a <= MaxWord
    OBVIOUS
  <2> QED  BY <1>1, <1>2, <2>1, QuotientLeast
<1> QED  BY <1>1, <1>2 DEF Mul, Checked

\* The same of a sum.
LEMMA AddTyped ==
    ASSUME NEW a \in Partial(Nat), NEW b \in Partial(Nat)
    PROVE  /\ Add(a, b) \in Partial(Words)
           /\ Add(a, b) # Overflow => a \in Nat /\ b \in Nat /\ Add(a, b) = a + b
BY MaxWordTyped DEF Add, Checked, Partial, Words, Overflow

\* Of a difference.
LEMMA SubTyped ==
    ASSUME NEW a \in Partial(Nat), NEW b \in Partial(Nat)
    PROVE  /\ Sub(a, b) \in Partial(Nat)
           /\ Sub(a, b) # Overflow => /\ a \in Nat /\ b \in Nat
                                      /\ b <= a /\ Sub(a, b) = a - b
BY DEF Sub, Checked, Partial, Overflow

\* Of a quotient.
LEMMA DivTyped ==
    ASSUME NEW a \in Partial(Nat), NEW b \in Partial(Nat)
    PROVE  /\ Div(a, b) \in Partial(Nat)
           /\ Div(a, b) # Overflow => /\ a \in Nat /\ b \in Nat \ {0}
                                      /\ Div(a, b) = a \div b
           /\ a \in Partial(Words) => Div(a, b) \in Partial(Words)
<1>1. CASE Overflow \in {a, b} \/ b = 0
  BY <1>1 DEF Div, Checked, Partial
<1>2. CASE ~ (Overflow \in {a, b} \/ b = 0)
  <2>1. a \in Nat /\ b \in Nat \ {0} /\ Div(a, b) = a \div b
    BY <1>2 DEF Div, Checked, Partial
  <2>2. a \div b \in Nat /\ b * (a \div b) <= a
    BY <2>1, QuotientBound
  <2>3. a \div b <= a
    <3> DEFINE q == a \div b
    <3>1. 1 * q <= b * q /\ b * q \in Nat /\ q \in Nat /\ 1 * q = q
      BY <2>1, <2>2, TimesMonotone
    <3> HIDE DEF q
    <3>2. q <= a
      BY <2>1, <2>2, <3>1 DEF q
    <3> QED  BY <3>2 DEF q
  <2>4. a # Overflow
    BY <1>2
  <2> HIDE DEF MaxWord
  <2>5. a \in Words => a \div b \in Words
    BY <2>1, <2>2, <2>3, MaxWordTyped DEF Words
  <2> QED  BY <2>1, <2>2, <2>4, <2>5 DEF Partial
<1> QED  BY <1>1, <1>2

-----------------------------------------------------------------------------
(* One swap in checked words.                                              *)

\* simulate_v2_swap_exact_in: whatever the width of a word, a swap that does
\* not overflow leaves both reserves, and leaves them with a product no
\* smaller than it found.
THEOREM SimulateV2KeepsProduct ==
    ASSUME NEW pool, pool.reserve0 \in Nat, pool.reserve1 \in Nat,
           pool.feeTier \in 0 .. TenK,
           NEW amountIn \in Nat, NEW zeroForOne \in BOOLEAN,
           SimulateV2(pool, amountIn, zeroForOne) # NoSwap
    PROVE  LET result == SimulateV2(pool, amountIn, zeroForOne)
           IN  /\ result.reserve0 \in Nat \ {0}
               /\ result.reserve1 \in Nat \ {0}
               /\ pool.reserve0 * pool.reserve1 <= result.reserve0 * result.reserve1
<1> DEFINE rIn     == In(pool, zeroForOne)
           rOut    == Out(pool, zeroForOne)
           rest    == Sub(TenK, pool.feeTier)
           withFee == Mul(amountIn, rest)
           num     == Mul(withFee, rOut)
           whole   == Mul(rIn, TenK)
           den     == Add(whole, withFee)
           out     == AmountOut(num, den)
           newIn   == Add(rIn, amountIn)
           result  == SimulateV2(pool, amountIn, zeroForOne)
<1>1. /\ rIn # 0 /\ rOut # 0
      /\ out # Overflow /\ ~(out >= rOut) /\ newIn # Overflow
      /\ result = [out |-> out,
                   reserve0 |-> IF zeroForOne THEN newIn ELSE rOut - out,
                   reserve1 |-> IF zeroForOne THEN rOut - out ELSE newIn]
  BY DEF SimulateV2
<1>2. rIn \in Nat \ {0} /\ rOut \in Nat \ {0}
  BY <1>1 DEF In, Out
<1>3. newIn = rIn + amountIn
  BY <1>1 DEF Add, Checked
<1>4. /\ out = num \div den
      /\ num # Overflow /\ den # Overflow /\ den # 0
  BY <1>1 DEF AmountOut, Div, Checked
<1>5. num = withFee * rOut /\ withFee # Overflow
  BY <1>4 DEF Mul, Checked
<1>6. den = whole + withFee /\ whole # Overflow
  BY <1>4 DEF Add, Checked
<1>7. whole = rIn * TenK
  BY <1>6 DEF Mul, Checked
<1>8. withFee = amountIn * rest /\ rest # Overflow
  BY <1>5 DEF Mul, Checked
<1>9. rest = TenK - pool.feeTier
  BY <1>8 DEF Sub, Checked
<1>10. rest \in 0 .. TenK /\ TenK \in Nat \ {0}
  BY <1>9, ScalesTyped
<1> HIDE DEF rIn, rOut, rest, withFee, num, whole, den, out, newIn, result
<1>11. /\ withFee \in Nat /\ num \in Nat /\ whole \in Nat /\ den \in Nat \ {0}
  BY <1>2, <1>4, <1>5, <1>6, <1>7, <1>8, <1>10
<1>12. out \in Nat /\ den * out <= num
  BY <1>4, <1>11, QuotientBound
<1>13. out \in 0 .. rOut /\ out # rOut
  BY <1>1, <1>2, <1>12
<1>14. (rIn * TenK + amountIn * rest) * out <= (amountIn * rest) * rOut
  BY <1>5, <1>6, <1>7, <1>8, <1>12
<1>15. rIn * rOut <= (rIn + amountIn) * (rOut - out)
  BY <1>2, <1>10, <1>13, <1>14, StepKeepsProduct
<1>16. rOut - out \in Nat \ {0} /\ newIn \in Nat \ {0}
  BY <1>2, <1>3, <1>13
<1>17. pool.reserve0 * pool.reserve1 = rIn * rOut
  BY DEF rIn, rOut, In, Out
<1>18. result.reserve0 * result.reserve1 = newIn * (rOut - out)
  BY <1>1, <1>16
<1>19. result.reserve0 \in Nat \ {0} /\ result.reserve1 \in Nat \ {0}
  BY <1>1, <1>16
<1> QED  BY <1>3, <1>15, <1>17, <1>18, <1>19 DEF result

-----------------------------------------------------------------------------
(* Types of the evaluations.                                               *)

\* A pool as the engine holds it.
TypedPool(pool) ==
    /\ pool.reserve0 \in Words
    /\ pool.reserve1 \in Words
    /\ pool.feeTier \in 0 .. TenK

\* The sides of a typed pool are words.
LEMMA SidesTyped ==
    ASSUME NEW pool, TypedPool(pool), NEW z
    PROVE  /\ In(pool, z) \in Words /\ Out(pool, z) \in Words
           /\ In(pool, ~z) \in Words /\ Out(pool, ~z) \in Words
BY DEF TypedPool, In, Out

\* What is a word, a natural or an answer of a checked operation.
LEMMA WordsPartial ==
    /\ Words \subseteq Nat /\ Nat \subseteq Partial(Nat)
    /\ Words \subseteq Partial(Nat) /\ Partial(Words) \subseteq Partial(Nat)
BY MaxWordTyped DEF Words, Partial

\* What a simulation stores are words.
LEMMA SimulateV2Typed ==
    ASSUME NEW pool, TypedPool(pool), NEW amountIn \in Nat, NEW z \in BOOLEAN,
           SimulateV2(pool, amountIn, z) # NoSwap
    PROVE  /\ SimulateV2(pool, amountIn, z).reserve0 \in Words
           /\ SimulateV2(pool, amountIn, z).reserve1 \in Words
<1> DEFINE rIn     == In(pool, z)
           rOut    == Out(pool, z)
           withFee == Mul(amountIn, Sub(TenK, pool.feeTier))
           out     == AmountOut(Mul(withFee, rOut), Add(Mul(rIn, TenK), withFee))
           newIn   == Add(rIn, amountIn)
           result  == SimulateV2(pool, amountIn, z)
<1>1. /\ out # Overflow /\ ~(out >= rOut) /\ newIn # Overflow
      /\ result = [out |-> out,
                   reserve0 |-> IF z THEN newIn ELSE rOut - out,
                   reserve1 |-> IF z THEN rOut - out ELSE newIn]
  BY DEF SimulateV2
<1>2. rIn \in Words /\ rOut \in Words
  BY SidesTyped
<1>3. TenK \in Partial(Nat) /\ pool.feeTier \in Partial(Nat) /\ amountIn \in Partial(Nat)
  BY ScalesTyped DEF TypedPool, Partial
<1>4. withFee \in Partial(Nat)
  BY <1>3, SubTyped, MulTyped, WordsPartial
<1> HIDE DEF rIn, rOut, withFee
<1>5. out \in Partial(Nat)
  <2>1. Mul(withFee, rOut) \in Partial(Nat) /\ Mul(rIn, TenK) \in Partial(Nat)
    BY <1>2, <1>3, <1>4, MulTyped, WordsPartial
  <2>2. Add(Mul(rIn, TenK), withFee) \in Partial(Nat)
    BY <1>4, <2>1, AddTyped, WordsPartial
  <2> QED  BY <2>1, <2>2, DivTyped DEF AmountOut
<1>6. newIn \in Partial(Words)
  BY <1>2, <1>3, AddTyped, WordsPartial
<1> HIDE DEF out, newIn, result
<1>7. newIn \in Words /\ out \in Nat
  BY <1>1, <1>5, <1>6 DEF Partial
<1>8. rOut - out \in Words
  BY <1>1, <1>2, <1>7, MaxWordTyped DEF Words
<1>9. result.reserve0 \in Words /\ result.reserve1 \in Words
  BY <1>1, <1>7, <1>8
<1> QED  BY <1>9 DEF result

\* What the V3 simulation stores are words too.
LEMMA SimulateV3Typed ==
    ASSUME NEW pool, TypedPool(pool), NEW amountIn \in Nat, NEW z \in BOOLEAN,
           SimulateV3(pool, amountIn, z) # NoSwap
    PROVE  /\ SimulateV3(pool, amountIn, z).reserve0 \in Words
           /\ SimulateV3(pool, amountIn, z).reserve1 \in Words
<1> DEFINE price     == pool.reserve0
           liquidity == pool.reserve1
           new       == V3Price(price, liquidity, amountIn, z)
           out       == IF z
                        THEN Div(Mul(liquidity, Sub(price, new)), Q96)
                        ELSE Div(Mul(Div(Mul(liquidity, Q96), price), Sub(new, price)), new)
           result    == SimulateV3(pool, amountIn, z)
<1>1. /\ out # Overflow
      /\ result = [out |-> out, reserve0 |-> new, reserve1 |-> liquidity]
  BY DEF SimulateV3
<1>2. /\ price \in Words /\ liquidity \in Words
      /\ price \in Partial(Nat) /\ liquidity \in Partial(Nat)
      /\ amountIn \in Partial(Nat) /\ Q96 \in Partial(Nat)
  BY WordsPartial, ScalesTyped DEF TypedPool
<1> HIDE DEF price, liquidity
<1>3. new \in Partial(Words)
  <2>1. CASE z
    <3>1. Div(Mul(amountIn, price), Q96) \in Partial(Nat)
      BY <1>2, MulTyped, DivTyped, WordsPartial
    <3>2. Add(liquidity, Div(Mul(amountIn, price), Q96)) \in Partial(Nat)
      BY <1>2, <3>1, AddTyped, WordsPartial
    <3>3. Mul(liquidity, price) \in Partial(Words)
      BY <1>2, MulTyped
    <3> QED  BY <2>1, <3>2, <3>3, DivTyped, WordsPartial DEF V3Price
  <2>2. CASE ~ z
    <3>1. Div(Mul(amountIn, Q96), liquidity) \in Partial(Nat)
      BY <1>2, MulTyped, DivTyped, WordsPartial
    <3> QED  BY <1>2, <2>2, <3>1, AddTyped DEF V3Price
  <2> QED  BY <2>1, <2>2
<1> HIDE DEF new
<1>4. new # Overflow
  <2> SUFFICES ASSUME new = Overflow PROVE FALSE
    OBVIOUS
  <2>1. Sub(price, new) = Overflow /\ Sub(new, price) = Overflow
    BY DEF Sub, Checked
  <2>2. \A a, b : a = Overflow \/ b = Overflow
                    => Mul(a, b) = Overflow /\ Div(a, b) = Overflow
    BY DEF Mul, Div, Checked
  <2>3. out = Overflow
    BY <2>1, <2>2
  <2> QED  BY <1>1, <2>3
<1>5. new \in Words
  BY <1>3, <1>4 DEF Partial
<1> HIDE DEF out, result
<1>6. result.reserve0 \in Words /\ result.reserve1 \in Words
  BY <1>1, <1>2, <1>5
<1> QED  BY <1>6 DEF result

\* The share of an input that a pool's fee leaves.
LEMMA ComplementTyped ==
    ASSUME NEW pool, TypedPool(pool)
    PROVE  FeeComplement(pool) \in 0 .. OneK
<1> DEFINE r == TenK \div OneK
           d == pool.feeTier \div r
<1>1. /\ OneK \in Nat \ {0} /\ TenK \in Nat \ {0} /\ TenK % OneK = 0
      /\ pool.feeTier \in 0 .. TenK
  BY ScalesTyped, OptimizerTyped DEF TypedPool
<1>2. TenK = OneK * r /\ r \in Nat \ {0}
  BY <1>1
<1> HIDE DEF r
<1>3. d \in Nat /\ r * d <= pool.feeTier
  BY <1>1, <1>2, QuotientBound
<1>4. r * d <= r * OneK
  BY <1>1, <1>2, <1>3
<1>5. d <= OneK
  BY <1>1, <1>2, <1>3, <1>4, TimesCancels
<1> HIDE DEF d
<1>6. OneK - d \in 0 .. OneK
  BY <1>1, <1>3, <1>5
<1> QED  BY <1>6 DEF FeeComplement, d, r

\* Everything the optimizer computes with.
LEMMA PartsTyped ==
    ASSUME NEW pool, TypedPool(pool), NEW z
    PROVE  /\ In(pool, z) \in Partial(Nat) /\ Out(pool, z) \in Partial(Nat)
           /\ In(pool, ~z) \in Partial(Nat) /\ Out(pool, ~z) \in Partial(Nat)
           /\ FeeComplement(pool) \in Partial(Nat)
           /\ OneK \in Partial(Nat)
<1>1. /\ In(pool, z) \in Partial(Nat) /\ Out(pool, z) \in Partial(Nat)
      /\ In(pool, ~z) \in Partial(Nat) /\ Out(pool, ~z) \in Partial(Nat)
  BY SidesTyped, WordsPartial
<1>2. FeeComplement(pool) \in Nat
  BY ComplementTyped, OptimizerTyped
<1>3. OneK \in Nat
  BY OptimizerTyped
<1> QED  BY <1>1, <1>2, <1>3, WordsPartial

\* A leg answers a word, if anything.
LEMMA LegOutTyped ==
    ASSUME NEW pool, TypedPool(pool), NEW x \in Partial(Nat), NEW z \in BOOLEAN
    PROVE  LegOut(pool, x, z) \in Partial(Words)
<1> DEFINE withFee == Mul(x, FeeComplement(pool))
<1>1. /\ In(pool, z) \in Partial(Nat) /\ Out(pool, z) \in Partial(Nat)
      /\ FeeComplement(pool) \in Partial(Nat) /\ OneK \in Partial(Nat)
  BY PartsTyped
<1>2. withFee \in Partial(Nat)
  BY <1>1, MulTyped, WordsPartial
<1> HIDE DEF withFee
<1>3. Mul(withFee, Out(pool, z)) \in Partial(Words)
  BY <1>1, <1>2, MulTyped
<1>4. Add(Mul(In(pool, z), OneK), withFee) \in Partial(Nat)
  BY <1>1, <1>2, MulTyped, AddTyped, WordsPartial
<1> QED  BY <1>3, <1>4, DivTyped, WordsPartial DEF LegOut, withFee

\* So does the radicand.
LEMMA KExpandedTyped ==
    ASSUME NEW a, NEW b, TypedPool(a), TypedPool(b), NEW z \in BOOLEAN
    PROVE  KExpanded(a, b, z) \in Partial(Words)
<1>1. /\ In(a, z) \in Partial(Nat) /\ Out(a, z) \in Partial(Nat)
      /\ In(b, ~z) \in Partial(Nat) /\ Out(b, ~z) \in Partial(Nat)
      /\ FeeComplement(a) \in Partial(Nat) /\ FeeComplement(b) \in Partial(Nat)
  BY PartsTyped
<1>2. \A c, d \in Partial(Nat) : Mul(c, d) \in Partial(Nat) /\ Mul(c, d) \in Partial(Words)
  BY MulTyped, WordsPartial
<1> QED  BY <1>1, <1>2 DEF KExpanded

\* What optimal_v2_v2 answers: a failure, no trade, or an input that is a word
\* and the output of its two legs.
LEMMA OptimalTyped ==
    ASSUME NEW a, NEW b, TypedPool(a), TypedPool(b), NEW z \in BOOLEAN,
           OptimalV2V2(a, b, z) \notin {Failed, NoTrade}
    PROVE  /\ OptimalV2V2(a, b, z).in \in Words \ {0}
           /\ OptimalV2V2(a, b, z).out \in Words
           /\ OptimalV2V2(a, b, z).out = TwoLegs(a, b, OptimalV2V2(a, b, z).in, z)
<1> DEFINE k    == KExpanded(a, b, z)
           root == ISqrt(k)
           sub  == Mul(Mul(In(a, z), In(b, ~z)), OneK)
           x    == OptimalInput(a, b, z, root, sub)
           out  == TwoLegs(a, b, x, z)
<1>1. /\ Overflow \notin {k, sub} /\ ~ (root <= sub) /\ x # 0
      /\ Overflow \notin {x, out}
      /\ OptimalV2V2(a, b, z) = [in |-> x, out |-> out]
  BY DEF OptimalV2V2
<1>2. /\ In(a, z) \in Partial(Nat) /\ Out(a, z) \in Partial(Nat)
      /\ In(b, ~z) \in Partial(Nat)
      /\ FeeComplement(a) \in Partial(Nat) /\ FeeComplement(b) \in Partial(Nat)
      /\ OneK \in Partial(Nat)
  BY PartsTyped
<1>3. k \in 0 .. MaxWord
  BY <1>1, KExpandedTyped DEF Partial, Words
<1> HIDE DEF k
<1>4. root \in Nat
  BY <1>3, ISqrtIsFloor DEF IsRoot
<1>5. sub \in Nat
  BY <1>1, <1>2, MulTyped, WordsPartial DEF Partial
<1> HIDE DEF root, sub
<1>6. root - sub \in Partial(Nat)
  BY <1>1, <1>4, <1>5, WordsPartial
<1>7. x \in Partial(Words)
  <2> DEFINE num == Mul(OneK, root - sub)
             den == Mul(FeeComplement(a),
                        Add(Mul(In(b, ~z), OneK), Mul(FeeComplement(b), Out(a, z))))
  <2>1. num \in Partial(Words)
    BY <1>2, <1>6, MulTyped
  <2>2. den \in Partial(Nat)
    BY <1>2, MulTyped, AddTyped, WordsPartial
  <2>3. x = Div(num, den)
    BY DEF OptimalInput
  <2> HIDE DEF num, den, x
  <2> QED  BY <2>1, <2>2, <2>3, DivTyped, WordsPartial
<1> HIDE DEF x
<1>8. x \in Words \ {0}
  BY <1>1, <1>7 DEF Partial
<1>9. out \in Words
  <2>1. out \in Partial(Words)
    BY <1>7, LegOutTyped, WordsPartial DEF TwoLegs
  <2> HIDE DEF out
  <2> QED  BY <1>1, <2>1 DEF Partial
<1> HIDE DEF out
<1>10. OptimalV2V2(a, b, z).in = x /\ OptimalV2V2(a, b, z).out = out
  BY <1>1
<1> QED  BY <1>8, <1>9, <1>10 DEF out

\* The registry's reserves are words.
ReservesTyped == reserves \in [Pools -> [reserve0 : Words, reserve1 : Words]]

\* A pool of the registry with typed reserves.
LEMMA PoolsTyped ==
    ASSUME NEW p \in Pools, NEW r \in [reserve0 : Words, reserve1 : Words]
    PROVE  TypedPool(PoolWith(p, r))
BY PricingTyped DEF TypedPool, PoolWith

\* What an evaluation stores, and what it signals.
LEMMA SimulateTyped ==
    ASSUME ReservesTyped, NEW a \in Pools, NEW amount \in Amounts, NEW z \in BOOLEAN,
           Simulate(a, amount, z) # NoSwap
    PROVE  ReservesOf(Simulate(a, amount, z)) \in [reserve0 : Words, reserve1 : Words]
<1>1. TypedPool(PoolNow(a)) /\ amount \in Nat
  <2>1. reserves[a] \in [reserve0 : Words, reserve1 : Words]
    BY DEF ReservesTyped
  <2> QED  BY <2>1, PoolsTyped, PricingTyped DEF PoolNow
<1>2. CASE Protocol[a] = "V2"
  <2> DEFINE result == SimulateV2(PoolNow(a), amount, z)
  <2>1. Simulate(a, amount, z) = result
    BY <1>2 DEF Simulate
  <2>2. result.reserve0 \in Words /\ result.reserve1 \in Words
    BY <1>1, <2>1, SimulateV2Typed
  <2> HIDE DEF result
  <2> QED  BY <2>1, <2>2 DEF ReservesOf
<1>3. CASE Protocol[a] # "V2"
  <2> DEFINE result == SimulateV3(PoolNow(a), amount, z)
  <2>1. Simulate(a, amount, z) = result
    BY <1>3 DEF Simulate
  <2>2. result.reserve0 \in Words /\ result.reserve1 \in Words
    BY <1>1, <2>1, SimulateV3Typed
  <2> HIDE DEF result
  <2> QED  BY <2>1, <2>2 DEF ReservesOf
<1> QED  BY <1>2, <1>3

SignalType == [poolA : Pools, poolB : Pools, zeroForOne : BOOLEAN,
               amountIn : 1 .. MaxWord, grossProfit : 1 .. MaxWord]

\* What a signal says: the pools are two, and its trade is what the optimizer
\* answered for them.
LEMMA SignalsAre ==
    ASSUME ReservesTyped, NEW a \in Pools, NEW z \in BOOLEAN, NEW gasPrice \in GasPrices,
           NEW after \in [reserve0 : Words, reserve1 : Words],
           ~ OptimizerFails(a, after, z),
           NEW s \in Signals(a, after, z, gasPrice)
    PROVE  /\ s \in SignalType
           /\ s.poolA = a /\ s.poolB \in Candidates(a) /\ s.poolA # s.poolB
           /\ s.zeroForOne = ~z
           /\ TypedPool(PoolWith(a, after)) /\ TypedPool(PoolNow(s.poolB))
           /\ LET trade == TradeWith(s.poolB, a, after, z)
              IN  /\ trade \notin {Failed, NoTrade}
                  /\ s.amountIn = trade.in
                  /\ trade.in + s.grossProfit = trade.out
<1> DEFINE trade(b) == TradeWith(b, a, after, z)
           gross(b) == GrossProfit(trade(b))
           paying   == { b \in Candidates(a) : PaysOff(gross(b), gasPrice) }
           best     == { b \in paying : \A c \in paying : gross(c) <= gross(b) }
<1>1. PICK b \in best : s = [poolA |-> a, poolB |-> b, zeroForOne |-> OurDirection(z),
                             amountIn |-> trade(b).in, grossProfit |-> gross(b)]
  BY DEF Signals
<1>2. /\ b \in Candidates(a) /\ b \in Pools \ {a}
      /\ PaysOff(gross(b), gasPrice)
      /\ trade(b) # Failed
  BY <1>1 DEF Candidates, OptimizerFails
<1>3. GasCost(gasPrice) \in Nat
  <2>1. gasPrice + 1 \in Nat /\ GasEstimateLimit \in Nat /\ L1Fee \in Nat
    BY PricingTyped, OptimizerTyped
  <2>2. (gasPrice + 1) * GasEstimateLimit \in Nat
    BY <2>1
  <2> QED  BY <2>1, <2>2 DEF GasCost, EstimateGasCostWei, OurGasPrice
<1>4. TypedPool(PoolWith(a, after)) /\ TypedPool(PoolNow(b))
  <2>1. reserves[b] \in [reserve0 : Words, reserve1 : Words]
    BY <1>2 DEF ReservesTyped
  <2> QED  BY <1>2, <2>1, PoolsTyped DEF PoolNow
<1> DEFINE t == trade(b)
<1>5. t # NoTrade
  <2> SUFFICES ASSUME t = NoTrade PROVE FALSE
    OBVIOUS
  <2>1. gross(b) = 0
    <3> HIDE DEF trade
    <3> QED  BY DEF GrossProfit, Gain, NoTrade
  <2> QED  BY <1>2, <1>3, <2>1 DEF PaysOff
<1>6. /\ t = OptimalV2V2(PoolWith(a, after), PoolNow(b), OurDirection(z))
      /\ OurDirection(z) \in BOOLEAN
  BY DEF TradeWith, OurDirection
<1>7. t.in \in Words \ {0} /\ t.out \in Words
  <2> HIDE DEF t
  <2> QED  BY <1>2, <1>4, <1>5, <1>6, OptimalTyped DEF t
<1>8. gross(b) = Gain(t.out, t.in) /\ gross(b) > GasCost(gasPrice)
  BY <1>2 DEF GrossProfit, PaysOff
<1> HIDE DEF trade, t, gross
<1>9. t.out > t.in /\ gross(b) = t.out - t.in
  BY <1>3, <1>7, <1>8 DEF Gain
<1>10. t.in \in 1 .. MaxWord /\ gross(b) \in 1 .. MaxWord
  BY <1>7, <1>9, MaxWordTyped DEF Words
<1>11. /\ s.grossProfit = gross(b) /\ s.amountIn = t.in
       /\ s.poolA = a /\ s.poolB = b /\ s.zeroForOne = OurDirection(z)
  BY <1>1 DEF t
<1>12. s \in SignalType
  BY <1>1, <1>2, <1>6, <1>10 DEF SignalType, t
<1>13. t.in + s.grossProfit = t.out
  BY <1>7, <1>9, <1>11, MaxWordTyped DEF Words
<1>14. t = TradeWith(s.poolB, a, after, z)
  BY <1>11 DEF t, trade
<1> QED  BY <1>2, <1>4, <1>5, <1>11, <1>12, <1>13, <1>14 DEF t, OurDirection

\* The types hold initially.
LEMMA TypesInit == Init => ReservesTyped /\ TypeOK
<1> SUFFICES ASSUME Init PROVE ReservesTyped /\ TypeOK
  OBVIOUS
<1>1. ReservesTyped
  BY PricingTyped DEF Init, ReservesTyped, Words
<1>2. signal = {} /\ swaps \in 0 .. MaxSwaps
  BY PricingTyped DEF Init
<1> QED  BY <1>1, <1>2 DEF TypeOK, ReservesTyped

\* Every step keeps the types.
LEMMA TypesStep == ReservesTyped /\ TypeOK /\ [Next]_vars => ReservesTyped' /\ TypeOK'
<1> SUFFICES ASSUME ReservesTyped, TypeOK, [Next]_vars PROVE ReservesTyped' /\ TypeOK'
  OBVIOUS
<1>1. ASSUME ReservesTyped',
             signal' \subseteq SignalType, \A s \in signal' : s.poolA # s.poolB,
             swaps' \in 0 .. MaxSwaps
      PROVE  TypeOK'
  BY <1>1 DEF TypeOK, ReservesTyped, SignalType
<1>2. CASE UNCHANGED vars
  BY <1>2 DEF vars, ReservesTyped, TypeOK
<1>3. ASSUME NEW p \in Pools, NEW amount \in Amounts, NEW z \in BOOLEAN,
             EvaluateFails(p, amount, z)
      PROVE  ReservesTyped' /\ TypeOK'
  <2>1. reserves' = reserves /\ signal' = {} /\ swaps' = swaps + 1 /\ swaps < MaxSwaps
    BY <1>3 DEF EvaluateFails
  <2>2. ReservesTyped'
    BY <2>1 DEF ReservesTyped
  <2>3. swaps' \in 0 .. MaxSwaps
    BY <2>1, PricingTyped DEF TypeOK
  <2> QED  BY <1>1, <2>1, <2>2, <2>3
<1>4. ASSUME NEW p \in Pools, NEW amount \in Amounts, NEW z \in BOOLEAN,
             NEW gasPrice \in GasPrices, EvaluateCommits(p, amount, z, gasPrice)
      PROVE  ReservesTyped' /\ TypeOK'
  <2> DEFINE after   == ReservesOf(Simulate(p, amount, z))
             signals == Signals(p, after, z, gasPrice)
  <2>1. /\ Simulate(p, amount, z) # NoSwap /\ ~ OptimizerFails(p, after, z)
        /\ reserves' = [reserves EXCEPT ![p] = after]
        /\ signal' = {} \/ \E s \in signals : signal' = {s}
        /\ swaps' = swaps + 1 /\ swaps < MaxSwaps
    BY <1>4 DEF EvaluateCommits
  <2>2. after \in [reserve0 : Words, reserve1 : Words]
    BY <2>1, SimulateTyped
  <2> HIDE DEF after
  <2>3. ReservesTyped'
    BY <2>1, <2>2 DEF ReservesTyped
  <2>4. \A s \in signals : s \in SignalType /\ s.poolA # s.poolB
    BY <2>1, <2>2, SignalsAre
  <2> HIDE DEF signals
  <2>5. signal' \subseteq SignalType /\ \A s \in signal' : s.poolA # s.poolB
    BY <2>1, <2>4
  <2>6. swaps' \in 0 .. MaxSwaps
    BY <2>1, PricingTyped DEF TypeOK
  <2> QED  BY <1>1, <2>3, <2>5, <2>6
<1> QED  BY <1>2, <1>3, <1>4 DEF Next

\* Reserves are words and a signal names two pools, an input and a profit, all
\* above zero, for every registry, amounts and width of a word.
THEOREM PricingTypeCorrect == Spec => []TypeOK
BY TypesInit, TypesStep, PTL DEF Spec

\* Every root an evaluation takes is the floor.
THEOREM RootIsFloorHolds == Spec => []RootIsFloor
<1>1. ReservesTyped => RootIsFloor
  <2> SUFFICES ASSUME ReservesTyped,
                      NEW a \in Pools, NEW z \in BOOLEAN, NEW b \in Candidates(a),
                      KExpanded(PoolNow(a), PoolNow(b), z) # Overflow
               PROVE  IsRoot(ISqrt(KExpanded(PoolNow(a), PoolNow(b), z)),
                             KExpanded(PoolNow(a), PoolNow(b), z))
    BY DEF RootIsFloor, IsRoot
  <2>1. b \in Pools
    BY DEF Candidates
  <2>2. TypedPool(PoolNow(a)) /\ TypedPool(PoolNow(b))
    BY <2>1, PoolsTyped DEF PoolNow, ReservesTyped
  <2>3. KExpanded(PoolNow(a), PoolNow(b), z) \in 0 .. MaxWord
    BY <2>2, KExpandedTyped DEF Partial, Words
  <2> QED  BY <2>3, ISqrtIsFloor
<1> QED  BY <1>1, TypesInit, TypesStep, PTL DEF Spec

-----------------------------------------------------------------------------
(* What evaluations do to the product of reserves.                         *)

\* The reserves in memory are naturals.
LEMMA ReservesNatural ==
    ASSUME ReservesTyped
    PROVE  /\ DOMAIN reserves = Pools
           /\ \A p \in Pools : reserves[p].reserve0 \in Nat /\ reserves[p].reserve1 \in Nat
BY WordsPartial DEF ReservesTyped

\* What a committed evaluation stores in a V2 pool: both reserves left, their
\* product no smaller.
LEMMA CommitKeepsProduct ==
    ASSUME ReservesTyped,
           NEW a \in Pools, Protocol[a] = "V2",
           NEW amount \in Amounts, NEW zeroForOne \in BOOLEAN, NEW gasPrice,
           EvaluateCommits(a, amount, zeroForOne, gasPrice)
    PROVE  /\ reserves'[a].reserve0 \in Nat \ {0}
           /\ reserves'[a].reserve1 \in Nat \ {0}
           /\ reserves[a].reserve0 * reserves[a].reserve1
                <= reserves'[a].reserve0 * reserves'[a].reserve1
<1> DEFINE pool   == PoolNow(a)
           result == SimulateV2(pool, amount, zeroForOne)
<1>1. /\ result # NoSwap
      /\ reserves' = [reserves EXCEPT ![a] = ReservesOf(result)]
  BY DEF EvaluateCommits, Simulate
<1>2. /\ pool.reserve0 = reserves[a].reserve0
      /\ pool.reserve1 = reserves[a].reserve1
      /\ pool.feeTier = FeeTier[a]
  BY DEF PoolNow, PoolWith
<1>3. /\ reserves'[a].reserve0 = result.reserve0
      /\ reserves'[a].reserve1 = result.reserve1
  <2> HIDE DEF result
  <2> QED  BY <1>1, ReservesNatural DEF ReservesOf
<1>4. /\ pool.reserve0 \in Nat /\ pool.reserve1 \in Nat
      /\ pool.feeTier \in 0 .. TenK /\ amount \in Nat
  BY <1>2, PricingTyped, ReservesNatural
<1> HIDE DEF pool
<1>5. /\ result.reserve0 \in Nat \ {0}
      /\ result.reserve1 \in Nat \ {0}
      /\ pool.reserve0 * pool.reserve1 <= result.reserve0 * result.reserve1
  BY <1>1, <1>4, SimulateV2KeepsProduct
<1> HIDE DEF result
<1> QED  BY <1>2, <1>3, <1>5

\* A committed evaluation changes the reserves of one pool.
LEMMA CommitIsLocal ==
    ASSUME ReservesTyped,
           NEW a \in Pools, NEW amount, NEW zeroForOne, NEW gasPrice,
           EvaluateCommits(a, amount, zeroForOne, gasPrice)
    PROVE  /\ DOMAIN reserves' = Pools
           /\ \A p \in Pools \ {a} : reserves'[p] = reserves[p]
BY ReservesNatural DEF EvaluateCommits

\* However evaluations follow each other, in src/pool/mod.rs's rounding the
\* product of a V2 pool's reserves never shrinks and neither reserve runs out,
\* for every registry, tier, amount and width of a word.
THEOREM ProductNeverShrinksHolds == Spec => ProductNeverShrinks
<1> DEFINE Keeps ==
      \A p \in Pools : Protocol[p] = "V2" =>
         /\ reserves'[p].reserve0 * reserves'[p].reserve1
              >= reserves[p].reserve0 * reserves[p].reserve1
         /\ 0 \in {reserves'[p].reserve0, reserves'[p].reserve1}
              => UNCHANGED reserves[p]
<1>1. ASSUME ReservesTyped, UNCHANGED reserves
      PROVE  Keeps
  <2> SUFFICES ASSUME NEW p \in Pools, Protocol[p] = "V2"
               PROVE  /\ reserves'[p].reserve0 * reserves'[p].reserve1
                           >= reserves[p].reserve0 * reserves[p].reserve1
                      /\ UNCHANGED reserves[p]
    OBVIOUS
  <2>1. reserves[p].reserve0 * reserves[p].reserve1 \in Nat
    BY <1>1, ReservesNatural
  <2> QED  BY <1>1, <2>1
<1>2. ASSUME ReservesTyped,
             NEW a \in Pools, NEW amount \in Amounts, NEW zeroForOne \in BOOLEAN,
             NEW gasPrice \in GasPrices,
             EvaluateCommits(a, amount, zeroForOne, gasPrice)
      PROVE  Keeps
  <2> SUFFICES ASSUME NEW p \in Pools, Protocol[p] = "V2"
               PROVE  /\ reserves'[p].reserve0 * reserves'[p].reserve1
                           >= reserves[p].reserve0 * reserves[p].reserve1
                      /\ 0 \in {reserves'[p].reserve0, reserves'[p].reserve1}
                           => UNCHANGED reserves[p]
    OBVIOUS
  <2>1. CASE p = a
    <3>1. /\ reserves'[p].reserve0 \in Nat \ {0}
          /\ reserves'[p].reserve1 \in Nat \ {0}
          /\ reserves[p].reserve0 * reserves[p].reserve1
               <= reserves'[p].reserve0 * reserves'[p].reserve1
      BY <1>2, <2>1, CommitKeepsProduct
    <3>2. /\ reserves[p].reserve0 * reserves[p].reserve1 \in Nat
          /\ reserves'[p].reserve0 * reserves'[p].reserve1 \in Nat
      BY <1>2, <3>1, ReservesNatural
    <3> QED  BY <3>1, <3>2
  <2>2. CASE p # a
    <3>1. reserves'[p] = reserves[p]
      BY <1>2, <2>2, CommitIsLocal
    <3>2. reserves[p].reserve0 * reserves[p].reserve1 \in Nat
      BY <1>2, ReservesNatural
    <3> QED  BY <3>1, <3>2
  <2> QED  BY <2>1, <2>2
<1>3. ReservesTyped /\ [Next]_vars => [Keeps]_vars
  <2> SUFFICES ASSUME ReservesTyped, Next PROVE Keeps
    OBVIOUS
  <2>1. ASSUME NEW p \in Pools, NEW amount \in Amounts, NEW zeroForOne \in BOOLEAN,
               EvaluateFails(p, amount, zeroForOne)
        PROVE  Keeps
    BY <1>1, <2>1 DEF EvaluateFails
  <2> QED  BY <1>2, <2>1 DEF Next
<1> QED  BY <1>3, TypesInit, TypesStep, PTL DEF Spec, ProductNeverShrinks

-----------------------------------------------------------------------------
(* What a signal promises, and what its trade yields.                      *)

\* The two fee scales.
Ratio == TenK \div OneK

\* What optimizer.rs leaves of an input is no less than what pool/mod.rs leaves,
\* and the same where the tier is exact.
LEMMA ScalesAre ==
    ASSUME NEW pool, TypedPool(pool)
    PROVE  /\ Ratio \in Nat \ {0} /\ TenK = Ratio * OneK
           /\ OneK \in Nat \ {0} /\ TenK \in Nat \ {0}
           /\ FeeComplement(pool) \in Nat
           /\ TenK - pool.feeTier \in Nat
           /\ TenK - pool.feeTier <= Ratio * FeeComplement(pool)
           /\ pool.feeTier % Ratio = 0 => TenK - pool.feeTier = Ratio * FeeComplement(pool)
<1> DEFINE d == pool.feeTier \div Ratio
<1>1. /\ OneK \in Nat \ {0} /\ TenK \in Nat \ {0} /\ TenK % OneK = 0
      /\ pool.feeTier \in 0 .. TenK
  BY ScalesTyped, OptimizerTyped DEF TypedPool
<1>2. TenK = OneK * Ratio /\ Ratio \in Nat \ {0}
  BY <1>1 DEF Ratio
<1>3. d \in Nat /\ Ratio * d <= pool.feeTier
  BY <1>1, <1>2, QuotientBound
<1>4. pool.feeTier % Ratio = 0 => pool.feeTier = Ratio * d
  BY <1>1, <1>2
<1>5. FeeComplement(pool) = OneK - d
  BY DEF FeeComplement, d, Ratio
<1> HIDE DEF d
<1>6. Ratio * (OneK - d) = TenK - Ratio * d
  BY <1>1, <1>2, <1>3
<1>7. OneK - d \in Nat
  BY <1>5, ComplementTyped, <1>1
<1>8. Ratio * d \in Nat
  BY <1>2, <1>3
<1> QED  BY <1>1, <1>2, <1>3, <1>4, <1>5, <1>6, <1>7, <1>8

\* A leg of the optimizer that does not overflow.
LEMMA LegIs ==
    ASSUME NEW pool, TypedPool(pool), NEW x \in Partial(Nat), NEW z,
           LegOut(pool, x, z) # Overflow
    PROVE  LET paid  == x * FeeComplement(pool)
               whole == In(pool, z) * OneK + paid
           IN  /\ x \in Nat /\ paid \in Nat /\ whole \in Nat \ {0}
               /\ LegOut(pool, x, z) = (paid * Out(pool, z)) \div whole
<1> DEFINE fee     == FeeComplement(pool)
           withFee == Mul(x, fee)
           num     == Mul(withFee, Out(pool, z))
           inOneK  == Mul(In(pool, z), OneK)
           den     == Add(inOneK, withFee)
<1>1. /\ In(pool, z) \in Partial(Nat) /\ Out(pool, z) \in Partial(Nat)
      /\ fee \in Partial(Nat) /\ OneK \in Partial(Nat)
  BY PartsTyped
<1>2. /\ withFee \in Partial(Nat)
      /\ withFee # Overflow => x \in Nat /\ fee \in Nat /\ withFee = x * fee
  BY <1>1, MulTyped, WordsPartial
<1>3. /\ inOneK \in Partial(Nat)
      /\ inOneK # Overflow => inOneK = In(pool, z) * OneK
  BY <1>1, MulTyped, WordsPartial
<1>4. LegOut(pool, x, z) = Div(num, den)
  BY DEF LegOut
<1> HIDE DEF fee, withFee, inOneK
<1>5. /\ num \in Partial(Nat)
      /\ num # Overflow => withFee \in Nat /\ num = withFee * Out(pool, z)
  BY <1>1, <1>2, MulTyped, WordsPartial
<1>6. /\ den \in Partial(Nat)
      /\ den # Overflow => inOneK \in Nat /\ den = inOneK + withFee
  BY <1>2, <1>3, AddTyped, WordsPartial
<1> HIDE DEF num, den
<1>7. num \in Nat /\ den \in Nat \ {0} /\ Div(num, den) = num \div den
  BY <1>4, <1>5, <1>6, DivTyped
<1>8. num # Overflow /\ den # Overflow
  BY <1>7, WordsAreNot
<1>9. inOneK # Overflow /\ withFee # Overflow
  BY <1>5, <1>6, <1>8, WordsAreNot
<1> QED  BY <1>2, <1>3, <1>4, <1>5, <1>6, <1>7, <1>8, <1>9 DEF fee

\* A simulation that does not fail.
LEMMA SimulationIs ==
    ASSUME NEW pool, TypedPool(pool), NEW x \in Partial(Nat), NEW z,
           SimulateV2(pool, x, z) # NoSwap
    PROVE  LET paid  == x * (TenK - pool.feeTier)
               whole == In(pool, z) * TenK + paid
           IN  /\ x \in Nat /\ paid \in Nat /\ whole \in Nat \ {0}
               /\ SimulateV2(pool, x, z).out = (paid * Out(pool, z)) \div whole
               /\ SimulateV2(pool, x, z).out \in 0 .. Out(pool, z)
<1> DEFINE rIn     == In(pool, z)
           rOut    == Out(pool, z)
           rest    == Sub(TenK, pool.feeTier)
           withFee == Mul(x, rest)
           num     == Mul(withFee, rOut)
           inTenK  == Mul(rIn, TenK)
           den     == Add(inTenK, withFee)
           out     == AmountOut(num, den)
           result  == SimulateV2(pool, x, z)
<1>1. out # Overflow /\ ~(out >= rOut) /\ result.out = out
  BY DEF SimulateV2
<1>2. /\ rIn \in Nat /\ rOut \in Nat
      /\ rIn \in Partial(Nat) /\ rOut \in Partial(Nat)
      /\ TenK \in Partial(Nat) /\ pool.feeTier \in Partial(Nat)
  <2>1. TenK \in Nat /\ pool.feeTier \in Nat
    BY ScalesTyped DEF TypedPool
  <2> QED  BY <2>1, SidesTyped, WordsPartial
<1>3. /\ rest \in Partial(Nat)
      /\ rest # Overflow => rest \in Nat /\ rest = TenK - pool.feeTier
  BY <1>2, SubTyped DEF Partial
<1> HIDE DEF rIn, rOut, rest
<1>4. /\ withFee \in Partial(Nat)
      /\ withFee # Overflow => x \in Nat /\ rest \in Nat /\ withFee = x * rest
  BY <1>3, MulTyped, WordsPartial
<1>5. /\ inTenK \in Partial(Nat)
      /\ inTenK # Overflow => inTenK = rIn * TenK
  BY <1>2, MulTyped, WordsPartial
<1> HIDE DEF withFee, inTenK
<1>6. /\ num \in Partial(Nat)
      /\ num # Overflow => withFee \in Nat /\ num = withFee * rOut
  BY <1>2, <1>4, MulTyped, WordsPartial
<1>7. /\ den \in Partial(Nat)
      /\ den # Overflow => inTenK \in Nat /\ den = inTenK + withFee
  BY <1>4, <1>5, AddTyped, WordsPartial
<1> HIDE DEF num, den
<1>8. num \in Nat /\ den \in Nat \ {0} /\ out = num \div den
  BY <1>1, <1>6, <1>7, DivTyped DEF AmountOut
<1>9. num # Overflow /\ den # Overflow
  BY <1>8, WordsAreNot
<1>10. inTenK # Overflow /\ withFee # Overflow
  BY <1>6, <1>7, <1>9, WordsAreNot
<1>11. rest # Overflow
  BY <1>4, <1>10, WordsAreNot
<1> HIDE DEF out, result
<1>12. out \in Nat
  BY <1>8, QuotientBound
<1>13. out \in 0 .. rOut
  BY <1>1, <1>2, <1>12
<1> QED  BY <1>1, <1>3, <1>4, <1>5, <1>6, <1>7, <1>8, <1>9, <1>10, <1>11, <1>13
         DEF rIn, rOut, rest, result

\* A larger input at a smaller fee buys no less.
LEMMA MoreBuysMore ==
    ASSUME NEW I \in Nat, NEW R \in Nat, NEW w \in Nat, NEW v \in Nat,
           NEW r \in Nat \ {0}, NEW k \in Nat \ {0}, NEW q \in 0 .. R,
           w <= r * v, (I * (r * k) + w) * q <= w * R
    PROVE  (I * k + v) * q <= v * R
<1> DEFINE left == R - q
           spent == (I * k) * q
<1>1. q \in Nat /\ left \in Nat /\ spent \in Nat /\ w * left \in Nat /\ v * left \in Nat
  OBVIOUS
<1>2. (I * (r * k) + w) * q = r * spent + w * q
  OBVIOUS
<1>3. w * R = w * left + w * q
  OBVIOUS
<1>4. r * spent <= w * left
  <2> HIDE DEF left, spent
  <2>1. r * spent \in Nat /\ w * q \in Nat
    BY <1>1
  <2> QED  BY <1>1, <1>2, <1>3, <2>1
<1>5. w * left <= (r * v) * left /\ (r * v) * left = r * (v * left)
  <2> HIDE DEF left
  <2>1. r * v \in Nat
    OBVIOUS
  <2> QED  BY <1>1, <2>1, TimesMonotone
<1>6. spent <= v * left
  <2> HIDE DEF left, spent
  <2>1. r * spent <= r * (v * left)
    <3>1. r * spent \in Nat /\ r * (v * left) \in Nat
      BY <1>1
    <3> QED  BY <1>1, <1>4, <1>5, <3>1
  <2> QED  BY <1>1, <2>1, TimesCancels
<1>7. (I * k + v) * q = spent + v * q
  OBVIOUS
<1>8. v * R = v * left + v * q
  OBVIOUS
<1> HIDE DEF left, spent
<1>9. v * q \in Nat
  BY <1>1
<1> QED  BY <1>1, <1>6, <1>7, <1>8, <1>9

\* pool/mod.rs never yields more than optimizer.rs expects, for no larger an
\* input.
LEMMA YieldsNoMore ==
    ASSUME NEW pool, TypedPool(pool), NEW x \in Partial(Nat), NEW y \in Partial(Nat), NEW z,
           LegOut(pool, y, z) # Overflow, x # Overflow => x <= y
    PROVE  /\ SimulateV2(pool, x, z).out \in Partial(Nat)
           /\ SimulateV2(pool, x, z).out <= LegOut(pool, y, z)
<1> DEFINE c     == TenK - pool.feeTier
           paid  == y * FeeComplement(pool)
           whole == In(pool, z) * OneK + paid
           less  == x * c
           leg   == LegOut(pool, y, z)
<1>1. /\ y \in Nat /\ paid \in Nat /\ whole \in Nat \ {0}
      /\ leg = (paid * Out(pool, z)) \div whole
  BY LegIs
<1>2. In(pool, z) \in Nat /\ Out(pool, z) \in Nat
  BY SidesTyped, WordsPartial
<1>3. leg \in Nat
  <2>1. paid * Out(pool, z) \in Nat
    BY <1>1, <1>2
  <2> QED  BY <1>1, <2>1, QuotientBound
<1>4. CASE SimulateV2(pool, x, z) = NoSwap
  <2>1. SimulateV2(pool, x, z).out = Overflow
    BY <1>4 DEF NoSwap
  <2> QED  BY <1>3, <2>1 DEF Partial, Overflow
<1>5. CASE SimulateV2(pool, x, z) # NoSwap
  <2> DEFINE q == SimulateV2(pool, x, z).out
             all == In(pool, z) * TenK + less
  <2>1. /\ x \in Nat /\ less \in Nat /\ all \in Nat \ {0}
        /\ q = (less * Out(pool, z)) \div all /\ q \in 0 .. Out(pool, z)
    BY <1>5, SimulationIs
  <2>2. /\ Ratio \in Nat \ {0} /\ TenK = Ratio * OneK /\ OneK \in Nat \ {0}
        /\ FeeComplement(pool) \in Nat /\ c \in Nat
        /\ c <= Ratio * FeeComplement(pool)
    BY ScalesAre
  <2>3. x <= y
    BY <2>1, WordsAreNot
  <2>4. less <= Ratio * paid
    <3> DEFINE fee == FeeComplement(pool)
    <3> HIDE DEF c, fee
    <3>1. x * c <= y * c /\ y * c = c * y
      BY <1>1, <2>1, <2>2, <2>3, TimesMonotone
    <3>2. Ratio * fee \in Nat
      BY <2>2 DEF fee
    <3>3. c * y <= (Ratio * fee) * y
      BY <1>1, <2>2, <3>2, TimesMonotone DEF fee
    <3>4. (Ratio * fee) * y = Ratio * (y * fee)
      BY <1>1, <2>2 DEF fee
    <3>5. x * c \in Nat /\ c * y \in Nat /\ (Ratio * fee) * y \in Nat
      BY <1>1, <2>1, <2>2, <3>2
    <3>6. x * c <= Ratio * (y * fee)
      BY <3>1, <3>3, <3>4, <3>5
    <3> QED  BY <3>6 DEF fee
  <2> HIDE DEF less, paid, q
  <2>5. all * q <= less * Out(pool, z)
    <3>1. less * Out(pool, z) \in Nat
      BY <1>2, <2>1
    <3> HIDE DEF all
    <3> QED  BY <2>1, <3>1, QuotientBound
  <2>6. (In(pool, z) * OneK + paid) * q <= paid * Out(pool, z)
    <3>1. (In(pool, z) * (Ratio * OneK) + less) * q <= less * Out(pool, z)
      BY <2>2, <2>5
    <3> QED  BY <1>1, <1>2, <2>1, <2>2, <2>4, <3>1, MoreBuysMore
  <2>7. paid * Out(pool, z) \in Nat /\ q \in Nat
    BY <1>1, <1>2, <2>1
  <2>8. q <= leg
    BY <1>1, <2>6, <2>7, QuotientLeast
  <2> QED  BY <2>7, <2>8 DEF q, Partial
<1> QED  BY <1>4, <1>5

\* Where the tier is exact and the products fit, pool/mod.rs yields what
\* optimizer.rs expects.
LEMMA YieldsExactly ==
    ASSUME NEW pool, TypedPool(pool), NEW x \in Nat, NEW z,
           pool.feeTier % Ratio = 0,
           In(pool, z) # 0, Out(pool, z) # 0,
           LegOut(pool, x, z) # Overflow,
           (x * (TenK - pool.feeTier)) * Out(pool, z) <= MaxWord,
           In(pool, z) * TenK + x * (TenK - pool.feeTier) <= MaxWord,
           In(pool, z) + x <= MaxWord
    PROVE  SimulateV2(pool, x, z).out = LegOut(pool, x, z)
<1> DEFINE rIn     == In(pool, z)
           rOut    == Out(pool, z)
           rest    == TenK - pool.feeTier
           paid    == x * rest
           whole   == rIn * TenK + paid
           result  == SimulateV2(pool, x, z)
           share   == x * FeeComplement(pool)
           small   == rIn * OneK + share
           leg     == LegOut(pool, x, z)
<1>1. /\ Ratio \in Nat \ {0} /\ TenK = Ratio * OneK /\ OneK \in Nat \ {0} /\ TenK \in Nat \ {0}
      /\ FeeComplement(pool) \in Nat /\ rest \in Nat
      /\ rest = Ratio * FeeComplement(pool)
  BY ScalesAre
<1>2. rIn \in Nat \ {0} /\ rOut \in Nat \ {0} /\ MaxWord \in Nat
  BY SidesTyped, WordsPartial, MaxWordTyped
<1>3. share \in Nat /\ small \in Nat \ {0} /\ leg = (share * rOut) \div small
  BY LegIs, WordsPartial
<1>4. pool.feeTier \in Nat /\ pool.feeTier <= TenK
  BY <1>1 DEF TypedPool
<1>5. Sub(TenK, pool.feeTier) = rest
  BY <1>1, <1>4 DEF Sub, Checked, Overflow
<1> HIDE DEF rIn, rOut, rest, share, small, leg, MaxWord
<1>6. paid \in Nat /\ rIn * TenK \in Nat /\ paid * rOut \in Nat
  BY <1>1, <1>2
<1>7. paid * rOut <= MaxWord /\ rIn * TenK + paid <= MaxWord /\ rIn + x <= MaxWord
  BY DEF rIn, rOut, rest
<1>8. paid <= MaxWord /\ rIn * TenK <= MaxWord
  BY <1>2, <1>6, <1>7
<1>9. Mul(x, rest) = paid
  BY <1>1, <1>2, <1>6, <1>8, ProductFits
<1>10. Mul(paid, rOut) = paid * rOut
  BY <1>2, <1>6, <1>7, ProductFits
<1>11. Mul(rIn, TenK) = rIn * TenK
  BY <1>1, <1>2, <1>6, <1>8, ProductFits
<1> HIDE DEF paid
<1>12. Add(rIn * TenK, paid) = whole /\ whole \in Nat \ {0}
  <2> DEFINE inTenK == rIn * TenK
  <2>1. inTenK \in Nat \ {0}
    BY <1>1, <1>2
  <2>2. inTenK + paid <= MaxWord
    BY <1>7
  <2> HIDE DEF inTenK
  <2>3. Add(inTenK, paid) = inTenK + paid /\ inTenK + paid \in Nat \ {0}
    BY <1>2, <1>6, <2>1, <2>2 DEF Add, Checked, Overflow
  <2> QED  BY <2>3 DEF inTenK
<1> DEFINE out == (paid * rOut) \div whole
<1>13. AmountOut(paid * rOut, whole) = out /\ out \in Nat /\ whole * out <= paid * rOut
  <2> DEFINE num == paid * rOut
  <2>1. num \in Nat
    BY <1>6
  <2> HIDE DEF num, whole
  <2>2. Div(num, whole) = num \div whole
    BY <1>12, <2>1 DEF Div, Checked, Overflow
  <2>3. num \div whole \in Nat /\ whole * (num \div whole) <= num
    BY <1>12, <2>1, QuotientBound
  <2> QED  BY <2>2, <2>3 DEF AmountOut, num
<1>14. Add(rIn, x) = rIn + x /\ rIn + x # Overflow
  BY <1>2, <1>7 DEF Add, Checked, Overflow
<1>15. ~ (out >= rOut)
  <2> HIDE DEF out
  <2> SUFFICES ASSUME out >= rOut PROVE FALSE
    OBVIOUS
  <2>1. rOut * whole <= out * whole
    BY <1>2, <1>12, <1>13, TimesMonotone
  <2>2. out * whole = whole * out /\ out * whole \in Nat
    BY <1>12, <1>13
  <2>3. rOut * whole = rOut * (rIn * TenK) + paid * rOut
    BY <1>1, <1>2, <1>6
  <2>4. rOut * (rIn * TenK) \in Nat \ {0} /\ rOut * whole \in Nat
    <3>1. rIn * TenK \in Nat \ {0}
      BY <1>1, <1>2
    <3> QED  BY <1>2, <1>12, <3>1
  <2> QED  BY <1>6, <1>13, <2>1, <2>2, <2>3, <2>4
<1>16. result.out = out
  <2>1. out # Overflow
    BY <1>13, WordsAreNot
  <2> DEFINE withFee == Mul(x, Sub(TenK, pool.feeTier))
             made    == AmountOut(Mul(withFee, Out(pool, z)),
                                  Add(Mul(In(pool, z), TenK), withFee))
             newIn   == Add(In(pool, z), x)
  <2>2. made = out /\ newIn = rIn + x
    BY <1>5, <1>9, <1>10, <1>11, <1>12, <1>13, <1>14 DEF rIn, rOut
  <2>3. result = IF \/ In(pool, z) = 0 \/ Out(pool, z) = 0 \/ made = Overflow
                    \/ made >= Out(pool, z) \/ newIn = Overflow
                 THEN NoSwap
                 ELSE [out |-> made,
                       reserve0 |-> IF z THEN newIn ELSE Out(pool, z) - made,
                       reserve1 |-> IF z THEN Out(pool, z) - made ELSE newIn]
    BY DEF SimulateV2
  <2> HIDE DEF made, newIn, result, out, withFee
  <2>4. /\ made # Overflow /\ ~ (made >= Out(pool, z)) /\ newIn # Overflow
        /\ In(pool, z) # 0 /\ Out(pool, z) # 0
    BY <1>2, <1>14, <1>15, <2>1, <2>2 DEF rIn, rOut
  <2> QED  BY <2>2, <2>3, <2>4
<1>17. out = leg
  <2>1. paid = Ratio * share
    BY <1>1 DEF paid, share
  <2>2. paid * rOut = Ratio * (share * rOut) /\ share * rOut \in Nat
    BY <1>1, <1>2, <1>3, <2>1
  <2>3. whole = Ratio * small
    BY <1>1, <1>2, <1>3, <2>1 DEF small
  <2> HIDE DEF whole
  <2>4. (Ratio * (share * rOut)) \div (Ratio * small) = (share * rOut) \div small
    BY <1>1, <1>3, <2>2, QuotientScaled
  <2> QED  BY <1>3, <2>2, <2>3, <2>4
<1> QED  BY <1>16, <1>17 DEF result, leg

\* What the closed form's input makes of the pools: neither leg's denominator
\* exceeds the root, which is at most the root of a word.
LEMMA OptimalBounds ==
    ASSUME NEW fa \in Nat \ {0}, NEW fb \in Nat \ {0}, NEW k \in Nat \ {0},
           NEW inA \in Nat \ {0}, NEW outA \in Nat, NEW inB \in Nat \ {0},
           NEW root \in Nat, NEW x \in Nat, NEW y \in Nat,
           (inA * inB) * k <= root,
           (fa * (inB * k + fb * outA)) * x <= k * (root - (inA * inB) * k),
           (inA * k + x * fa) * y <= (x * fa) * outA
    PROVE  /\ inA * k + x * fa <= root
           /\ (x * fa) * outA <= k * root
           /\ inB * k + y * fb <= root
           /\ y <= outA
<1> DEFINE sub  == (inA * inB) * k
           rest == root - sub
           w    == x * fa
           ia   == inA * k
           wOut == w * outA
<1>1. /\ sub \in Nat /\ rest \in Nat /\ w \in Nat /\ ia \in Nat \ {0} /\ wOut \in Nat
      /\ root = rest + sub
  OBVIOUS
<1>2. k * (w * inB) + fb * wOut <= k * rest
  <2>1. (fa * (inB * k + fb * outA)) * x = k * (w * inB) + fb * wOut
    OBVIOUS
  <2> QED  BY <2>1
<1>3. (ia + w) * y <= wOut
  OBVIOUS
<1>4. ia * inB = sub
  OBVIOUS
<1> HIDE DEF sub, rest, w, ia, wOut
<1>5. /\ w * inB \in Nat /\ k * (w * inB) \in Nat /\ fb * wOut \in Nat /\ k * rest \in Nat
  BY <1>1
<1>6. w * inB <= rest
  <2>1. k * (w * inB) <= k * rest
    BY <1>2, <1>5
  <2> QED  BY <1>1, <1>5, <2>1, TimesCancels
<1>7. ia + w <= root
  <2>1. (ia + w) * inB = sub + w * inB
    BY <1>1, <1>4
  <2>2. 1 * (ia + w) <= inB * (ia + w) /\ inB * (ia + w) = (ia + w) * inB
    BY <1>1, TimesMonotone
  <2>3. (ia + w) * inB \in Nat
    BY <1>1
  <2> QED  BY <1>1, <1>5, <1>6, <2>1, <2>2, <2>3
<1>8. wOut <= k * root
  <2>1. 1 * wOut <= fb * wOut
    BY <1>1, TimesMonotone
  <2>2. rest * k <= root * k /\ rest * k = k * rest /\ root * k = k * root
    BY <1>1, TimesMonotone
  <2>3. k * root \in Nat
    BY <1>1
  <2> QED  BY <1>1, <1>2, <1>5, <2>1, <2>2, <2>3
<1>9. y * fb + inB * k <= root
  <2> DEFINE v == y * fb
  <2>1. v \in Nat
    OBVIOUS
  <2>2. fb * ((ia + w) * y) <= fb * wOut
    <3>1. (ia + w) * y \in Nat
      BY <1>1
    <3>2. ((ia + w) * y) * fb <= wOut * fb
      BY <1>1, <1>3, <3>1, TimesMonotone
    <3> QED  BY <1>1, <3>1, <3>2
  <2>3. fb * ((ia + w) * y) = ia * v + w * v
    BY <1>1
  <2>4. k * (inA * v) <= k * rest
    <3>1. ia * v = k * (inA * v)
      BY <2>1 DEF ia
    <3>2. ia * v \in Nat /\ w * v \in Nat
      BY <1>1, <2>1
    <3> HIDE DEF v
    <3> QED  BY <1>2, <1>5, <2>2, <2>3, <3>1, <3>2
  <2> HIDE DEF v
  <2>5. inA * v \in Nat
    BY <2>1
  <2>6. inA * v <= rest
    BY <1>1, <2>4, <2>5, TimesCancels
  <2> DEFINE ib == inB * k
  <2>7. ib \in Nat /\ inA * ib = sub
    BY DEF sub
  <2> HIDE DEF ib
  <2>8. inA * (v + ib) = inA * v + sub
    BY <2>1, <2>7
  <2>9. 1 * (v + ib) <= inA * (v + ib) /\ inA * (v + ib) \in Nat
    BY <2>1, <2>7, TimesMonotone
  <2>10. v + ib <= root
    BY <1>1, <2>1, <2>5, <2>6, <2>7, <2>8, <2>9
  <2> QED  BY <2>10 DEF v, ib
<1>10. y <= outA
  <2>1. (ia + w) * y <= (ia + w) * outA
    <3>1. (ia + w) * outA = ia * outA + wOut /\ ia * outA \in Nat
      BY <1>1 DEF wOut
    <3>2. (ia + w) * y \in Nat
      BY <1>1
    <3> QED  BY <1>1, <1>3, <3>1, <3>2
  <2>2. ia + w \in Nat \ {0}
    BY <1>1
  <2> QED  BY <2>1, <2>2, TimesCancels
<1>11. inB * k + y * fb = y * fb + inB * k
  OBVIOUS
<1> QED  BY <1>7, <1>8, <1>9, <1>10, <1>11 DEF w, ia, wOut

\* What the closed form knows when it answers a trade: the root of a word, and
\* an input that does not exceed the exact one.
Rooted(a, b, z, x) ==
    \E root \in Nat :
       /\ root * root <= MaxWord
       /\ (In(a, z) * In(b, ~z)) * OneK <= root
       /\ (FeeComplement(a) * (In(b, ~z) * OneK + FeeComplement(b) * Out(a, z))) * x
            <= OneK * (root - (In(a, z) * In(b, ~z)) * OneK)

\* The radicand is the product of both fees and all reserves.
LEMMA RadicandIs ==
    ASSUME NEW a, NEW b, TypedPool(a), TypedPool(b), NEW z,
           KExpanded(a, b, z) # Overflow
    PROVE  KExpanded(a, b, z) = (FeeComplement(a) * (In(a, z) * In(b, ~z)))
                                  * (FeeComplement(b) * (Out(a, z) * Out(b, ~z)))
<1> DEFINE k1 == Mul(FeeComplement(a), FeeComplement(b))
           k2 == Mul(k1, Out(a, z))
           k3 == Mul(k2, Out(b, ~z))
           k4 == Mul(k3, In(a, z))
           k5 == Mul(k4, In(b, ~z))
<1>1. /\ In(a, z) \in Nat /\ Out(a, z) \in Nat /\ In(b, ~z) \in Nat /\ Out(b, ~z) \in Nat
      /\ FeeComplement(a) \in Nat /\ FeeComplement(b) \in Nat
  BY SidesTyped, WordsPartial, ScalesAre
<1>2. k5 # Overflow /\ KExpanded(a, b, z) = k5
  BY DEF KExpanded
<1>3. \A c, d \in Partial(Nat) :
         /\ Mul(c, d) \in Partial(Nat)
         /\ Mul(c, d) # Overflow => c \in Nat /\ Mul(c, d) = c * d
  BY MulTyped, WordsPartial
<1>4. /\ k1 \in Partial(Nat)
      /\ k1 # Overflow => k1 = FeeComplement(a) * FeeComplement(b)
  BY <1>1, <1>3, WordsPartial
<1> HIDE DEF k1
<1>5. /\ k2 \in Partial(Nat)
      /\ k2 # Overflow => k1 \in Nat /\ k2 = k1 * Out(a, z)
  BY <1>1, <1>3, <1>4, WordsPartial
<1> HIDE DEF k2
<1>6. /\ k3 \in Partial(Nat)
      /\ k3 # Overflow => k2 \in Nat /\ k3 = k2 * Out(b, ~z)
  BY <1>1, <1>3, <1>5, WordsPartial
<1> HIDE DEF k3
<1>7. /\ k4 \in Partial(Nat)
      /\ k4 # Overflow => k3 \in Nat /\ k4 = k3 * In(a, z)
  BY <1>1, <1>3, <1>6, WordsPartial
<1> HIDE DEF k4
<1>8. k4 \in Nat /\ k5 = k4 * In(b, ~z)
  BY <1>1, <1>2, <1>3, <1>7, WordsPartial
<1> HIDE DEF k5
<1>9. k4 = k3 * In(a, z) /\ k3 = k2 * Out(b, ~z)
  BY <1>6, <1>7, <1>8, WordsAreNot
<1>10. k2 = k1 * Out(a, z) /\ k1 = FeeComplement(a) * FeeComplement(b)
  BY <1>4, <1>5, <1>6, <1>7, <1>8, WordsAreNot
<1> DEFINE fa == FeeComplement(a)
           fb == FeeComplement(b)
           inA == In(a, z)
           outA == Out(a, z)
           inB == In(b, ~z)
           outB == Out(b, ~z)
<1>11. k5 = ((((fa * fb) * outA) * outB) * inA) * inB
  BY <1>8, <1>9, <1>10
<1>12. fa \in Nat /\ fb \in Nat /\ inA \in Nat /\ outA \in Nat /\ inB \in Nat /\ outB \in Nat
  BY <1>1
<1> HIDE DEF fa, fb, inA, outA, inB, outB
<1>13. ((((fa * fb) * outA) * outB) * inA) * inB
          = (fa * (inA * inB)) * (fb * (outA * outB))
  BY <1>12
<1> QED  BY <1>2, <1>11, <1>13 DEF fa, fb, inA, outA, inB, outB

\* A trade of the closed form is for pools that hold something and take less
\* than everything, and comes from such a root.
LEMMA OptimalRoot ==
    ASSUME NEW a, NEW b, TypedPool(a), TypedPool(b), NEW z \in BOOLEAN,
           OptimalV2V2(a, b, z) \notin {Failed, NoTrade}
    PROVE  /\ 0 \notin {In(a, z), Out(a, z), In(b, ~z), Out(b, ~z)}
           /\ 0 \notin {FeeComplement(a), FeeComplement(b)}
           /\ Rooted(a, b, z, OptimalV2V2(a, b, z).in)
           /\ (FeeComplement(a) * (In(a, z) * In(b, ~z)))
                * (FeeComplement(b) * (Out(a, z) * Out(b, ~z))) <= MaxWord
<1> DEFINE k    == KExpanded(a, b, z)
           root == ISqrt(k)
           inAB == Mul(In(a, z), In(b, ~z))
           sub  == Mul(inAB, OneK)
           x    == OptimalInput(a, b, z, root, sub)
           out  == TwoLegs(a, b, x, z)
<1>1. /\ 0 \notin {a.reserve0, a.reserve1, b.reserve0, b.reserve1}
      /\ Overflow \notin {k, sub} /\ ~ (root <= sub)
      /\ Overflow \notin {x, out}
      /\ OptimalV2V2(a, b, z) = [in |-> x, out |-> out]
  BY DEF OptimalV2V2
<1>2. 0 \notin {In(a, z), Out(a, z), In(b, ~z), Out(b, ~z)}
  BY <1>1 DEF In, Out
<1>3. /\ In(a, z) \in Nat /\ Out(a, z) \in Nat /\ In(b, ~z) \in Nat
      /\ FeeComplement(a) \in Nat /\ FeeComplement(b) \in Nat /\ OneK \in Nat
      /\ In(a, z) \in Partial(Nat) /\ Out(a, z) \in Partial(Nat) /\ In(b, ~z) \in Partial(Nat)
      /\ FeeComplement(a) \in Partial(Nat) /\ FeeComplement(b) \in Partial(Nat)
      /\ OneK \in Partial(Nat)
  BY SidesTyped, WordsPartial, ScalesAre
<1>4. k \in 0 .. MaxWord
  BY <1>1, KExpandedTyped DEF Partial, Words
<1>5. root \in Nat /\ root * root <= k
  <2> HIDE DEF k
  <2> QED  BY <1>4, ISqrtIsFloor DEF IsRoot
<1>6. root * root <= MaxWord
  <2> HIDE DEF root, k
  <2>1. root * root \in Nat /\ MaxWord \in Nat
    BY <1>5, MaxWordTyped
  <2> QED  BY <1>4, <1>5, <2>1
<1>7. sub \in Nat /\ sub = (In(a, z) * In(b, ~z)) * OneK
  <2>1. inAB \in Partial(Nat) /\ (inAB # Overflow => inAB = In(a, z) * In(b, ~z))
    BY <1>3, MulTyped, WordsPartial
  <2> HIDE DEF inAB
  <2>2. inAB \in Nat /\ sub = inAB * OneK
    BY <1>1, <1>3, <2>1, MulTyped
  <2> QED  BY <1>3, <2>1, <2>2, WordsAreNot
<1>8. FeeComplement(a) # 0 /\ FeeComplement(b) # 0
  <2> SUFFICES ASSUME FeeComplement(a) = 0 \/ FeeComplement(b) = 0 PROVE FALSE
    OBVIOUS
  <2>1. k = 0
    <3> DEFINE insA  == In(a, z) * In(b, ~z)
               outsB == Out(a, z) * Out(b, ~z)
    <3>1. k = (FeeComplement(a) * insA) * (FeeComplement(b) * outsB)
      BY <1>1, RadicandIs
    <3>2. insA \in Nat /\ outsB \in Nat
      <4>1. Out(b, ~z) \in Nat
        BY SidesTyped, WordsPartial
      <4> QED  BY <1>3, <4>1
    <3> HIDE DEF insA, outsB, k
    <3> QED  BY <1>3, <3>1, <3>2
  <2> HIDE DEF k, root, sub
  <2>2. root = 0
    BY <1>5, <2>1
  <2> QED  BY <1>1, <1>7, <2>2
<1> DEFINE rest == root - sub
           feeOut == Mul(FeeComplement(b), Out(a, z))
           inOneK == Mul(In(b, ~z), OneK)
           sum    == Add(inOneK, feeOut)
           den    == Mul(FeeComplement(a), sum)
           num    == Mul(OneK, rest)
<1>9. rest \in Nat /\ rest \in Partial(Nat)
  <2> HIDE DEF root, sub
  <2> QED  BY <1>1, <1>5, <1>7, WordsPartial
<1>10. x = Div(num, den)
  BY DEF OptimalInput
<1> HIDE DEF rest
<1>11. /\ feeOut \in Partial(Nat)
       /\ feeOut # Overflow => feeOut = FeeComplement(b) * Out(a, z)
  BY <1>3, MulTyped, WordsPartial
<1>12. /\ inOneK \in Partial(Nat)
       /\ inOneK # Overflow => inOneK = In(b, ~z) * OneK
  BY <1>3, MulTyped, WordsPartial
<1>13. num \in Partial(Nat) /\ (num # Overflow => num = OneK * rest)
  BY <1>3, <1>9, MulTyped, WordsPartial
<1> HIDE DEF feeOut, inOneK, num
<1>14. /\ sum \in Partial(Nat)
       /\ sum # Overflow => inOneK \in Nat /\ feeOut \in Nat /\ sum = inOneK + feeOut
  BY <1>11, <1>12, AddTyped, WordsPartial
<1> HIDE DEF sum
<1>15. /\ den \in Partial(Nat)
       /\ den # Overflow => sum \in Nat /\ den = FeeComplement(a) * sum
  BY <1>3, <1>14, MulTyped, WordsPartial
<1> HIDE DEF den, x
<1>16. num \in Nat /\ den \in Nat \ {0} /\ x = num \div den
  BY <1>1, <1>10, <1>13, <1>15, DivTyped
<1>17. den * x <= num
  BY <1>16, QuotientBound
<1>18. num = OneK * rest
  BY <1>13, <1>16, WordsAreNot
<1>19. den = FeeComplement(a) * (In(b, ~z) * OneK + FeeComplement(b) * Out(a, z))
  <2>1. sum \in Nat /\ den = FeeComplement(a) * sum
    BY <1>15, <1>16, WordsAreNot
  <2>2. inOneK \in Nat /\ feeOut \in Nat /\ sum = inOneK + feeOut
    BY <1>14, <2>1, WordsAreNot
  <2> QED  BY <1>11, <1>12, <2>1, <2>2, WordsAreNot
<1>20. OptimalV2V2(a, b, z).in = x
  BY <1>1
<1>21. sub <= root
  <2> HIDE DEF root, sub
  <2> QED  BY <1>1, <1>5, <1>7
<1>22. den * x <= OneK * (root - sub)
  BY <1>17, <1>18 DEF rest
<1>23. k <= MaxWord /\ k = (FeeComplement(a) * (In(a, z) * In(b, ~z)))
                              * (FeeComplement(b) * (Out(a, z) * Out(b, ~z)))
  BY <1>1, <1>4, RadicandIs
<1> HIDE DEF k, root, sub, out
<1>24. Rooted(a, b, z, x)
  BY <1>5, <1>6, <1>7, <1>19, <1>21, <1>22 DEF Rooted
<1> QED  BY <1>2, <1>8, <1>20, <1>23, <1>24

\* What a trade of the optimizer yields by the arithmetic of pool/mod.rs.
LEMMA TradeYields ==
    ASSUME NEW a, NEW b, TypedPool(a), TypedPool(b), NEW z \in BOOLEAN,
           OptimalV2V2(a, b, z) \notin {Failed, NoTrade}
    PROVE  LET trade  == OptimalV2V2(a, b, z)
               bought == SimulateV2(a, trade.in, z).out
               yield  == SimulateV2(b, bought, ~z).out
           IN  /\ yield <= trade.out
               /\ (/\ a.feeTier % Ratio = 0 /\ b.feeTier % Ratio = 0
                   /\ FeeComplement(a) * (In(a, z) * In(b, ~z)) >= Ratio)
                      => yield = trade.out
<1> DEFINE x      == OptimalV2V2(a, b, z).in
           y      == LegOut(a, x, z)
           leg    == LegOut(b, y, ~z)
           bought == SimulateV2(a, x, z).out
           yield  == SimulateV2(b, bought, ~z).out
<1>1. x \in Words \ {0} /\ OptimalV2V2(a, b, z).out = leg /\ leg \in Words
  BY OptimalTyped DEF TwoLegs
<1>2. x \in Nat /\ x \in Partial(Nat) /\ leg # Overflow
  BY <1>1, WordsPartial, WordsAreNot
<1>3. y \in Partial(Nat)
  <2> HIDE DEF x
  <2> QED  BY <1>2, LegOutTyped, WordsPartial
<1> HIDE DEF x
<1>4. y \in Nat /\ y # Overflow
  <2> HIDE DEF y
  <2>1. y \in Nat
    BY <1>2, <1>3, LegIs
  <2> QED  BY <2>1, WordsAreNot
<1>5. yield <= leg
  <2>1. bought \in Partial(Nat) /\ bought <= y
    BY <1>2, <1>4, YieldsNoMore
  <2> HIDE DEF y, bought
  <2> QED  BY <1>2, <1>3, <2>1, YieldsNoMore
<1>6. ASSUME a.feeTier % Ratio = 0, b.feeTier % Ratio = 0,
             FeeComplement(a) * (In(a, z) * In(b, ~z)) >= Ratio
      PROVE  yield = leg
  <2> DEFINE fa == FeeComplement(a)
             fb == FeeComplement(b)
             inA == In(a, z)
             outA == Out(a, z)
             inB == In(b, ~z)
             outB == Out(b, ~z)
  <2>1. /\ fa \in Nat \ {0} /\ fb \in Nat \ {0}
        /\ inA \in Nat \ {0} /\ outA \in Nat \ {0}
        /\ inB \in Nat \ {0} /\ outB \in Nat \ {0}
    BY OptimalRoot, SidesTyped, WordsPartial, ScalesAre
  <2>2. /\ Ratio \in Nat \ {0} /\ TenK = Ratio * OneK
        /\ OneK \in Nat \ {0} /\ TenK \in Nat \ {0}
        /\ TenK - a.feeTier = Ratio * fa /\ TenK - b.feeTier = Ratio * fb
    BY <1>6, ScalesAre
  <2>3. Rooted(a, b, z, x)
    BY OptimalRoot DEF x
  <2>4. PICK root \in Nat :
           /\ root * root <= MaxWord
           /\ (inA * inB) * OneK <= root
           /\ (fa * (inB * OneK + fb * outA)) * x <= OneK * (root - (inA * inB) * OneK)
    BY <2>3 DEF Rooted
  <2>5. (inA * OneK + x * fa) * y <= (x * fa) * outA
    <3> DEFINE whole == inA * OneK + x * fa
               num   == (x * fa) * outA
    <3>1. whole \in Nat \ {0} /\ y = num \div whole
      BY <1>2, <1>4, LegIs
    <3>2. num \in Nat
      BY <1>2, <2>1
    <3> HIDE DEF whole, num, y
    <3>3. whole * y <= num
      BY <3>1, <3>2, QuotientBound
    <3> QED  BY <3>3 DEF whole, num
  <2> HIDE DEF fa, fb, inA, inB, outA, outB, y, leg, bought, yield, MaxWord
  <2>6. /\ inA * OneK + x * fa <= root
        /\ (x * fa) * outA <= OneK * root
        /\ inB * OneK + y * fb <= root
        /\ y <= outA
    BY <1>2, <1>4, <2>1, <2>2, <2>4, <2>5, OptimalBounds
  \* The root leaves room for either fee denominator.
  <2>7. TenK * root <= MaxWord
    <3>1. TenK * TenK \in Nat /\ root * root \in Nat /\ MaxWord \in Nat
      BY <2>2, MaxWordTyped
    <3>2. CASE root <= TenK
      <4>1. root * TenK <= TenK * TenK /\ root * TenK = TenK * root /\ TenK * root \in Nat
        BY <2>2, <3>2, TimesMonotone
      <4> QED  BY <3>1, <4>1, WordsWide
    <3>3. CASE TenK <= root
      <4>1. TenK * root <= root * root /\ TenK * root \in Nat
        BY <2>2, <3>3, TimesMonotone
      <4> QED  BY <2>4, <3>1, <4>1
    <3> QED  BY <2>2, <3>2, <3>3
  <2>8. MaxWord \in Nat /\ root <= TenK * root /\ Ratio * root <= TenK * root
        /\ TenK * root \in Nat /\ Ratio * root \in Nat
    <3>1. 1 * root <= TenK * root
      BY <2>2, TimesMonotone
    <3>2. 1 * Ratio <= OneK * Ratio /\ OneK * Ratio = TenK
      BY <2>2, TimesMonotone
    <3>3. Ratio * root <= TenK * root
      BY <2>2, <3>2, TimesMonotone
    <3> QED  BY <2>2, <3>1, <3>3, MaxWordTyped
  \* The products of a leg whose scaled denominator the root bounds.
  <2>9. ASSUME NEW i \in Nat, NEW w \in Nat, NEW f \in Nat \ {0}, i * OneK + w * f <= root
        PROVE  i * TenK + w * (Ratio * f) <= MaxWord /\ i + w <= MaxWord
    <3> DEFINE s == i * OneK + w * f
    <3>1. s \in Nat /\ s <= root
      BY <2>2, <2>9
    <3>2. i * TenK + w * (Ratio * f) = s * Ratio
      BY <2>2
    <3>3. 1 * i <= OneK * i /\ 1 * w <= f * w
      BY <2>2, TimesMonotone
    <3>4. i + w <= s
      <4>1. OneK * i = i * OneK /\ f * w = w * f /\ i * OneK \in Nat /\ w * f \in Nat
        BY <2>2
      <4> QED  BY <3>3, <4>1
    <3> HIDE DEF s
    <3>5. s * Ratio <= root * Ratio /\ root * Ratio = Ratio * root /\ s * Ratio \in Nat
      BY <2>2, <3>1, TimesMonotone
    <3> QED  BY <2>7, <2>8, <3>1, <3>2, <3>4, <3>5
  <2>10. bought = y
    <3>1. inA * TenK + x * (Ratio * fa) <= MaxWord /\ inA + x <= MaxWord
      BY <1>2, <2>1, <2>6, <2>9
    <3>2. (x * (Ratio * fa)) * outA <= MaxWord
      <4> DEFINE t == (x * fa) * outA
      <4>1. t \in Nat /\ t <= OneK * root
        BY <1>2, <2>1, <2>6
      <4>2. (x * (Ratio * fa)) * outA = t * Ratio
        BY <1>2, <2>1, <2>2
      <4> HIDE DEF t
      <4>3. OneK * root \in Nat
        BY <2>2
      <4>4. t * Ratio <= (OneK * root) * Ratio /\ t * Ratio \in Nat
        BY <2>2, <4>1, <4>3, TimesMonotone
      <4>5. (OneK * root) * Ratio = TenK * root
        BY <2>2
      <4> QED  BY <2>7, <2>8, <4>2, <4>4, <4>5
    <3> QED  BY <1>2, <1>4, <1>6, <2>1, <2>2, <3>1, <3>2, YieldsExactly
             DEF inA, outA, y, bought
  <2>11. yield = leg
    <3>1. inB * TenK + y * (Ratio * fb) <= MaxWord /\ inB + y <= MaxWord
      BY <1>4, <2>1, <2>6, <2>9
    <3>2. (y * (Ratio * fb)) * outB <= MaxWord
      <4> DEFINE ins  == fa * (inA * inB)
                 outs == fb * (outA * outB)
                 fo   == fb * outB
                 made == (y * (Ratio * fb)) * outB
      <4>1. ins \in Nat /\ outs \in Nat /\ fo \in Nat /\ made \in Nat
        BY <1>4, <2>1, <2>2
      <4>2. made = Ratio * (y * fo) /\ outs = outA * fo
        BY <1>4, <2>1, <2>2
      <4>3. ins >= Ratio /\ ins * outs <= MaxWord
        BY <1>6, OptimalRoot DEF fa, fb, inA, outA, inB, outB
      <4> HIDE DEF ins, outs, fo, made
      <4>4. y * fo <= outA * fo /\ y * fo \in Nat
        BY <1>4, <2>1, <2>6, <4>1, TimesMonotone
      <4>5. made <= outs * Ratio /\ outs * Ratio = Ratio * outs /\ Ratio * outs \in Nat
        <5>1. (y * fo) * Ratio <= outs * Ratio
          BY <2>2, <4>1, <4>2, <4>4, TimesMonotone
        <5>2. (y * fo) * Ratio = made
          BY <2>2, <4>2, <4>4
        <5> QED  BY <2>2, <4>1, <5>1, <5>2
      <4>6. Ratio * outs <= ins * outs /\ ins * outs \in Nat
        BY <2>2, <4>1, <4>3, TimesMonotone
      <4>7. made <= MaxWord
        BY <2>8, <4>1, <4>3, <4>5, <4>6
      <4> QED  BY <4>7 DEF made
    <3>3. SimulateV2(b, y, ~z).out = LegOut(b, y, ~z)
      BY <1>2, <1>4, <1>6, <2>1, <2>2, <3>1, <3>2, YieldsExactly
         DEF inB, outB, leg
    <3> QED  BY <2>10, <3>3 DEF yield, leg
  <2> QED  BY <2>11
<1>7. /\ yield <= leg
      /\ (/\ a.feeTier % Ratio = 0 /\ b.feeTier % Ratio = 0
          /\ FeeComplement(a) * (In(a, z) * In(b, ~z)) >= Ratio)
             => yield = leg
  <2> HIDE DEF yield, leg
  <2> QED  BY <1>5, <1>6
<1>8. OptimalV2V2(a, b, z).out = leg
  BY <1>1
<1> HIDE DEF leg, y
<1> QED  BY <1>7, <1>8 DEF x

\* The other direction.
LEMMA NegationTyped ==
    ASSUME NEW z \in BOOLEAN
    PROVE  (~z) \in BOOLEAN
OBVIOUS

\* A signal never promises less than its trade yields on the pools as they are
\* when it is given, and where both fee scales are exact and not all is dust,
\* it promises exactly that, so that the executor's slippage guard passes.
THEOREM SignalHoldsHolds == Spec => []SignalHolds
<1>1. Init => SignalHolds
  BY DEF Init, SignalHolds
<1>2. ReservesTyped /\ SignalHolds /\ [Next]_vars => SignalHolds'
  <2> SUFFICES ASSUME ReservesTyped, SignalHolds, [Next]_vars PROVE SignalHolds'
    OBVIOUS
  <2>1. CASE UNCHANGED vars
    BY <2>1 DEF vars, SignalHolds, Yield, NotDust, PoolNow
  <2>2. ASSUME NEW p \in Pools, NEW amount \in Amounts, NEW z \in BOOLEAN,
               EvaluateFails(p, amount, z)
        PROVE  SignalHolds'
    BY <2>2 DEF EvaluateFails, SignalHolds
  <2>3. ASSUME NEW p \in Pools, NEW amount \in Amounts, NEW z \in BOOLEAN,
               NEW gasPrice \in GasPrices, EvaluateCommits(p, amount, z, gasPrice)
        PROVE  SignalHolds'
    <3> DEFINE after == ReservesOf(Simulate(p, amount, z))
    <3>1. /\ Simulate(p, amount, z) # NoSwap /\ ~ OptimizerFails(p, after, z)
          /\ reserves' = [reserves EXCEPT ![p] = after]
          /\ signal' = {} \/ \E s \in Signals(p, after, z, gasPrice) : signal' = {s}
      BY <2>3 DEF EvaluateCommits
    <3>2. after \in [reserve0 : Words, reserve1 : Words]
      BY <3>1, SimulateTyped
    <3> HIDE DEF after
    <3> SUFFICES ASSUME NEW s \in signal'
                 PROVE  LET expected == s.amountIn + s.grossProfit
                        IN  /\ Yield(s)' <= expected
                            /\ ExactTier(s.poolA) /\ ExactTier(s.poolB) /\ NotDust(s)'
                                 => /\ Yield(s)' = expected
                                    /\ Yield(s)' > s.amountIn + MinProfit(s)
      BY DEF SignalHolds, ExactTier, MinProfit
    <3>3. s \in Signals(p, after, z, gasPrice)
      BY <3>1
    <3> DEFINE a == PoolWith(p, after)
               b == PoolNow(s.poolB)
               trade == OptimalV2V2(a, b, ~z)
    <3>4. /\ s \in SignalType
          /\ s.poolA = p /\ s.poolB \in Candidates(p) /\ s.poolA # s.poolB
          /\ s.zeroForOne = ~z
          /\ TypedPool(a) /\ TypedPool(b)
          /\ trade \notin {Failed, NoTrade}
          /\ s.amountIn = trade.in
          /\ trade.in + s.grossProfit = trade.out
      <4>1. TradeWith(s.poolB, p, after, z) = trade
        BY DEF TradeWith, OurDirection
      <4> HIDE DEF trade, a, b
      <4> QED  BY <3>1, <3>2, <3>3, <4>1, SignalsAre DEF a, b
    <3>5. PoolNow(s.poolA)' = a /\ PoolNow(s.poolB)' = b
      <4>1. s.poolB \in Pools /\ s.poolB # p /\ s.poolA = p
        BY <3>4 DEF Candidates
      <4>2. reserves'[p] = after /\ reserves'[s.poolB] = reserves[s.poolB]
        BY <3>1, <4>1 DEF ReservesTyped
      <4> QED  BY <4>1, <4>2 DEF PoolNow, PoolWith
    <3> DEFINE bought == SimulateV2(a, trade.in, ~z).out
               yield  == SimulateV2(b, bought, ~~z).out
    <3>6. Yield(s)' = yield
      BY <3>4, <3>5 DEF Yield
    <3>7. NotDust(s)' <=> FeeComplement(a) * (In(a, ~z) * In(b, ~~z)) >= Ratio
      BY <3>4, <3>5 DEF NotDust, Ratio
    <3>8. /\ ExactTier(s.poolA) <=> a.feeTier % Ratio = 0
          /\ ExactTier(s.poolB) <=> b.feeTier % Ratio = 0
      BY <3>4 DEF ExactTier, Ratio, PoolNow, PoolWith
    <3>9. /\ yield <= trade.out
          /\ (/\ a.feeTier % Ratio = 0 /\ b.feeTier % Ratio = 0
              /\ FeeComplement(a) * (In(a, ~z) * In(b, ~~z)) >= Ratio)
                 => yield = trade.out
      <4> HIDE DEF a, b
      <4>1. (~z) \in BOOLEAN
        BY NegationTyped
      <4> QED  BY <3>4, <4>1, TradeYields
    <3> HIDE DEF yield, trade, a, b
    <3>10. /\ s.amountIn + s.grossProfit = trade.out
           /\ s.amountIn \in Nat /\ s.grossProfit \in Nat \ {0}
      BY <3>4, MaxWordTyped DEF SignalType
    <3>11. MinProfit(s) < s.grossProfit /\ MinProfit(s) \in Int
      BY <3>10 DEF MinProfit
    <3> QED  BY <3>6, <3>7, <3>8, <3>9, <3>10, <3>11
  <2> QED  BY <2>1, <2>2, <2>3 DEF Next
<1> QED  BY <1>1, <1>2, TypesInit, TypesStep, PTL DEF Spec

-----------------------------------------------------------------------------
(* The closed form misses little.                                          *)

\* A square is no negative number.
LEMMA SquareIsNat ==
    ASSUME NEW a \in Int
    PROVE  0 <= a * a /\ a * a \in Int
OBVIOUS

\* A larger factor, a larger product.
LEMMA FactorsGrow ==
    ASSUME NEW a \in Int, NEW b \in Int, NEW c \in Nat, a <= b
    PROVE  c * a <= c * b /\ a * c <= b * c
<1>1. b - a \in Nat /\ (b - a) * c \in Nat
  OBVIOUS
<1>2. (b - a) * c = b * c - a * c /\ a * c \in Int /\ b * c \in Int
  OBVIOUS
<1>3. c * a = a * c /\ c * b = b * c
  OBVIOUS
<1> QED  BY <1>1, <1>2, <1>3

\* Two legs, their outputs rounded down, yield no more than the exact curve of
\* both: q bought exactly times w, y of it in whole units, z of the other token.
LEMMA TwoLegsBelow ==
    ASSUME NEW T \in Nat \ {0}, NEW w \in Nat \ {0}, NEW f \in Nat, NEW S \in Nat,
           NEW q \in Nat, NEW y \in Nat, NEW z \in Nat,
           w * y <= q, (T + y * f) * z <= (y * f) * S
    PROVE  z * (T * w + f * q) <= (f * S) * q
<1>1. z <= S \/ y * f = 0
  <2> DEFINE g == y * f
  <2>1. g \in Nat /\ T * z \in Nat /\ g * z \in Nat /\ (T + g) * z = T * z + g * z
    OBVIOUS
  <2> HIDE DEF g
  <2>2. g * z <= g * S \/ g = 0
    BY <2>1 DEF g
  <2>3. z <= S \/ g = 0
    BY <2>1, <2>2, TimesCancels
  <2> QED  BY <2>3 DEF g
<1>2. CASE y * f = 0
  <2>1. T * z <= 0
    BY <1>2
  <2>2. z = 0
    BY <2>1
  <2>3. (f * S) * q \in Nat
    OBVIOUS
  <2> QED  BY <2>2, <2>3
<1>3. CASE z <= S
  <2> DEFINE left == S - z
             fl   == f * left
  <2>1. left \in Nat /\ fl \in Nat /\ T * z \in Nat
    BY <1>3
  <2>2. T * z <= y * fl
    <3>1. (T + y * f) * z = T * z + (y * f) * z /\ (y * f) * S - (y * f) * z = y * fl
      BY <2>1
    <3>2. (y * f) * z \in Nat /\ (y * f) * S \in Nat /\ y * fl \in Nat
      BY <2>1
    <3> HIDE DEF fl
    <3> QED  BY <2>1, <3>1, <3>2
  <2> HIDE DEF left, fl
  <2>3. (T * z) * w <= (y * fl) * w /\ (y * fl) * w = (w * y) * fl
    <3>1. y * fl \in Nat
      BY <2>1
    <3>2. (T * z) * w <= (y * fl) * w
      BY <2>1, <2>2, <3>1, TimesMonotone
    <3> QED  BY <2>1, <3>2
  <2>4. (w * y) * fl <= q * fl
    <3>1. w * y \in Nat
      OBVIOUS
    <3> QED  BY <2>1, <3>1, TimesMonotone
  <2>5. q * fl = (f * S) * q - z * (f * q) /\ z * (T * w + f * q) = (T * z) * w + z * (f * q)
    BY <2>1 DEF fl, left
  <2>6. /\ (T * z) * w \in Int /\ (y * fl) * w \in Int /\ q * fl \in Int
        /\ (f * S) * q \in Int /\ z * (f * q) \in Int
    BY <2>1
  <2> QED  BY <2>3, <2>4, <2>5, <2>6
<1> QED  BY <1>1, <1>2, <1>3

\* And they yield less by no more than one unit, and one unit of the first
\* leg at the price of the second.
LEMMA TwoLegsAbove ==
    ASSUME NEW R \in Nat \ {0}, NEW k \in Nat \ {0}, NEW f \in 0 .. k,
           NEW w \in Nat \ {0}, NEW S \in Nat,
           NEW q \in Nat, NEW y \in Nat, NEW z \in Nat,
           w * y <= q, q <= w * (y + 1),
           (y * f) * S <= (R * k + y * f) * (z + 1)
    PROVE  R * ((f * S) * q) <= ((R * k) * w + f * q) * (R * (z + 1) + S)
<1> DEFINE T == R * k
           v == T + y * f
           u == T * w + f * q
           Rf == R * f
<1>1. /\ T \in Nat \ {0} /\ v \in Nat \ {0} /\ u \in Nat \ {0} /\ Rf \in Nat
      /\ T * w \in Nat /\ y * f \in Nat /\ f * q \in Nat /\ f \in Nat
  OBVIOUS
<1>2. Rf <= T
  <2>1. f \in Nat /\ f <= k
    OBVIOUS
  <2> QED  BY <2>1, FactorsGrow
<1>3. Rf * (q - w * y) <= v * w
  <2> DEFINE d == q - w * y
  <2>1. d \in Nat /\ d <= w
    <3>1. w * (y + 1) = w * y + w /\ w * y \in Nat
      OBVIOUS
    <3> QED  BY <3>1
  <2> HIDE DEF d
  <2>2. Rf * d <= T * d /\ T * d <= T * w /\ T * w <= v * w
    <3>1. T <= v
      BY <1>1
    <3> HIDE DEF T, v, Rf
    <3> QED  BY <1>1, <1>2, <2>1, <3>1, FactorsGrow
  <2>3. Rf * d \in Int /\ T * d \in Int /\ T * w \in Int /\ v * w \in Int
    BY <1>1, <2>1
  <2> HIDE DEF T, v, Rf
  <2> QED  BY <2>2, <2>3 DEF d
\* Without S.
<1>4. (Rf * q) * v <= u * (Rf * y + v)
  <2>1. T * (Rf * (q - w * y)) <= T * (v * w)
    <3>1. Rf * (q - w * y) \in Int /\ v * w \in Int
      BY <1>1
    <3> HIDE DEF T, v, Rf
    <3> QED  BY <1>1, <1>3, <3>1, FactorsGrow
  <2>2. u * (Rf * y + v) - (Rf * q) * v
           = (T * (v * w) - T * (Rf * (q - w * y))) + (f * q) * v
    <3> HIDE DEF T, Rf
    <3>1. (Rf * q) * v = (Rf * q) * T + (Rf * q) * (y * f)
      BY <1>1 DEF v
    <3>2. u * (Rf * y) = (T * w) * (Rf * y) + (Rf * q) * (y * f)
      BY <1>1 DEF u
    <3>3. u * (Rf * y + v) = u * (Rf * y) + u * v /\ u * v = T * (v * w) + (f * q) * v
      <4> HIDE DEF v
      <4> QED  BY <1>1 DEF u
    <3>4. T * (Rf * (q - w * y)) = (Rf * q) * T - (T * w) * (Rf * y)
      BY <1>1
    <3>5. /\ (Rf * q) * T \in Int /\ (Rf * q) * (y * f) \in Int /\ (T * w) * (Rf * y) \in Int
          /\ u * v \in Int /\ T * (v * w) \in Int /\ (f * q) * v \in Int
      BY <1>1
    <3> HIDE DEF u, v
    <3> QED  BY <3>1, <3>2, <3>3, <3>4, <3>5
  <2>3. (f * q) * v \in Nat
    BY <1>1
  <2>4. /\ T * (Rf * (q - w * y)) \in Int /\ T * (v * w) \in Int
        /\ u * (Rf * y + v) \in Int /\ (Rf * q) * v \in Int
    BY <1>1
  <2> HIDE DEF T, Rf, u, v
  <2> QED  BY <2>1, <2>2, <2>3, <2>4
\* With S, both sides times v.
<1>5. v * (R * ((f * S) * q)) <= v * (u * (R * (z + 1) + S))
  <2>1. S * ((Rf * q) * v) <= S * (u * (Rf * y + v))
    <3>1. (Rf * q) * v \in Int /\ u * (Rf * y + v) \in Int
      BY <1>1
    <3> HIDE DEF Rf, u, v
    <3> QED  BY <1>4, <3>1, FactorsGrow
  <2>2. (u * R) * ((y * f) * S) <= (u * R) * (v * (z + 1))
    <3>1. u * R \in Nat /\ (y * f) * S \in Int /\ v * (z + 1) \in Int
      BY <1>1
    <3>2. (y * f) * S <= v * (z + 1)
      OBVIOUS
    <3> HIDE DEF u, v
    <3> QED  BY <3>1, <3>2, FactorsGrow
  <2>3. v * (R * ((f * S) * q)) = S * ((Rf * q) * v)
    <3> HIDE DEF v
    <3> QED  BY <1>1
  <2>4. S * (u * (Rf * y + v)) = (u * R) * ((y * f) * S) + (u * S) * v
    <3> HIDE DEF v, u
    <3> QED  BY <1>1
  <2>5. v * (u * (R * (z + 1) + S)) = (u * R) * (v * (z + 1)) + (u * S) * v
    <3> HIDE DEF v, u
    <3> QED  BY <1>1
  <2>6. /\ (u * R) * ((y * f) * S) \in Int /\ (u * S) * v \in Int
        /\ (u * R) * (v * (z + 1)) \in Int /\ S * ((Rf * q) * v) \in Int
    BY <1>1
  <2> HIDE DEF u, v, Rf
  <2> QED  BY <2>1, <2>2, <2>3, <2>4, <2>5, <2>6
<1>6. R * ((f * S) * q) \in Int /\ u * (R * (z + 1) + S) \in Int
  BY <1>1
<1>7. R * ((f * S) * q) <= u * (R * (z + 1) + S)
  <2> HIDE DEF u, v
  <2> QED  BY <1>1, <1>5, <1>6, TimesCancels
<1> QED  BY <1>7 DEF u, T

\* The exact profit of an input x on the curve of both legs is
\* N * x / (D + E * x) - x: how two inputs compare, without the fractions.
LEMMA CurveIdentity ==
    ASSUME NEW D \in Nat, NEW E \in Nat, NEW N \in Nat, NEW x \in Nat, NEW i \in Nat
    PROVE  LET u == D + E * x
               v == D + E * i
           IN  (i * (N - v)) * u = (x * (N - u)) * v + (i - x) * (N * D - u * v)
<1> DEFINE u == D + E * x
           v == D + E * i
<1>1. u \in Int /\ v \in Int
  OBVIOUS
<1>2. N * (i * u - x * v) = (i - x) * (N * D)
  <2>1. i * u - x * v = D * (i - x)
    <3>1. i * u = i * D + E * (i * x) /\ x * v = x * D + E * (i * x)
      OBVIOUS
    <3>2. i * D - x * D = D * (i - x) /\ E * (i * x) \in Int /\ i * D \in Int /\ x * D \in Int
      OBVIOUS
    <3> HIDE DEF u, v
    <3> QED  BY <3>1, <3>2
  <2>2. N * (D * (i - x)) = (i - x) * (N * D)
    OBVIOUS
  <2> HIDE DEF u, v
  <2> QED  BY <2>1, <2>2
<1> HIDE DEF u, v
<1>3. (i * (N - v)) * u - (x * (N - u)) * v = N * (i * u - x * v) - (i - x) * (u * v)
  <2>1. /\ (i * (N - v)) * u = N * (i * u) - i * (u * v)
        /\ (x * (N - u)) * v = N * (x * v) - x * (u * v)
    BY <1>1
  <2>2. N * (i * u - x * v) = N * (i * u) - N * (x * v)
    BY <1>1
  <2>3. (i - x) * (u * v) = i * (u * v) - x * (u * v)
    BY <1>1
  <2>4. /\ N * (i * u) \in Int /\ N * (x * v) \in Int
        /\ i * (u * v) \in Int /\ x * (u * v) \in Int
    BY <1>1
  <2> QED  BY <2>1, <2>2, <2>3, <2>4
<1>4. (i - x) * (N * D - u * v) = (i - x) * (N * D) - (i - x) * (u * v)
  BY <1>1
<1>5. /\ (i * (N - v)) * u \in Int /\ (x * (N - u)) * v \in Int
      /\ (i - x) * (N * D) \in Int /\ (i - x) * (u * v) \in Int
  BY <1>1
<1> QED  BY <1>2, <1>3, <1>4, <1>5 DEF u, v

\* No smaller input earns more than one whose curve value does not pass the
\* peak, and no larger one by more than the distance to the peak allows.
LEMMA CurvePeaks ==
    ASSUME NEW D \in Nat \ {0}, NEW E \in Nat, NEW N \in Nat, NEW x \in Nat, NEW i \in Nat,
           NEW p \in Int, p * (D + E * i) <= i * (N - (D + E * i))
    PROVE  LET u == D + E * x
           IN  /\ i <= x /\ u * u <= N * D => p * u <= x * (N - u)
               /\ \A g \in Nat : x <= i /\ N * D <= (u + g) * (u + g)
                    => E * (p * u) <= E * (x * (N - u)) + g * g
<1> DEFINE u == D + E * x
           v == D + E * i
           earned == x * (N - u)
<1>1. u \in Nat \ {0} /\ v \in Nat \ {0} /\ earned \in Int
  OBVIOUS
<1>2. (i * (N - v)) * u = earned * v + (i - x) * (N * D - u * v)
  BY CurveIdentity
<1>3. v = u + E * (i - x)
  <2>1. E * (i - x) = E * i - E * x /\ E * i \in Int /\ E * x \in Int
    OBVIOUS
  <2> QED  BY <2>1
<1>4. (p * u) * v <= earned * v + (i - x) * (N * D - u * v)
  <2>1. p * v <= i * (N - v)
    OBVIOUS
  <2>2. p * v \in Int /\ i * (N - v) \in Int
    BY <1>1
  <2> HIDE DEF u, v, earned
  <2>3. (p * v) * u <= (i * (N - v)) * u
    BY <1>1, <2>1, <2>2, FactorsGrow
  <2>4. (p * v) * u = (p * u) * v
    BY <1>1
  <2> QED  BY <1>2, <2>3, <2>4
<1> HIDE DEF u, v, earned
<1>5. ASSUME i <= x, u * u <= N * D
      PROVE  p * u <= earned
  <2>1. u * v <= u * u
    <3>1. E * (i - x) = - (E * (x - i)) /\ E * (x - i) \in Nat
      BY <1>5
    <3>2. v <= u
      BY <1>1, <1>3, <3>1
    <3> QED  BY <1>1, <3>2, FactorsGrow
  <2> DEFINE m == N * D - u * v
  <2>2. m \in Nat
    BY <1>1, <1>5, <2>1
  <2> HIDE DEF m
  <2>3. (i - x) * m = - ((x - i) * m) /\ (x - i) * m \in Nat
    BY <1>5, <2>2
  <2>4. (p * u) * v <= earned * v
    <3>1. (p * u) * v <= earned * v + (i - x) * m
      BY <1>4 DEF m
    <3>2. (p * u) * v \in Int /\ earned * v \in Int
      BY <1>1
    <3> QED  BY <2>3, <3>1, <3>2
  <2>5. p * u \in Int /\ (p * u) * v = v * (p * u) /\ earned * v = v * earned
    BY <1>1
  <2> QED  BY <1>1, <2>4, <2>5, TimesCancels
<1>6. ASSUME NEW g \in Nat, x <= i, N * D <= (u + g) * (u + g)
      PROVE  E * (p * u) <= E * earned + g * g
  <2> DEFINE h == E * (i - x)
  <2>1. h \in Nat /\ v = u + h
    BY <1>3, <1>6
  <2>2. E * ((p * u) * v) <= E * (earned * v + (i - x) * (N * D - u * v))
    <3>1. (p * u) * v \in Int /\ earned * v + (i - x) * (N * D - u * v) \in Int
      BY <1>1
    <3> QED  BY <1>4, <3>1, FactorsGrow
  <2>3. E * (earned * v + (i - x) * (N * D - u * v))
           = (E * earned) * v + h * (N * D - u * v)
    <3> DEFINE m == N * D - u * v
    <3>1. m \in Int
      BY <1>1
    <3> HIDE DEF m
    <3>2. E * (earned * v + (i - x) * m) = (E * earned) * v + (E * (i - x)) * m
      BY <1>1, <3>1
    <3> QED  BY <3>2 DEF m, h
  <2> HIDE DEF h
  <2>4. h * (N * D - u * v) <= v * (g * g)
    <3> DEFINE c == u + g
               s == (u + g) * (u + g)
    <3>1. h * (N * D - u * v) <= h * (s - u * v)
      <4>1. N * D - u * v \in Int /\ s - u * v \in Int /\ N * D \in Int /\ u * v \in Int
        BY <1>1
      <4>2. N * D - u * v <= s - u * v
        <5> HIDE DEF s
        <5>1. s \in Int
          BY <1>1 DEF s
        <5> QED  BY <1>6, <4>1, <5>1 DEF s
      <4> HIDE DEF s
      <4> QED  BY <2>1, <4>1, <4>2, FactorsGrow
    <3>2. v * (g * g) - h * (s - u * v) = u * ((g - h) * (g - h))
      <4>1. s - u * v = 2 * (u * g) + g * g - u * h
        BY <1>1, <2>1
      <4>2. h * (2 * (u * g) + g * g - u * h) = 2 * (u * (g * h)) + h * (g * g) - u * (h * h)
        BY <1>1, <2>1
      <4>3. v * (g * g) = u * (g * g) + h * (g * g)
        BY <1>1, <2>1
      <4>4. u * ((g - h) * (g - h)) = u * (g * g) - 2 * (u * (g * h)) + u * (h * h)
        BY <1>1, <2>1
      <4>5. /\ u * (g * g) \in Int /\ u * (g * h) \in Int /\ u * (h * h) \in Int
            /\ h * (g * g) \in Int
        BY <1>1, <2>1
      <4> HIDE DEF s
      <4> QED  BY <4>1, <4>2, <4>3, <4>4, <4>5
    <3>3. 0 <= u * ((g - h) * (g - h))
      <4>1. g - h \in Int
        BY <2>1
      <4>2. 0 <= (g - h) * (g - h) /\ (g - h) * (g - h) \in Int
        BY <4>1, SquareIsNat
      <4>3. (g - h) * (g - h) \in Nat
        BY <4>2
      <4> QED  BY <1>1, <4>3
    <3>4. /\ h * (N * D - u * v) \in Int /\ h * (s - u * v) \in Int
          /\ v * (g * g) \in Int /\ u * ((g - h) * (g - h)) \in Int
      BY <1>1, <2>1
    <3> HIDE DEF s
    <3> QED  BY <3>1, <3>2, <3>3, <3>4
  <2>5. v * (E * (p * u)) <= v * (E * earned + g * g)
    <3>1. v * (E * (p * u)) = E * ((p * u) * v)
      BY <1>1
    <3>2. v * (E * earned + g * g) = (E * earned) * v + v * (g * g)
      BY <1>1
    <3>3. /\ E * ((p * u) * v) \in Int /\ (E * earned) * v \in Int
          /\ v * (g * g) \in Int /\ h * (N * D - u * v) \in Int
      BY <1>1, <2>1
    <3> QED  BY <2>2, <2>3, <2>4, <3>1, <3>2, <3>3
  <2>6. E * (p * u) \in Int /\ E * earned + g * g \in Int
    BY <1>1
  <2> QED  BY <1>1, <2>5, <2>6, TimesCancels
<1> QED  BY <1>5, <1>6 DEF u, earned

\* The numbers of the closed form for pools with reserves Ra, Sa and Rb, Sb,
\* and fees that leave fa and fb of k: the curve's D, E and N, the root r, and
\* the whole part x of the exact input.
ClosedForm(k, fa, fb, Ra, Sa, Rb, Sb, D, E, N, r, x) ==
    LET sub    == (Ra * Rb) * k
        square == (fa * (Ra * Rb)) * (fb * (Sa * Sb))
    IN  /\ k \in Nat /\ 3 <= k /\ fa \in 1 .. k /\ fb \in 1 .. k
        /\ Ra \in Nat \ {0} /\ Sa \in Nat \ {0} /\ Rb \in Nat \ {0} /\ Sb \in Nat \ {0}
        /\ D = k * sub
        /\ E = fa * (Rb * k + fb * Sa)
        /\ N = (fa * fb) * (Sa * Sb)
        /\ r \in Nat /\ r * r <= square /\ square < (r + 1) * (r + 1)
        /\ x \in Nat /\ k * (r - sub) < E * (x + 1)
        /\ x # 0 => E * x <= k * (r - sub)

\* The input i earns at most p on the curve.
Earns(D, E, N, i, p) ==
    i \in Nat /\ p \in Int /\ p * (D + E * i) <= i * (N - (D + E * i))

\* No other input passes that of the closed form by more than one unit, and
\* where it is none at all, by more than pool A is out of proportion.
LEMMA ClosedFormPeaks ==
    ASSUME NEW k, NEW fa, NEW fb, NEW Ra, NEW Sa, NEW Rb, NEW Sb,
           NEW D, NEW E, NEW N, NEW r, NEW x,
           ClosedForm(k, fa, fb, Ra, Sa, Rb, Sb, D, E, N, r, x),
           NEW i, NEW p, Earns(D, E, N, i, p)
    PROVE  LET u == D + E * x
           IN  /\ x # 0 => p * u <= x * (N - u) + u
               /\ x = 0 => p <= 2 + Sa \div (Ra * Rb)
<1> DEFINE M == Ra * Rb
           u == D + E * x
           g == E + k
           next == r + 1
           sub == (Ra * Rb) * k
           square == (fa * (Ra * Rb)) * (fb * (Sa * Sb))
<1>0. /\ k \in Nat /\ 3 <= k /\ fa \in 1 .. k /\ fb \in 1 .. k
      /\ Ra \in Nat \ {0} /\ Sa \in Nat \ {0} /\ Rb \in Nat \ {0} /\ Sb \in Nat \ {0}
      /\ sub = (Ra * Rb) * k /\ D = k * sub
      /\ E = fa * (Rb * k + fb * Sa)
      /\ N = (fa * fb) * (Sa * Sb)
      /\ square = (fa * (Ra * Rb)) * (fb * (Sa * Sb))
      /\ r \in Nat /\ r * r <= square /\ square < (r + 1) * (r + 1)
      /\ x \in Nat /\ k * (r - sub) < E * (x + 1)
      /\ x # 0 => E * x <= k * (r - sub)
      /\ i \in Nat /\ p \in Int /\ p * (D + E * i) <= i * (N - (D + E * i))
  BY DEF ClosedForm, Earns
<1> HIDE DEF sub, square
<1> USE <1>0
<1>1. /\ fa \in Nat \ {0} /\ fb \in Nat \ {0} /\ fa <= k /\ fb <= k
      /\ M \in Nat \ {0} /\ k \in Nat \ {0}
  OBVIOUS
<1>2. /\ sub \in Nat \ {0} /\ D \in Nat \ {0} /\ N \in Nat /\ square \in Nat
      /\ E \in Nat \ {0}
  BY <1>1
<1>3. u \in Nat \ {0} /\ g \in Nat /\ next \in Nat
  BY <1>2
<1>4. N * D = (k * k) * square
  <2>1. D = (k * k) * M
    BY <1>1
  <2>2. square = (fa * fb) * (Sa * Sb) * M
    BY <1>1
  <2> HIDE DEF M
  <2>3. ((fa * fb) * (Sa * Sb)) * ((k * k) * M) = (k * k) * ((fa * fb) * (Sa * Sb) * M)
    BY <1>1
  <2> QED  BY <2>1, <2>2, <2>3
<1>5. (k * r) * (k * r) <= N * D /\ N * D <= (k * next) * (k * next)
  <2>1. (k * k) * (r * r) <= (k * k) * square
    <3>1. r * r \in Int /\ k * k \in Nat
      OBVIOUS
    <3> QED  BY <1>2, <3>1, FactorsGrow
  <2>2. (k * k) * square <= (k * k) * (next * next)
    <3>1. next * next \in Int /\ k * k \in Nat /\ square <= next * next
      BY <1>2
    <3> HIDE DEF next
    <3> QED  BY <1>2, <3>1, FactorsGrow
  <2>3. (k * k) * (r * r) = (k * r) * (k * r) /\ (k * k) * (next * next) = (k * next) * (k * next)
    BY <1>3
  <2> HIDE DEF next
  <2> QED  BY <1>4, <2>1, <2>2, <2>3
<1>6. k * (r - sub) = k * r - D /\ E * (x + 1) = E * x + E /\ k * next = k * r + k
      /\ k * r \in Nat /\ E * x \in Nat
  BY <1>1, <1>2
<1>7. N * D <= (u + g) * (u + g)
  <2>1. k * next <= u + g
    BY <1>2, <1>6
  <2>2. (k * next) * (k * next) <= (u + g) * (u + g)
    <3>1. k * next \in Nat /\ u + g \in Nat
      BY <1>3
    <3> HIDE DEF next, u, g
    <3> QED  BY <2>1, <3>1, SquareGrows
  <2>3. (k * next) * (k * next) \in Int /\ (u + g) * (u + g) \in Int /\ N * D \in Int
    BY <1>2, <1>3
  <2> HIDE DEF next, u, g
  <2> QED  BY <1>5, <2>2, <2>3
<1>8. /\ i <= x /\ u * u <= N * D => p * u <= x * (N - u)
      /\ x <= i => E * (p * u) <= E * (x * (N - u)) + g * g
  <2>1. LET uu == D + E * x
        IN  /\ i <= x /\ uu * uu <= N * D => p * uu <= x * (N - uu)
            /\ \A d \in Nat : x <= i /\ N * D <= (uu + d) * (uu + d)
                 => E * (p * uu) <= E * (x * (N - uu)) + d * d
    BY <1>2, CurvePeaks
  <2>2. /\ i <= x /\ u * u <= N * D => p * u <= x * (N - u)
        /\ \A d \in Nat : x <= i /\ N * D <= (u + d) * (u + d)
                 => E * (p * u) <= E * (x * (N - u)) + d * d
    BY <2>1
  <2> HIDE DEF u, g
  <2> QED  BY <1>3, <1>7, <2>2
<1>9. k <= E /\ 3 * k <= k * k /\ k * k <= D
  <2>1. 1 * k <= Rb * k /\ 1 * (Rb * k) <= fa * (Rb * k)
    <3>1. Rb * k \in Nat
      BY <1>1
    <3> QED  BY <1>1, <3>1, FactorsGrow
  <2>2. E = fa * (Rb * k) + fa * (fb * Sa) /\ fa * (fb * Sa) \in Nat
        /\ fa * (Rb * k) \in Nat /\ Rb * k \in Nat
    BY <1>1
  <2>3. 3 * k <= k * k
    BY FactorsGrow
  <2>4. 1 * (k * k) <= M * (k * k)
    <3>1. k * k \in Nat
      OBVIOUS
    <3> HIDE DEF M
    <3> QED  BY <1>1, <3>1, FactorsGrow
  <2>5. M * (k * k) = D /\ 1 * (k * k) = k * k
    BY <1>1
  <2> QED  BY <2>1, <2>2, <2>3, <2>4, <2>5
<1>10. g * g <= E * (E + 3 * k)
  <2>1. k * k <= E * k
    BY <1>2, <1>9, FactorsGrow
  <2>2. g * g = E * E + 2 * (E * k) + k * k /\ E * (E + 3 * k) = E * E + 3 * (E * k)
    BY <1>2
  <2>3. E * E \in Int /\ E * k \in Int /\ k * k \in Int
    BY <1>2
  <2> QED  BY <2>1, <2>2, <2>3
<1>11. ASSUME x # 0 PROVE p * u <= x * (N - u) + u
  <2>1. u <= k * r
    BY <1>2, <1>6, <1>11
  <2>2. u * u <= N * D
    <3>1. u * u <= (k * r) * (k * r)
      <4> HIDE DEF u
      <4> QED  BY <1>3, <1>6, <2>1, SquareGrows
    <3>2. u * u \in Int /\ (k * r) * (k * r) \in Int /\ N * D \in Int
      BY <1>2, <1>3
    <3> HIDE DEF u
    <3> QED  BY <1>5, <3>1, <3>2
  <2>3. g * g <= E * u
    <3>1. 1 * E <= x * E
      BY <1>2, <1>11, FactorsGrow
    <3>2. E + 3 * k <= u
      BY <1>2, <1>9, <3>1
    <3>3. E * (E + 3 * k) <= E * u /\ E * (E + 3 * k) \in Int /\ E * u \in Int /\ g * g \in Int
      <4> HIDE DEF u
      <4> QED  BY <1>2, <1>3, <3>2, FactorsGrow
    <3> HIDE DEF u, g
    <3> QED  BY <1>10, <3>3
  <2>4. x * (N - u) \in Int /\ p * u \in Int
    BY <1>2, <1>3
  <2>5. CASE i <= x
    <3> HIDE DEF u, g
    <3> QED  BY <1>3, <1>8, <2>2, <2>4, <2>5
  <2>6. CASE x <= i
    <3> DEFINE e == x * (N - u)
    <3>1. E * (p * u) <= E * e + g * g
      BY <1>8, <2>6
    <3>2. E * (p * u) <= E * (e + u)
      <4>1. E * (e + u) = E * e + E * u /\ E * e \in Int /\ E * u \in Int
            /\ E * (p * u) \in Int /\ g * g \in Int
        <5> HIDE DEF e, u
        <5> QED  BY <1>2, <1>3, <2>4 DEF e
      <4> HIDE DEF e, u, g
      <4> QED  BY <2>3, <3>1, <4>1
    <3>3. e + u \in Int
      BY <1>3, <2>4
    <3> HIDE DEF e, u
    <3> QED  BY <1>2, <2>4, <3>2, <3>3, TimesCancels DEF e
  <2> QED  BY <2>5, <2>6
<1>12. ASSUME x = 0 PROVE p <= 2 + Sa \div (Ra * Rb)
  <2> DEFINE q == Sa \div M
  <2>1. q \in Nat /\ Sa + 1 <= M * (q + 1)
    <3> HIDE DEF M
    <3> QED  BY <1>1
  <2>2. u = D
    BY <1>2, <1>12
  <2>3. E * (p * D) <= E * (E + 3 * k)
    <3>1. E * (p * u) <= g * g
      BY <1>2, <1>3, <1>8, <1>12
    <3>2. E * (p * D) \in Int /\ g * g \in Int /\ E * (E + 3 * k) \in Int
      BY <1>2
    <3> HIDE DEF u
    <3>3. E * (p * D) = E * (p * u)
      BY <2>2
    <3>4. E * (p * D) <= g * g
      BY <3>1, <3>3
    <3> DEFINE most == E * (E + 3 * k)
               gain == E * (p * D)
    <3>5. gain \in Int /\ g * g \in Int /\ most \in Int /\ gain <= g * g /\ g * g <= most
      BY <1>10, <3>2, <3>4
    <3> HIDE DEF g, most, gain
    <3>6. gain <= most
      BY <3>5
    <3> QED  BY <3>6 DEF gain, most
  <2>4. p * D <= E + 3 * k
    <3>1. p * D \in Int /\ E + 3 * k \in Int
      BY <1>2
    <3> QED  BY <1>2, <2>3, <3>1, TimesCancels
  <2>5. E <= (k * k) * (Rb + Sa)
    <3>1. fa * (Rb * k) <= k * (Rb * k)
      <4>1. Rb * k \in Nat
        BY <1>1
      <4> QED  BY <1>1, <4>1, FactorsGrow
    <3>2. fa * (fb * Sa) <= k * (k * Sa)
      <4>1. fb * Sa <= k * Sa /\ fb * Sa \in Nat /\ k * Sa \in Nat
        BY <1>1, FactorsGrow
      <4>2. fa * (fb * Sa) <= k * (fb * Sa) /\ k * (fb * Sa) <= k * (k * Sa)
        BY <1>1, <4>1, FactorsGrow
      <4>3. fa * (fb * Sa) \in Int /\ k * (fb * Sa) \in Int /\ k * (k * Sa) \in Int
        BY <1>1
      <4> QED  BY <4>2, <4>3
    <3>3. E = fa * (Rb * k) + fa * (fb * Sa) /\ (k * k) * (Rb + Sa) = k * (Rb * k) + k * (k * Sa)
      BY <1>1
    <3>4. /\ fa * (Rb * k) \in Int /\ fa * (fb * Sa) \in Int
          /\ k * (Rb * k) \in Int /\ k * (k * Sa) \in Int
      BY <1>1
    <3> QED  BY <3>1, <3>2, <3>3, <3>4
  <2>6. (k * k) * (p * M) <= (k * k) * (Rb + Sa + 1)
    <3>1. (k * k) * (p * M) = p * D
      BY <1>1
    <3>2. (k * k) * (Rb + Sa + 1) = (k * k) * (Rb + Sa) + k * k
      OBVIOUS
    <3>3. p * D \in Int /\ (k * k) * (Rb + Sa) \in Int /\ k * k \in Int
      BY <1>2
    <3> QED  BY <1>2, <1>9, <2>4, <2>5, <3>1, <3>2, <3>3
  <2>7. p * M <= Rb + Sa + 1
    <3>1. k * k \in Nat \ {0} /\ p * M \in Int /\ Rb + Sa + 1 \in Int
      BY <1>1
    <3> HIDE DEF M
    <3> QED  BY <2>6, <3>1, TimesCancels
  <2>8. Rb <= M
    <3>1. 1 * Rb <= Ra * Rb
      BY FactorsGrow
    <3> QED  BY <3>1
  <2>9. M * p <= M * (2 + q)
    <3> HIDE DEF M, q
    <3>1. p * M = M * p /\ M * (2 + q) = M * (q + 1) + M /\ M * p \in Int /\ M * (q + 1) \in Int
      BY <1>1, <2>1
    <3> QED  BY <1>1, <2>1, <2>7, <2>8, <3>1
  <2>10. p <= 2 + q
    <3> HIDE DEF M, q
    <3>1. 2 + q \in Int
      BY <2>1
    <3> QED  BY <1>1, <2>9, <3>1, TimesCancels
  <2> QED  BY <2>10 DEF q, M
<1> QED  BY <1>11, <1>12 DEF u

\* The output of a leg, between its roundings.
LEMMA LegBounds ==
    ASSUME NEW pool, TypedPool(pool), NEW x \in Partial(Nat), NEW z,
           LegOut(pool, x, z) # Overflow
    PROVE  LET y == LegOut(pool, x, z)
               w == In(pool, z) * OneK + x * FeeComplement(pool)
               q == (x * FeeComplement(pool)) * Out(pool, z)
           IN  /\ x \in Nat /\ y \in Nat /\ w \in Nat \ {0} /\ q \in Nat
               /\ w * y <= q /\ q <= w * (y + 1)
<1> DEFINE y == LegOut(pool, x, z)
           w == In(pool, z) * OneK + x * FeeComplement(pool)
           q == (x * FeeComplement(pool)) * Out(pool, z)
<1>1. x \in Nat /\ x * FeeComplement(pool) \in Nat /\ w \in Nat \ {0} /\ y = q \div w
  BY LegIs
<1>2. q \in Nat
  <2>1. Out(pool, z) \in Nat
    BY SidesTyped, WordsPartial
  <2> QED  BY <1>1, <2>1
<1> HIDE DEF y, w, q
<1>3. y \in Nat /\ w * y <= q /\ q <= w * (y + 1)
  BY <1>1, <1>2
<1> QED  BY <1>1, <1>2, <1>3 DEF y, w, q

\* What the closed form answers: the root r of the radicand, and an input x
\* that is the whole part of the exact one.
WholeInput(a, b, z, x) ==
    \E r \in Nat :
       LET ins    == In(a, z) * In(b, ~z)
           square == (FeeComplement(a) * ins)
                       * (FeeComplement(b) * (Out(a, z) * Out(b, ~z)))
           E      == FeeComplement(a) * (In(b, ~z) * OneK + FeeComplement(b) * Out(a, z))
       IN  /\ r * r <= square /\ square < (r + 1) * (r + 1)
           /\ OneK * (r - ins * OneK) < E * (x + 1)
           /\ x # 0 => E * x <= OneK * (r - ins * OneK)

Answers(a, b, z, trade, x) ==
    /\ WholeInput(a, b, z, x)
    /\ x = 0 => trade = NoTrade
    /\ x # 0 => /\ trade = [in |-> x, out |-> TwoLegs(a, b, x, z)]
                /\ TwoLegs(a, b, x, z) # Overflow

\* What optimal_v2_v2 answers, from its checked operations.
LEMMA OptimalAnswers ==
    ASSUME NEW a, NEW b, TypedPool(a), TypedPool(b), NEW z \in BOOLEAN,
           0 \notin {a.reserve0, a.reserve1, b.reserve0, b.reserve1},
           0 \notin {FeeComplement(a), FeeComplement(b)},
           OptimalV2V2(a, b, z) # Failed
    PROVE  \E x \in Nat : Answers(a, b, z, OptimalV2V2(a, b, z), x)
<1> DEFINE k    == KExpanded(a, b, z)
           root == ISqrt(k)
           inAB == Mul(In(a, z), In(b, ~z))
           sub  == Mul(inAB, OneK)
           x    == OptimalInput(a, b, z, root, sub)
           out  == TwoLegs(a, b, x, z)
           ins    == In(a, z) * In(b, ~z)
           square == (FeeComplement(a) * ins)
                       * (FeeComplement(b) * (Out(a, z) * Out(b, ~z)))
           E      == FeeComplement(a) * (In(b, ~z) * OneK + FeeComplement(b) * Out(a, z))
           trade  == OptimalV2V2(a, b, z)
<1>1. Overflow \notin {k, sub}
  BY DEF OptimalV2V2
<1>2. /\ root <= sub \/ x = 0 => trade = NoTrade
      /\ ~ (root <= sub) /\ x # 0 =>
            /\ Overflow \notin {x, out}
            /\ trade = [in |-> x, out |-> out]
  <2>1. trade = IF root <= sub \/ x = 0 THEN NoTrade
                ELSE IF Overflow \in {x, out} THEN Failed
                ELSE [in |-> x, out |-> out]
    BY <1>1 DEF OptimalV2V2
  <2> HIDE DEF root, sub, x, out
  <2> QED  BY <2>1
<1>3. /\ In(a, z) \in Nat /\ Out(a, z) \in Nat /\ In(b, ~z) \in Nat
      /\ FeeComplement(a) \in Nat /\ FeeComplement(b) \in Nat /\ OneK \in Nat \ {0}
      /\ In(a, z) \in Partial(Nat) /\ Out(a, z) \in Partial(Nat) /\ In(b, ~z) \in Partial(Nat)
      /\ FeeComplement(a) \in Partial(Nat) /\ FeeComplement(b) \in Partial(Nat)
      /\ OneK \in Partial(Nat)
  BY SidesTyped, WordsPartial, ScalesAre
<1>4. In(b, ~z) # 0
  BY DEF In
<1>5. E \in Nat \ {0}
  <2> DEFINE i == In(b, ~z) * OneK
             o == FeeComplement(b) * Out(a, z)
  <2>1. i \in Nat \ {0} /\ o \in Nat
    BY <1>3, <1>4
  <2> HIDE DEF i, o
  <2>2. FeeComplement(a) * (i + o) \in Nat \ {0}
    BY <1>3, <2>1
  <2> QED  BY <2>2 DEF i, o
<1>6. root \in Nat /\ root * root <= square /\ square < (root + 1) * (root + 1)
  <2>1. k \in 0 .. MaxWord /\ k = square
    BY <1>1, KExpandedTyped, RadicandIs DEF Partial, Words
  <2> HIDE DEF k, square
  <2> QED  BY <2>1, ISqrtIsFloor DEF IsRoot
<1>7. sub \in Nat /\ sub = ins * OneK
  <2>1. inAB \in Partial(Nat) /\ (inAB # Overflow => inAB = In(a, z) * In(b, ~z))
    BY <1>3, MulTyped, WordsPartial
  <2> HIDE DEF inAB
  <2>2. inAB \in Nat /\ sub = inAB * OneK
    BY <1>1, <1>3, <2>1, MulTyped
  <2> QED  BY <1>3, <2>1, <2>2, WordsAreNot
<1>8. ASSUME NEW c \in Nat, OneK * (root - sub) < E * (c + 1),
             c # 0 => E * c <= OneK * (root - sub)
      PROVE  WholeInput(a, b, z, c)
  <2>1. /\ root * root <= square /\ square < (root + 1) * (root + 1)
        /\ OneK * (root - ins * OneK) < E * (c + 1)
        /\ c # 0 => E * c <= OneK * (root - ins * OneK)
    <3> HIDE DEF square, ins, E, root, sub
    <3> QED  BY <1>6, <1>7, <1>8
  <2> HIDE DEF root
  <2> QED  BY <1>6, <2>1 DEF WholeInput
<1>9. CASE root <= sub
  <2> HIDE DEF root, sub, E, x, out, trade
  <2>1. OneK * (root - sub) <= 0
    <3>1. root - sub \in Int /\ root - sub <= 0
      BY <1>6, <1>7, <1>9
    <3> DEFINE d == root - sub
    <3>2. OneK * d <= OneK * 0
      <4> HIDE DEF d
      <4> QED  BY <1>3, <3>1, FactorsGrow DEF d
    <3> QED  BY <1>3, <3>2
  <2>2. OneK * (root - sub) < E * (0 + 1)
    <3>1. OneK * (root - sub) \in Int
      BY <1>3, <1>6, <1>7
    <3> QED  BY <1>5, <2>1, <3>1
  <2>3. WholeInput(a, b, z, 0)
    BY <1>8, <2>2
  <2>4. Answers(a, b, z, trade, 0)
    BY <1>2, <1>9, <2>3 DEF Answers
  <2> QED  BY <2>4 DEF trade
<1>10. CASE ~ (root <= sub)
  <2> DEFINE rest == root - sub
             feeOut == Mul(FeeComplement(b), Out(a, z))
             inOneK == Mul(In(b, ~z), OneK)
             sum    == Add(inOneK, feeOut)
             den    == Mul(FeeComplement(a), sum)
             num    == Mul(OneK, rest)
  <2>1. rest \in Nat /\ rest \in Partial(Nat)
    <3> HIDE DEF root, sub
    <3> QED  BY <1>6, <1>7, <1>10, WordsPartial
  <2>2. x = Div(num, den)
    BY DEF OptimalInput
  <2>3. x # Overflow
    <3>1. CASE x = 0
      <4> HIDE DEF x
      <4> QED  BY <3>1, WordsAreNot
    <3>2. CASE x # 0
      <4> HIDE DEF x, root, sub, out
      <4> QED  BY <1>2, <1>10, <3>2
    <3> QED  BY <3>1, <3>2
  <2> HIDE DEF rest
  <2>4. /\ feeOut \in Partial(Nat)
        /\ feeOut # Overflow => feeOut = FeeComplement(b) * Out(a, z)
    BY <1>3, MulTyped, WordsPartial
  <2>5. /\ inOneK \in Partial(Nat)
        /\ inOneK # Overflow => inOneK = In(b, ~z) * OneK
    BY <1>3, MulTyped, WordsPartial
  <2>6. num \in Partial(Nat) /\ (num # Overflow => num = OneK * rest)
    BY <1>3, <2>1, MulTyped, WordsPartial
  <2> HIDE DEF feeOut, inOneK, num
  <2>7. /\ sum \in Partial(Nat)
        /\ sum # Overflow => inOneK \in Nat /\ feeOut \in Nat /\ sum = inOneK + feeOut
    BY <2>4, <2>5, AddTyped, WordsPartial
  <2> HIDE DEF sum
  <2>8. /\ den \in Partial(Nat)
        /\ den # Overflow => sum \in Nat /\ den = FeeComplement(a) * sum
    BY <1>3, <2>7, MulTyped, WordsPartial
  <2> HIDE DEF den, x
  <2>9. num \in Nat /\ den \in Nat \ {0} /\ x = num \div den
    BY <2>2, <2>3, <2>6, <2>8, DivTyped
  <2>10. x \in Nat /\ den * x <= num /\ num < den * (x + 1)
    BY <2>9
  <2>11. num = OneK * rest
    BY <2>6, <2>9, WordsAreNot
  <2>12. den = E
    <3>1. sum \in Nat /\ den = FeeComplement(a) * sum
      BY <2>8, <2>9, WordsAreNot
    <3>2. inOneK \in Nat /\ feeOut \in Nat /\ sum = inOneK + feeOut
      BY <2>7, <3>1, WordsAreNot
    <3> QED  BY <2>4, <2>5, <3>1, <3>2, WordsAreNot
  <2> HIDE DEF E, root, sub
  <2>13. OneK * (root - sub) < E * (x + 1) /\ E * x <= OneK * (root - sub)
    BY <2>10, <2>11, <2>12 DEF rest
  <2>14. WholeInput(a, b, z, x)
    BY <1>8, <2>10, <2>13
  <2> HIDE DEF trade
  <2>15. Answers(a, b, z, trade, x)
    BY <1>2, <1>10, <2>14 DEF Answers
  <2> QED  BY <2>10, <2>15 DEF trade
<1> QED  BY <1>9, <1>10

\* From an advantage over the exact profit of x to one over its rounded profit.
LEMMA RoundedProfit ==
    ASSUME NEW R \in Nat \ {0}, NEW S \in Nat, NEW u \in Nat \ {0}, NEW N \in Nat,
           NEW x \in Nat, NEW out \in Nat, NEW p \in Int,
           p * u <= x * (N - u) + u,
           R * (N * x) <= u * (R * (out + 1) + S)
    PROVE  p <= (out - x) + 2 + S \div R
<1> DEFINE d == p - ((out - x) + 2)
<1>1. d \in Int /\ p = d + (out - x) + 2
  OBVIOUS
<1>2. u * (R * d) <= u * S
  <2>1. R * (p * u) <= R * (x * (N - u) + u)
    <3>1. p * u \in Int /\ x * (N - u) + u \in Int
      OBVIOUS
    <3> QED  BY <3>1, FactorsGrow
  <2>2. R * (x * (N - u) + u) = R * (N * x) - u * (R * x) + u * R
    OBVIOUS
  <2>3. u * (R * (out + 1) + S) = u * (R * out) + u * R + u * S
    OBVIOUS
  <2>4. R * (p * u) = u * (R * d) + u * (R * out) - u * (R * x) + 2 * (u * R)
    <3> HIDE DEF d
    <3>1. R * (p * u) = u * (R * p)
      OBVIOUS
    <3>2. R * p = R * d + R * out - R * x + 2 * R
      BY <1>1
    <3>3. R * d \in Int /\ R * out \in Int /\ R * x \in Int
      BY <1>1
    <3>4. u * (R * d + R * out - R * x + 2 * R)
             = u * (R * d) + u * (R * out) - u * (R * x) + 2 * (u * R)
      BY <3>3
    <3> QED  BY <3>1, <3>2, <3>4
  <2>5. /\ u * (R * d) \in Int /\ u * (R * out) \in Int /\ u * (R * x) \in Int
        /\ u * R \in Int /\ u * S \in Int /\ R * (N * x) \in Int
    BY <1>1
  <2> HIDE DEF d
  <2> QED  BY <2>1, <2>2, <2>3, <2>4, <2>5
<1> HIDE DEF d
<1>3. R * d <= S
  <2>1. R * d \in Int
    BY <1>1
  <2> QED  BY <1>2, <2>1, TimesCancels
<1>4. d <= S \div R
  <2>1. S \div R \in Nat
    OBVIOUS
  <2>2. CASE d < 0
    BY <1>1, <2>1, <2>2
  <2>3. CASE d >= 0
    <3>1. d \in Nat
      BY <1>1, <2>3
    <3> QED  BY <1>3, <3>1, QuotientLeast
  <2> QED  BY <1>1, <2>2, <2>3
<1>5. S \div R \in Nat
  OBVIOUS
<1> QED  BY <1>1, <1>4, <1>5

\* Two legs that do not overflow, against the curve of both.
LEMMA TwoLegsBounds ==
    ASSUME NEW a, NEW b, TypedPool(a), TypedPool(b), NEW z, NEW x \in Nat,
           TwoLegs(a, b, x, z) # Overflow,
           In(a, z) # 0, In(b, ~z) # 0
    PROVE  LET out == TwoLegs(a, b, x, z)
               Rb  == In(b, ~z)
               Sb  == Out(b, ~z)
               fa  == FeeComplement(a)
               fb  == FeeComplement(b)
               E   == fa * (Rb * OneK + fb * Out(a, z))
               u   == OneK * ((In(a, z) * Rb) * OneK) + E * x
               N   == (fa * fb) * (Out(a, z) * Sb)
           IN  /\ out \in Nat
               /\ out * u <= N * x
               /\ Rb * (N * x) <= u * (Rb * (out + 1) + Sb)
<1> DEFINE fa  == FeeComplement(a)
           fb  == FeeComplement(b)
           Ra  == In(a, z)
           Sa  == Out(a, z)
           Rb  == In(b, ~z)
           Sb  == Out(b, ~z)
           k   == OneK
           y   == LegOut(a, x, z)
           out == LegOut(b, y, ~z)
           w   == Ra * k + x * fa
           q   == (x * fa) * Sa
           T   == Rb * k
           E   == fa * (Rb * k + fb * Sa)
           u   == k * ((Ra * Rb) * k) + E * x
           N   == (fa * fb) * (Sa * Sb)
<1>1. /\ fa \in Nat /\ fb \in 0 .. k /\ fb \in Nat /\ k \in Nat \ {0}
      /\ Ra \in Nat \ {0} /\ Sa \in Nat /\ Rb \in Nat \ {0} /\ Sb \in Nat
  BY SidesTyped, WordsPartial, ScalesAre, ComplementTyped
<1>2. TwoLegs(a, b, x, z) = out /\ out # Overflow
  BY DEF TwoLegs
<1>3. y \in Partial(Nat)
  <2>1. x \in Partial(Nat)
    BY WordsPartial
  <2>2. y = Overflow \/ y \in Nat
    <3>1. CASE y = Overflow
      BY <3>1
    <3>2. CASE y # Overflow
      <4>1. LegOut(a, x, z) \in Nat
        BY <2>1, <3>2, LegBounds
      <4> QED  BY <4>1
    <3> QED  BY <3>1, <3>2
  <2> HIDE DEF y
  <2> QED  BY <2>2 DEF Partial
<1>4. /\ y \in Nat /\ out \in Nat
      /\ (T + y * fb) * out <= (y * fb) * Sb
      /\ (y * fb) * Sb <= (T + y * fb) * (out + 1)
  <2> HIDE DEF y
  <2>1. LET v == Rb * OneK + y * fb
            q2 == (y * fb) * Sb
        IN  /\ y \in Nat /\ out \in Nat /\ v * out <= q2 /\ q2 <= v * (out + 1)
    BY <1>2, <1>3, LegBounds
  <2> QED  BY <2>1
<1>5. w \in Nat \ {0} /\ q \in Nat /\ w * y <= q /\ q <= w * (y + 1)
  <2>1. x \in Partial(Nat) /\ y # Overflow
    <3> HIDE DEF y
    <3> QED  BY <1>4, WordsAreNot, WordsPartial
  <2> QED  BY <2>1, LegBounds
<1> HIDE DEF y, out
<1>6. T \in Nat \ {0}
  <2> HIDE DEF Rb, k
  <2> QED  BY <1>1
<1>7. u = T * w + fb * q /\ (fb * Sb) * q = N * x
  <2> HIDE DEF fa, fb, Ra, Sa, Rb, Sb, k
  <2>1. T * w = k * ((Ra * Rb) * k) + (Rb * k) * (x * fa)
    BY <1>1
  <2>2. E * x = (Rb * k) * (x * fa) + fb * q
    BY <1>1
  <2>3. /\ k * ((Ra * Rb) * k) \in Int /\ (Rb * k) * (x * fa) \in Int /\ fb * q \in Int
    BY <1>1
  <2>4. (fb * Sb) * q = N * x
    BY <1>1
  <2> HIDE DEF w, q, T, E, N
  <2> QED  BY <2>1, <2>2, <2>3, <2>4
<1>8. out * u <= N * x
  <2>1. out * (T * w + fb * q) <= (fb * Sb) * q
    <3> HIDE DEF T, w, q, fb, Sb
    <3> QED  BY <1>1, <1>4, <1>5, <1>6, TwoLegsBelow
  <2> HIDE DEF T, w, q, fb, Sb, u, N
  <2> QED  BY <1>7, <2>1
<1>9. Rb * (N * x) <= u * (Rb * (out + 1) + Sb)
  <2>1. Rb * ((fb * Sb) * q) <= ((Rb * k) * w + fb * q) * (Rb * (out + 1) + Sb)
    <3>1. (y * fb) * Sb <= (Rb * k + y * fb) * (out + 1)
      BY <1>4 DEF T
    <3> HIDE DEF w, q, fb, Sb, Rb, k
    <3> QED  BY <1>1, <1>4, <1>5, <3>1, TwoLegsAbove
  <2> HIDE DEF w, q, fb, Sb, Rb, k, u, N
  <2> QED  BY <1>7, <2>1 DEF T
<1> HIDE DEF u, N
<1>10. /\ out \in Nat
       /\ out * u <= N * x
       /\ Rb * (N * x) <= u * (Rb * (out + 1) + Sb)
  BY <1>4, <1>8, <1>9
<1> QED  BY <1>2, <1>10 DEF u, N

\* What integer steps may cost between two pools.
SlackOf(a, b, z) ==
    2 + Out(b, ~z) \div In(b, ~z) + Out(a, z) \div (In(a, z) * In(b, ~z))

\* No input on two pools earns more than the closed form's, integer steps
\* aside.
LEMMA TradeNearBest ==
    ASSUME NEW a, NEW b, TypedPool(a), TypedPool(b), NEW z \in BOOLEAN,
           0 \notin {a.reserve0, a.reserve1, b.reserve0, b.reserve1},
           OptimalV2V2(a, b, z) # Failed,
           NEW i \in Nat
    PROVE  Gain(TwoLegs(a, b, i, z), i) <= GrossProfit(OptimalV2V2(a, b, z)) + SlackOf(a, b, z)
<1> DEFINE fa  == FeeComplement(a)
           fb  == FeeComplement(b)
           Ra  == In(a, z)
           Sa  == Out(a, z)
           Rb  == In(b, ~z)
           Sb  == Out(b, ~z)
           E   == fa * (Rb * OneK + fb * Sa)
           D   == OneK * ((Ra * Rb) * OneK)
           N   == (fa * fb) * (Sa * Sb)
           trade == OptimalV2V2(a, b, z)
           gross == GrossProfit(trade)
           outI  == TwoLegs(a, b, i, z)
           priceB == Sb \div Rb
           dustA  == Sa \div (Ra * Rb)
<1>1. /\ fa \in 0 .. OneK /\ fb \in 0 .. OneK /\ OneK \in Nat /\ 3 <= OneK
      /\ Ra \in Nat \ {0} /\ Sa \in Nat \ {0} /\ Rb \in Nat \ {0} /\ Sb \in Nat \ {0}
  <2>1. 0 \notin {Ra, Sa, Rb, Sb}
    BY DEF In, Out
  <2>2. Ra \in Nat /\ Sa \in Nat /\ Rb \in Nat /\ Sb \in Nat
    BY SidesTyped, WordsPartial
  <2>3. fa \in 0 .. OneK /\ fb \in 0 .. OneK /\ OneK \in Nat
    BY ComplementTyped, ScalesAre
  <2> HIDE DEF Ra, Sa, Rb, Sb, fa, fb
  <2> QED  BY <2>1, <2>2, <2>3, ScaleIsFine
<1>2. priceB \in Nat /\ dustA \in Nat /\ SlackOf(a, b, z) = 2 + priceB + dustA
  <2>1. priceB \in Nat /\ dustA \in Nat
    <3> HIDE DEF Ra, Sa, Rb, Sb
    <3>1. Ra * Rb \in Nat \ {0}
      BY <1>1
    <3> QED  BY <1>1, <3>1, QuotientBound
  <2> QED  BY <2>1 DEF SlackOf
<1>3. gross \in Nat
  <2>1. CASE trade = NoTrade
    <3> HIDE DEF trade
    <3> QED  BY <2>1 DEF GrossProfit, Gain, NoTrade
  <2>2. CASE trade # NoTrade
    <3>1. trade.in \in Words /\ trade.out \in Words
      BY <2>2, OptimalTyped
    <3>2. trade.in \in Nat /\ trade.out \in Nat
      <4> HIDE DEF trade
      <4> QED  BY <3>1, WordsPartial
    <3> HIDE DEF trade
    <3> QED  BY <3>2 DEF GrossProfit, Gain
  <2> QED  BY <2>1, <2>2
\* Where the input earns nothing there is nothing to show.
<1> SUFFICES Gain(outI, i) <= gross + SlackOf(a, b, z)
  OBVIOUS
<1>4. CASE outI = Overflow \/ outI <= i
  <2>1. outI = Overflow \/ outI \in Nat
    <3>1. Ra # 0 /\ Rb # 0
      <4> HIDE DEF Ra, Rb
      <4> QED  BY <1>1
    <3> QED  BY <3>1, TwoLegsBounds
  <2>2. Gain(outI, i) = 0
    <3> HIDE DEF outI
    <3> QED  BY <1>4, <2>1 DEF Gain, Overflow
  <2> HIDE DEF outI, gross, priceB, dustA
  <2> QED  BY <1>2, <1>3, <2>2
<1>5. CASE outI # Overflow /\ ~ (outI <= i)
  <2>1. outI \in Nat /\ outI * (D + E * i) <= N * i
    <3> HIDE DEF Ra, Rb
    <3>1. Ra # 0 /\ Rb # 0
      BY <1>1
    <3> QED  BY <1>5, <3>1, TwoLegsBounds DEF Ra, Rb
  <2> DEFINE p == outI - i
  <2>2. p \in Nat /\ Gain(outI, i) = p
    <3> HIDE DEF outI
    <3> QED  BY <1>5, <2>1 DEF Gain
  <2>3. D \in Nat \ {0} /\ E \in Nat /\ N \in Nat
    <3> HIDE DEF fa, fb, Ra, Sa, Rb, Sb
    <3>1. fa \in Nat /\ fb \in Nat /\ OneK \in Nat \ {0}
      BY <1>1
    <3> QED  BY <1>1, <3>1
  <2>4. fa # 0 /\ fb # 0
    <3>0. SUFFICES ASSUME fa = 0 \/ fb = 0 PROVE FALSE
      OBVIOUS
    <3>1. N = 0
      <4>0. fa = 0 \/ fb = 0
        BY <3>0
      <4> HIDE DEF fa, fb, Sa, Sb
      <4>1. fa * fb = 0 /\ Sa * Sb \in Nat
        BY <1>1, <4>0
      <4> QED  BY <4>1
    <3> HIDE DEF outI, D, E, N
    <3>2. E * i \in Nat /\ outI \in Nat \ {0}
      BY <1>5, <2>1, <2>3
    <3>3. outI * (D + E * i) <= 0
      BY <2>1, <3>1
    <3> DEFINE v == D + E * i
    <3>4. v \in Nat \ {0} /\ outI * v <= 0
      BY <2>3, <3>2, <3>3
    <3> HIDE DEF v
    <3> QED  BY <3>2, <3>4
  <2>5. PICK x \in Nat : Answers(a, b, z, trade, x)
    <3>1. 0 \notin {FeeComplement(a), FeeComplement(b)}
      BY <2>4
    <3> QED  BY <3>1, OptimalAnswers
  <2> DEFINE u == D + E * x
  <2>6. /\ x # 0 => p * u <= x * (N - u) + u
        /\ x = 0 => p <= 2 + dustA
    <3> DEFINE ins    == Ra * Rb
               sub    == ins * OneK
               square == (fa * ins) * (fb * (Sa * Sb))
    <3>1. PICK r \in Nat :
             /\ r * r <= square /\ square < (r + 1) * (r + 1)
             /\ OneK * (r - sub) < E * (x + 1)
             /\ x # 0 => E * x <= OneK * (r - sub)
      BY <2>5 DEF Answers, WholeInput
    <3>2. p * (D + E * i) <= i * (N - (D + E * i))
      <4> HIDE DEF outI, D, E, N
      <4> DEFINE v == D + E * i
      <4>1. v \in Nat /\ outI * v <= N * i
        BY <2>1, <2>3
      <4> HIDE DEF v
      <4>2. p * v = outI * v - i * v /\ i * (N - v) = N * i - i * v
        BY <2>1, <2>3, <4>1
      <4>3. outI * v \in Int /\ i * v \in Int /\ N * i \in Int
        BY <2>1, <2>3, <4>1
      <4>4. p * v <= i * (N - v)
        BY <4>1, <4>2, <4>3
      <4> QED  BY <4>4 DEF v
    <3>3. fa \in 1 .. OneK /\ fb \in 1 .. OneK /\ p \in Int
      <4> HIDE DEF fa, fb, p
      <4> QED  BY <1>1, <2>2, <2>4
    <3> HIDE DEF fa, fb, Ra, Sa, Rb, Sb, p, E, D, N, sub, square
    <3>5. LET uu == D + E * x
          IN  /\ x # 0 => p * uu <= x * (N - uu) + uu
              /\ x = 0 => p <= 2 + Sa \div (Ra * Rb)
      <4>1. ClosedForm(OneK, fa, fb, Ra, Sa, Rb, Sb, D, E, N, r, x)
        <5>1. /\ E = fa * (Rb * OneK + fb * Sa)
              /\ D = OneK * ((Ra * Rb) * OneK)
              /\ N = (fa * fb) * (Sa * Sb)
          BY DEF E, D, N
        <5> QED  BY <1>1, <3>1, <3>3, <5>1 DEF ClosedForm, sub, square
      <4>2. Earns(D, E, N, i, p)
        BY <3>2, <3>3 DEF Earns
      <4> QED  BY <4>1, <4>2, ClosedFormPeaks
    <3> QED  BY <3>5
  <2>7. CASE x = 0
    <3> HIDE DEF outI, gross, priceB, dustA, p
    <3>1. p <= 2 + dustA
      BY <2>6, <2>7
    <3> QED  BY <1>2, <1>3, <2>2, <3>1
  <2>8. CASE x # 0
    <3> DEFINE out == TwoLegs(a, b, x, z)
    <3>1. trade = [in |-> x, out |-> out] /\ out # Overflow
      BY <2>5, <2>8 DEF Answers
    <3>2. out \in Nat /\ Rb * (N * x) <= u * (Rb * (out + 1) + Sb)
      <4> HIDE DEF Ra, Rb
      <4>1. Ra # 0 /\ Rb # 0
        BY <1>1
      <4> QED  BY <3>1, <4>1, TwoLegsBounds DEF Ra, Rb
    <3>3. u \in Nat \ {0}
      <4> HIDE DEF D, E
      <4>1. E * x \in Nat
        BY <2>3
      <4> QED  BY <2>3, <4>1
    <3>4. p <= (out - x) + 2 + priceB
      <4>1. p * u <= x * (N - u) + u
        BY <2>6, <2>8
      <4>2. p \in Int
        <5> HIDE DEF p
        <5> QED  BY <2>2
      <4> HIDE DEF p, u, N, Rb, Sb, out
      <4> QED  BY <1>1, <2>3, <3>2, <3>3, <4>1, <4>2, RoundedProfit
    <3>5. out - x <= gross
      <4> HIDE DEF trade, out
      <4>1. gross = Gain(out, x)
        BY <3>1 DEF GrossProfit
      <4> QED  BY <3>2, <4>1 DEF Gain
    <3> HIDE DEF outI, gross, priceB, dustA, p, out
    <3> QED  BY <1>2, <1>3, <2>2, <3>2, <3>4, <3>5
  <2> QED  BY <2>7, <2>8
<1> QED  BY <1>4, <1>5

\* Gas has a price in whole units.
LEMMA GasCostTyped ==
    ASSUME NEW gasPrice \in GasPrices
    PROVE  GasCost(gasPrice) \in Nat /\ MinProfitWei \in Nat
<1>1. /\ gasPrice + 1 \in Nat /\ GasEstimateLimit \in Nat /\ L1Fee \in Nat
      /\ MinProfitWei \in Nat
  BY PricingTyped, OptimizerTyped
<1>2. (gasPrice + 1) * GasEstimateLimit \in Nat
  BY <1>1
<1> QED  BY <1>1, <1>2 DEF GasCost, EstimateGasCostWei, OurGasPrice

\* The gross profit of an answered trade is a word.
LEMMA GrossTyped ==
    ASSUME NEW a, NEW b, TypedPool(a), TypedPool(b), NEW z \in BOOLEAN,
           OptimalV2V2(a, b, z) # Failed
    PROVE  GrossProfit(OptimalV2V2(a, b, z)) \in 0 .. MaxWord
<1> DEFINE trade == OptimalV2V2(a, b, z)
<1>1. CASE trade = NoTrade
  <2> HIDE DEF trade
  <2>1. GrossProfit(trade) = 0
    BY <1>1 DEF GrossProfit, Gain, NoTrade
  <2> QED  BY <2>1, MaxWordTyped DEF trade
<1>2. CASE trade # NoTrade
  <2>1. trade.in \in Words /\ trade.out \in Words
    BY <1>2, OptimalTyped
  <2> HIDE DEF trade
  <2>2. GrossProfit(trade) \in 0 .. MaxWord
    BY <2>1, MaxWordTyped DEF GrossProfit, Gain, Words
  <2> QED  BY <2>2 DEF trade
<1> QED  BY <1>1, <1>2

\* A set of words that is not empty has a largest one.
LEMMA LargestWord ==
    ASSUME NEW W \in SUBSET (0 .. MaxWord), NEW w \in W
    PROVE  \E m \in W : \A v \in W : v <= m
<1> DEFINE T == { k \in Nat : \E v \in W : k = MaxWord - v }
<1>1. MaxWord \in Nat
  BY MaxWordTyped
<1> HIDE DEF MaxWord
<1>2. MaxWord - w \in T
  BY <1>1
<1>3. PICK n \in T : \A k \in T : n <= k
  <2> HIDE DEF T
  <2>1. T \in SUBSET Nat
    BY DEF T
  <2> QED  BY <1>2, <2>1, LeastNatural
<1>4. PICK m \in W : n = MaxWord - m
  BY <1>3
<1>5. ASSUME NEW v \in W PROVE v <= m
  <2>1. MaxWord - v \in T
    BY <1>1
  <2>2. n <= MaxWord - v
    BY <1>3, <2>1
  <2> QED  BY <1>1, <1>4, <2>2
<1> QED  BY <1>4, <1>5

\* A signal carries the largest gross profit of all candidates, and without one
\* no candidate pays for gas and margin.
LEMMA BestIsSignalled ==
    ASSUME ReservesTyped, NEW a \in Pools, NEW z \in BOOLEAN, NEW gasPrice \in GasPrices,
           NEW after \in [reserve0 : Words, reserve1 : Words],
           ~ OptimizerFails(a, after, z),
           NEW b \in Candidates(a)
    PROVE  LET gross == GrossProfit(TradeWith(b, a, after, z))
           IN  /\ \A s \in Signals(a, after, z, gasPrice) : gross <= s.grossProfit
               /\ Signals(a, after, z, gasPrice) = {}
                     => gross <= GasCost(gasPrice) + MinProfitWei
<1> DEFINE trade(c) == TradeWith(c, a, after, z)
           gross(c) == GrossProfit(trade(c))
           paying   == { c \in Candidates(a) : PaysOff(gross(c), gasPrice) }
           best     == { c \in paying : \A d \in paying : gross(d) <= gross(c) }
           cost     == GasCost(gasPrice)
<1>1. cost \in Nat /\ MinProfitWei \in Nat
  BY GasCostTyped
<1>2. \A c \in Candidates(a) : gross(c) \in 0 .. MaxWord
  <2> SUFFICES ASSUME NEW c \in Candidates(a) PROVE gross(c) \in 0 .. MaxWord
    OBVIOUS
  <2>1. c \in Pools /\ trade(c) # Failed
    BY DEF Candidates, OptimizerFails
  <2>2. TypedPool(PoolWith(a, after)) /\ TypedPool(PoolNow(c))
    <3>1. reserves[c] \in [reserve0 : Words, reserve1 : Words]
      BY <2>1 DEF ReservesTyped
    <3> QED  BY <2>1, <3>1, PoolsTyped DEF PoolNow
  <2>3. (~z) \in BOOLEAN
    BY NegationTyped
  <2>4. trade(c) = OptimalV2V2(PoolWith(a, after), PoolNow(c), ~z)
    BY DEF TradeWith, OurDirection
  <2> HIDE DEF trade
  <2>5. GrossProfit(OptimalV2V2(PoolWith(a, after), PoolNow(c), ~z)) \in 0 .. MaxWord
    BY <2>1, <2>2, <2>3, <2>4, GrossTyped
  <2> QED  BY <2>4, <2>5
<1>3. \A s \in Signals(a, after, z, gasPrice) : \E c \in best : s.grossProfit = gross(c)
  BY DEF Signals
<1>4. Signals(a, after, z, gasPrice) = {} => best = {}
  BY DEF Signals
<1>5. best = {} => paying = {}
  <2> DEFINE W == { gross(c) : c \in paying }
  <2> SUFFICES ASSUME NEW c0 \in paying PROVE best # {}
    OBVIOUS
  <2> HIDE DEF gross
  <2>1. gross(c0) \in W /\ W \in SUBSET (0 .. MaxWord)
    BY <1>2
  <2>2. PICK m \in W : \A v \in W : v <= m
    <3> HIDE DEF W
    <3> QED  BY <2>1, LargestWord
  <2>3. PICK c \in paying : m = gross(c)
    BY <2>2
  <2>4. c \in best
    BY <2>2, <2>3
  <2> QED  BY <2>4
<1> HIDE DEF gross
<1>6. ~ PaysOff(gross(b), gasPrice) => gross(b) <= cost + MinProfitWei
  <2>1. gross(b) \in Nat
    BY <1>2, MaxWordTyped
  <2> HIDE DEF cost
  <2>2. ~ (gross(b) > cost /\ gross(b) - cost >= MinProfitWei)
           => gross(b) <= cost + MinProfitWei
    BY <1>1, <2>1
  <2> QED  BY <2>2 DEF PaysOff, cost
<1>7. ASSUME NEW c \in best PROVE gross(b) <= gross(c)
  <2>1. CASE b \in paying
    BY <1>7, <2>1
  <2>2. CASE b \notin paying
    <3>1. PaysOff(gross(c), gasPrice) /\ c \in Candidates(a)
      BY <1>7
    <3>2. gross(c) >= cost + MinProfitWei
      <4>1. gross(c) \in Nat
        BY <1>2, <3>1, MaxWordTyped
      <4>2. gross(c) - cost >= MinProfitWei
        BY <3>1 DEF PaysOff
      <4> HIDE DEF cost
      <4> QED  BY <1>1, <4>1, <4>2
    <3>3. gross(b) <= cost + MinProfitWei
      BY <1>6, <2>2
    <3>4. gross(b) \in Nat /\ gross(c) \in Nat
      BY <1>2, <3>1, MaxWordTyped
    <3> HIDE DEF cost
    <3> QED  BY <1>1, <3>2, <3>3, <3>4
  <2> QED  BY <2>1, <2>2
<1>8. /\ \A s \in Signals(a, after, z, gasPrice) : gross(b) <= s.grossProfit
      /\ Signals(a, after, z, gasPrice) = {} => gross(b) <= cost + MinProfitWei
  <2> HIDE DEF best
  <2>1. Signals(a, after, z, gasPrice) = {} => ~ PaysOff(gross(b), gasPrice)
    BY <1>4, <1>5
  <2> QED  BY <1>3, <1>6, <1>7, <2>1
<1> QED  BY <1>8 DEF gross, cost

\* After an evaluation that committed, no input on any pair of pools it looked
\* at earns more than its signal, or than gas and margin if it gave none, by
\* more than integer steps cost: for every registry, tier, amount, threshold
\* and width of a word.
THEOREM NothingMissedHolds == Spec => []NothingMissed
<1>1. Init => NothingMissed
  BY DEF Init, NothingMissed
<1>2. ReservesTyped /\ NothingMissed /\ [Next]_vars => NothingMissed'
  <2> SUFFICES ASSUME ReservesTyped, NothingMissed, [Next]_vars PROVE NothingMissed'
    OBVIOUS
  <2>1. CASE UNCHANGED vars
    BY <2>1 DEF vars, NothingMissed, Inputs, GrossOf, Slack, Spot, PoolNow
  <2>2. ASSUME NEW p \in Pools, NEW amount \in Amounts, NEW z \in BOOLEAN,
               EvaluateFails(p, amount, z)
        PROVE  NothingMissed'
    BY <2>2 DEF EvaluateFails, NothingMissed
  <2>3. ASSUME NEW p \in Pools, NEW amount \in Amounts, NEW z \in BOOLEAN,
               NEW gasPrice \in GasPrices, EvaluateCommits(p, amount, z, gasPrice)
        PROVE  NothingMissed'
    <3> DEFINE after == ReservesOf(Simulate(p, amount, z))
    <3>1. /\ Simulate(p, amount, z) # NoSwap /\ ~ OptimizerFails(p, after, z)
          /\ reserves' = [reserves EXCEPT ![p] = after]
          /\ \/ Signals(p, after, z, gasPrice) = {} /\ signal' = {}
             \/ \E s \in Signals(p, after, z, gasPrice) : signal' = {s}
          /\ last' = {[pool |-> p, zeroForOne |-> z, gasPrice |-> gasPrice]}
      <4> DEFINE signals == Signals(p, after, z, gasPrice)
      <4>1. IF signals = {} THEN signal' = {} ELSE \E s \in signals : signal' = {s}
        BY <2>3 DEF EvaluateCommits
      <4>2. (signals = {} /\ signal' = {}) \/ \E s \in signals : signal' = {s}
        <5> HIDE DEF signals
        <5> QED  BY <4>1
      <4> QED  BY <2>3, <4>2 DEF EvaluateCommits
    <3>2. after \in [reserve0 : Words, reserve1 : Words]
      BY <3>1, SimulateTyped
    <3> HIDE DEF after
    <3> DEFINE l      == [pool |-> p, zeroForOne |-> z, gasPrice |-> gasPrice]
               earned == IF signal' = {} THEN GasCost(gasPrice) + MinProfitWei
                         ELSE (CHOOSE s \in signal' : TRUE).grossProfit
    <3>3. SUFFICES ASSUME NEW b \in Candidates(p),
                          0 \notin {reserves'[b].reserve0, reserves'[b].reserve1},
                          NEW i \in Inputs(p, ~z)'
                   PROVE  GrossOf(p, b, i, ~z)' <= earned + Slack(p, b, ~z)'
      BY <3>1 DEF NothingMissed, Candidates, OurDirection
    <3>4. /\ b \in Pools /\ b # p /\ Protocol[p] = "V2"
          /\ reserves'[p] = after /\ reserves'[b] = reserves[b]
      <4>1. b \in Pools /\ b # p /\ Protocol[p] = "V2"
        BY DEF Candidates
      <4> QED  BY <3>1, <4>1 DEF ReservesTyped
    <3> DEFINE poolA == PoolWith(p, after)
               poolB == PoolNow(b)
    <3>5. PoolNow(p)' = poolA /\ PoolNow(b)' = poolB
      BY <3>4 DEF PoolNow, PoolWith
    <3>6. /\ TypedPool(poolA) /\ TypedPool(poolB)
          /\ 0 \notin {poolA.reserve0, poolA.reserve1, poolB.reserve0, poolB.reserve1}
      <4>1. reserves[b] \in [reserve0 : Words, reserve1 : Words]
        BY <3>4 DEF ReservesTyped
      <4>2. TypedPool(poolA) /\ TypedPool(poolB)
        BY <3>2, <3>4, <4>1, PoolsTyped DEF PoolNow
      <4>3. after.reserve0 # 0 /\ after.reserve1 # 0
        BY <2>3, <3>4, CommitKeepsProduct
      <4>4. 0 \notin {reserves[b].reserve0, reserves[b].reserve1}
        BY <3>3, <3>4
      <4> QED  BY <4>2, <4>3, <4>4 DEF PoolNow, PoolWith
    <3> DEFINE trade == OptimalV2V2(poolA, poolB, ~z)
               gross == GrossProfit(trade)
    <3>7. /\ trade # Failed
          /\ \A s \in Signals(p, after, z, gasPrice) : gross <= s.grossProfit
          /\ Signals(p, after, z, gasPrice) = {} => gross <= GasCost(gasPrice) + MinProfitWei
      <4>1. TradeWith(b, p, after, z) = trade
        BY DEF TradeWith, OurDirection
      <4>2. trade # Failed
        <5> HIDE DEF trade
        <5> QED  BY <3>1, <4>1 DEF OptimizerFails
      <4> HIDE DEF trade
      <4>3. LET g == GrossProfit(TradeWith(b, p, after, z))
            IN  /\ \A s \in Signals(p, after, z, gasPrice) : g <= s.grossProfit
                /\ Signals(p, after, z, gasPrice) = {}
                     => g <= GasCost(gasPrice) + MinProfitWei
        BY <3>1, <3>2, BestIsSignalled
      <4> QED  BY <4>1, <4>2, <4>3
    <3>8. gross <= earned /\ earned \in Nat
      <4> HIDE DEF trade, gross
      <4>1. CASE Signals(p, after, z, gasPrice) = {} /\ signal' = {}
        BY <3>7, <4>1, GasCostTyped
      <4>2. CASE \E s \in Signals(p, after, z, gasPrice) : signal' = {s}
        <5>1. PICK s \in Signals(p, after, z, gasPrice) : signal' = {s}
          BY <4>2
        <5>2. earned = s.grossProfit
          BY <5>1
        <5>3. s \in SignalType
          BY <3>1, <3>2, SignalsAre
        <5>4. s.grossProfit \in Nat
          BY <5>3, MaxWordTyped DEF SignalType
        <5> QED  BY <3>7, <5>2, <5>4
      <4> QED  BY <3>1, <4>1, <4>2
    <3>9. /\ Slack(p, b, ~z)' = SlackOf(poolA, poolB, ~z)
          /\ SlackOf(poolA, poolB, ~z) \in Int
      <4> DEFINE priceB == Out(poolB, ~~z) \div In(poolB, ~~z)
                 dustA  == Out(poolA, ~z) \div (In(poolA, ~z) * In(poolB, ~~z))
      <4>1. Slack(p, b, ~z)' = 1 + (1 + priceB) + dustA
        <5> HIDE DEF poolA, poolB
        <5> QED  BY <3>5 DEF Slack, Spot
      <4>2. priceB \in Int /\ dustA \in Int
        <5> HIDE DEF poolA, poolB
        <5>1. /\ In(poolA, ~z) \in Nat /\ Out(poolA, ~z) \in Nat
              /\ In(poolB, ~~z) \in Nat /\ Out(poolB, ~~z) \in Nat
          BY <3>6, SidesTyped, WordsPartial
        <5>2. In(poolA, ~z) # 0 /\ In(poolB, ~~z) # 0
          BY <3>6 DEF In
        <5> DEFINE ra == In(poolA, ~z)
                   rb == In(poolB, ~~z)
                   sa == Out(poolA, ~z)
                   sb == Out(poolB, ~~z)
        <5>3. ra \in Nat \ {0} /\ rb \in Nat \ {0} /\ sa \in Nat /\ sb \in Nat
          BY <5>1, <5>2
        <5> HIDE DEF ra, rb, sa, sb
        <5>4. ra * rb \in Nat \ {0}
          BY <5>3
        <5>5. sb \div rb \in Int /\ sa \div (ra * rb) \in Int
          BY <5>3, <5>4, QuotientBound
        <5> QED  BY <5>5 DEF ra, rb, sa, sb
      <4> HIDE DEF priceB, dustA
      <4>3. 1 + (1 + priceB) + dustA = 2 + priceB + dustA
        BY <4>2
      <4>4. SlackOf(poolA, poolB, ~z) = 2 + priceB + dustA
        BY DEF SlackOf, priceB, dustA
      <4> QED  BY <4>1, <4>2, <4>3, <4>4
    <3>10. /\ Gain(TwoLegs(poolA, poolB, i, ~z), i) <= gross + SlackOf(poolA, poolB, ~z)
           /\ Gain(TwoLegs(poolA, poolB, i, ~z), i) \in Int /\ gross \in Int
      <4>1. i \in Nat
        <5>1. i \in 1 .. In(poolA, ~z)
          BY <3>5 DEF Inputs
        <5>2. In(poolA, ~z) \in Nat
          BY <3>6, SidesTyped, WordsPartial
        <5> QED  BY <5>1, <5>2
      <4>2. (~z) \in BOOLEAN
        BY NegationTyped
      <4> HIDE DEF poolA, poolB
      <4>3. Gain(TwoLegs(poolA, poolB, i, ~z), i) <= gross + SlackOf(poolA, poolB, ~z)
        BY <3>6, <3>7, <4>1, <4>2, TradeNearBest
      <4>4. gross \in Int
        <5>1. gross \in 0 .. MaxWord
          BY <3>6, <3>7, <4>2, GrossTyped
        <5> HIDE DEF gross
        <5> QED  BY <5>1, MaxWordTyped
      <4>5. TwoLegs(poolA, poolB, i, ~z) \in Partial(Nat)
        <5>1. (~~z) \in BOOLEAN
          BY <4>2, NegationTyped
        <5>2. i \in Partial(Nat)
          BY <4>1, WordsPartial
        <5> QED  BY <3>6, <4>2, <5>1, <5>2, LegOutTyped, WordsPartial DEF TwoLegs
      <4>6. Gain(TwoLegs(poolA, poolB, i, ~z), i) \in Int
        BY <4>1, <4>5 DEF Gain, Partial, Overflow
      <4> QED  BY <4>3, <4>4, <4>6
    <3>11. GrossOf(p, b, i, ~z)' = Gain(TwoLegs(poolA, poolB, i, ~z), i)
      <4> HIDE DEF poolA, poolB
      <4> QED  BY <3>5 DEF GrossOf
    <3> DEFINE slack == SlackOf(poolA, poolB, ~z)
               gain  == Gain(TwoLegs(poolA, poolB, i, ~z), i)
    <3>12. gain <= earned + slack
      <4>1. gain <= gross + slack /\ slack \in Int /\ gain \in Int /\ gross \in Int
        BY <3>9, <3>10
      <4> HIDE DEF gain, slack, earned, gross
      <4> QED  BY <3>8, <4>1
    <3> QED  BY <3>9, <3>11, <3>12
  <2> QED  BY <2>1, <2>2, <2>3 DEF Next
<1> QED  BY <1>1, <1>2, TypesInit, TypesStep, PTL DEF Spec

-----------------------------------------------------------------------------
(* What the ternary searches find.  The curve of one leg, or of several in  *)
(* a row, is concave; rounding each leg down makes it concave but for a     *)
(* noise; clamping losses to zero hides on which side of the peak two       *)
(* losing probes are.  The invariant of the iterations says what they may   *)
(* have dropped nevertheless.                                               *)

\* On an almost concave curve, a point is not far above the chord through two
\* others: d and g are the distances from the middle point to the near and to
\* the far one.
LEMMA ChordBounds ==
    ASSUME NEW d \in Nat \ {0}, NEW g \in Nat, NEW K \in Nat, NEW j \in Nat,
           NEW a \in Int, NEW b \in Int, NEW c \in Int,
           d * a + g * c <= (d + g) * b, b - c <= j, g <= K * d
    PROVE  a <= b + K * j
<1>1. g * (b - c) <= g * j
  <2>1. b - c \in Int /\ j \in Int
    OBVIOUS
  <2> QED  BY <2>1, FactorsGrow
<1>2. g * j <= (K * d) * j
  <2>1. K * d \in Int
    OBVIOUS
  <2> QED  BY <2>1, FactorsGrow
<1>3. /\ (d + g) * b = d * b + g * b /\ g * (b - c) = g * b - g * c
      /\ (K * d) * j = d * (K * j) /\ d * (b + K * j) = d * b + d * (K * j)
  <2>1. K * j \in Int
    OBVIOUS
  <2>2. (K * d) * j = d * (K * j)
    OBVIOUS
  <2>3. d * (b + K * j) = d * b + d * (K * j)
    BY <2>1
  <2> QED  BY <2>2, <2>3
<1>4. /\ d * a \in Int /\ d * b \in Int /\ g * b \in Int /\ g * c \in Int
      /\ g * j \in Int /\ d * (K * j) \in Int /\ K * j \in Int
  OBVIOUS
<1>5. d * a <= d * (b + K * j)
  BY <1>1, <1>2, <1>3, <1>4
<1> QED  BY <1>4, <1>5, TimesCancels

\* What a curve of outputs is to an exact one, N * x / (D + E * x): below it,
\* by no more than e.
Near(D, E, N, e, x, y) ==
    /\ y \in Nat
    /\ (D + E * x) * y <= N * x
    /\ N * x <= (D + E * x) * (y + e)

\* The exact curve is concave: its chord from x to z runs below it.
LEMMA CurveConcave ==
    ASSUME NEW D \in Nat, NEW E \in Nat, NEW x \in Nat, NEW y \in Nat, NEW z \in Nat,
           x < y, y < z
    PROVE  LET u == D + E * x
               v == D + E * y
               w == D + E * z
           IN  (z - y) * (x * (v * w)) + (y - x) * (z * (u * v)) <= (z - x) * (y * (u * w))
OBVIOUS

\* A leg sells what the legs before it bought, within e units of the exact
\* output q over w: the noise it passes on is e units at its own price s, and
\* the unit it rounds away itself.
LEMMA NoisyLeg ==
    ASSUME NEW R \in Nat \ {0}, NEW k \in Nat \ {0}, NEW f \in 0 .. k,
           NEW w \in Nat \ {0}, NEW S \in Nat, NEW s \in Nat, NEW e \in Nat, S <= R * s,
           NEW q \in Nat, NEW y \in Nat, NEW z \in Nat,
           w * y <= q, q <= w * (y + e),
           (y * f) * S <= (R * k + y * f) * (z + 1)
    PROVE  (f * S) * q <= ((R * k) * w + f * q) * (z + 1 + e * s)
<1> DEFINE T == R * k
           v == T + y * f
           u == T * w + f * q
           es == e * s
<1>1. /\ T \in Nat \ {0} /\ v \in Nat \ {0} /\ u \in Nat \ {0} /\ es \in Nat
      /\ f \in Nat /\ T * w \in Nat /\ y * f \in Nat /\ f * q \in Nat /\ f * S \in Nat
  OBVIOUS
\* What it sells, times both denominators.
<1>2. u * ((y * f) * S) <= u * (v * (z + 1))
  <2>1. (y * f) * S \in Int /\ v * (z + 1) \in Int
    BY <1>1
  <2> HIDE DEF u
  <2> QED  BY <1>1, <2>1, FactorsGrow
\* What the noise of its input costs.
<1>3. (f * S) * (q - w * y) <= T * (w * es)
  <2>1. f * S <= T * s
    <3>1. f * S <= f * (R * s)
      <4>1. R * s \in Int
        OBVIOUS
      <4> QED  BY <1>1, <4>1, FactorsGrow
    <3>2. f * (R * s) <= k * (R * s) /\ k * (R * s) = T * s
      <4>1. R * s \in Nat /\ f <= k
        OBVIOUS
      <4>2. f * (R * s) <= k * (R * s)
        BY <1>1, <4>1, FactorsGrow
      <4> QED  BY <4>2
    <3>3. f * (R * s) \in Int /\ T * s \in Int
      BY <1>1
    <3> HIDE DEF T
    <3> QED  BY <1>1, <3>1, <3>2, <3>3
  <2>2. q - w * y \in Nat /\ q - w * y <= w * e
    <3>1. w * (y + e) = w * y + w * e /\ w * y \in Int /\ w * e \in Int
      OBVIOUS
    <3> QED  BY <3>1
  <2>3. (f * S) * (q - w * y) <= (T * s) * (q - w * y)
    <3>1. T * s \in Int
      BY <1>1
    <3> HIDE DEF T
    <3> QED  BY <1>1, <2>1, <2>2, <3>1, FactorsGrow
  <2>4. (T * s) * (q - w * y) <= (T * s) * (w * e)
    <3>1. T * s \in Nat /\ w * e \in Int
      BY <1>1
    <3> HIDE DEF T
    <3> QED  BY <2>2, <3>1, FactorsGrow
  <2>5. (T * s) * (w * e) = T * (w * es)
    <3> HIDE DEF T
    <3> QED  BY <1>1
  <2>6. /\ (f * S) * (q - w * y) \in Int /\ (T * s) * (q - w * y) \in Int
        /\ (T * s) * (w * e) \in Int
    BY <1>1, <2>2
  <2> HIDE DEF T, es
  <2> QED  BY <2>3, <2>4, <2>5, <2>6
<1>4. T * (T * (w * es)) <= v * (u * es)
  <2>1. w * es \in Nat /\ T * w <= u /\ T <= v
    BY <1>1
  <2> HIDE DEF T, u, v, es
  <2>2. (T * w) * es <= u * es
    <3>1. T * w \in Int /\ u \in Int
      BY <1>1
    <3> QED  BY <1>1, <2>1, <3>1, FactorsGrow
  <2>3. T * ((T * w) * es) <= T * (u * es) /\ T * (u * es) <= v * (u * es)
    <3>1. (T * w) * es \in Int /\ u * es \in Nat
      BY <1>1
    <3> QED  BY <1>1, <2>1, <2>2, <3>1, FactorsGrow
  <2>4. T * (T * (w * es)) = T * ((T * w) * es)
    BY <1>1
  <2>5. T * ((T * w) * es) \in Int /\ T * (u * es) \in Int /\ v * (u * es) \in Int
    BY <1>1
  <2> QED  BY <2>3, <2>4, <2>5
<1>5. v * ((f * S) * q) <= v * (u * (z + 1 + es))
  <2>1. T * ((f * S) * (q - w * y)) <= T * (T * (w * es))
    <3>1. (f * S) * (q - w * y) \in Int /\ T * (w * es) \in Int
      BY <1>1
    <3> HIDE DEF T, es
    <3> QED  BY <1>1, <1>3, <3>1, FactorsGrow
  <2>2. v * ((f * S) * q) = T * ((f * S) * (q - w * y)) + u * ((y * f) * S)
    <3> HIDE DEF T
    <3>1. v * ((f * S) * q) = T * ((f * S) * q) + (y * f) * ((f * S) * q)
      BY <1>1
    <3>2. u * ((y * f) * S) = (T * w) * ((y * f) * S) + (f * q) * ((y * f) * S)
      BY <1>1
    <3>3. T * ((f * S) * (q - w * y)) = T * ((f * S) * q) - (T * w) * ((y * f) * S)
      <4>1. (f * S) * (q - w * y) = (f * S) * q - (f * S) * (w * y)
        BY <1>1
      <4>2. T * ((f * S) * (w * y)) = (T * w) * ((y * f) * S)
        BY <1>1
      <4>3. (f * S) * q \in Int /\ (f * S) * (w * y) \in Int
        BY <1>1
      <4> QED  BY <1>1, <4>1, <4>2, <4>3
    <3>4. (y * f) * ((f * S) * q) = (f * q) * ((y * f) * S)
      BY <1>1
    <3>5. /\ T * ((f * S) * q) \in Int /\ (T * w) * ((y * f) * S) \in Int
          /\ (f * q) * ((y * f) * S) \in Int
      BY <1>1
    <3> HIDE DEF u, v
    <3> QED  BY <3>1, <3>2, <3>3, <3>4, <3>5
  <2>3. v * (u * (z + 1 + es)) = u * (v * (z + 1)) + v * (u * es)
    <3> HIDE DEF u, v, es
    <3> QED  BY <1>1
  <2>4. /\ T * ((f * S) * (q - w * y)) \in Int /\ T * (T * (w * es)) \in Int
        /\ u * ((y * f) * S) \in Int /\ u * (v * (z + 1)) \in Int /\ v * (u * es) \in Int
    BY <1>1
  <2> HIDE DEF T, u, v, es
  <2> QED  BY <1>2, <1>4, <2>1, <2>2, <2>3, <2>4
<1>6. (f * S) * q <= u * (z + 1 + es)
  <2>1. (f * S) * q \in Int /\ u * (z + 1 + es) \in Int
    BY <1>1
  <2> HIDE DEF u, v, es
  <2> QED  BY <1>1, <1>5, <2>1, TimesCancels
<1> QED  BY <1>6

\* Three inputs and what they buy: the noise is all that keeps the outputs
\* from being concave.
LEMMA NearConcave ==
    ASSUME NEW D \in Nat \ {0}, NEW E \in Nat, NEW N \in Nat, NEW e \in Nat,
           NEW x \in Nat, NEW y \in Nat, NEW z \in Nat, x < y, y < z,
           NEW a, NEW b, NEW c,
           Near(D, E, N, e, x, a), Near(D, E, N, e, y, b), Near(D, E, N, e, z, c)
    PROVE  (z - y) * a + (y - x) * c <= (z - x) * (b + e)
<1> DEFINE u == D + E * x
           v == D + E * y
           w == D + E * z
           l == z - y
           r == y - x
<1>1. /\ u \in Nat \ {0} /\ v \in Nat \ {0} /\ w \in Nat \ {0}
      /\ l \in Nat /\ r \in Nat /\ z - x = l + r /\ l + r \in Nat
  OBVIOUS
<1>2. /\ a \in Nat /\ b \in Nat /\ c \in Nat
      /\ u * a <= N * x /\ w * c <= N * z /\ N * y <= v * (b + e)
  BY DEF Near
<1>3. l * (x * (v * w)) + r * (z * (u * v)) <= (l + r) * (y * (u * w))
  BY CurveConcave
<1>4. /\ N * x \in Nat /\ N * y \in Nat /\ N * z \in Nat
      /\ v * w \in Nat /\ u * v \in Nat /\ u * w \in Nat
  BY <1>1
<1> HIDE DEF u, v, w, l, r
<1>5. (l * (v * w)) * (u * a) <= (l * (v * w)) * (N * x)
  <2>1. l * (v * w) \in Nat /\ u * a \in Int /\ N * x \in Int
    BY <1>1, <1>2, <1>4
  <2> QED  BY <1>2, <2>1, FactorsGrow
<1>6. (r * (u * v)) * (w * c) <= (r * (u * v)) * (N * z)
  <2>1. r * (u * v) \in Nat /\ w * c \in Int /\ N * z \in Int
    BY <1>1, <1>2, <1>4
  <2> QED  BY <1>2, <2>1, FactorsGrow
<1>7. ((l + r) * (u * w)) * (N * y) <= ((l + r) * (u * w)) * (v * (b + e))
  <2>1. (l + r) * (u * w) \in Nat /\ N * y \in Int /\ v * (b + e) \in Int
    BY <1>1, <1>2, <1>4
  <2> QED  BY <1>2, <2>1, FactorsGrow
<1>8. N * (l * (x * (v * w)) + r * (z * (u * v))) <= N * ((l + r) * (y * (u * w)))
  <2>1. l * (x * (v * w)) + r * (z * (u * v)) \in Int /\ (l + r) * (y * (u * w)) \in Int
    BY <1>1
  <2> QED  BY <1>3, <2>1, FactorsGrow
<1>9. /\ (l * (v * w)) * (N * x) + (r * (u * v)) * (N * z)
            = N * (l * (x * (v * w)) + r * (z * (u * v)))
      /\ ((l + r) * (u * w)) * (N * y) = N * ((l + r) * (y * (u * w)))
  <2>1. N * (l * (x * (v * w)) + r * (z * (u * v)))
          = N * (l * (x * (v * w))) + N * (r * (z * (u * v)))
    <3>1. l * (x * (v * w)) \in Int /\ r * (z * (u * v)) \in Int
      BY <1>1
    <3> QED  BY <3>1
  <2>2. N * (l * (x * (v * w))) = (l * (v * w)) * (N * x)
    BY <1>1
  <2>3. N * (r * (z * (u * v))) = (r * (u * v)) * (N * z)
    BY <1>1
  <2>4. ((l + r) * (u * w)) * (N * y) = N * ((l + r) * (y * (u * w)))
    <3> DEFINE m == l + r
    <3>1. m \in Nat
      BY <1>1
    <3> HIDE DEF m
    <3>2. (m * (u * w)) * (N * y) = N * (m * (y * (u * w)))
      BY <1>1, <3>1
    <3> QED  BY <3>2 DEF m
  <2> QED  BY <2>1, <2>2, <2>3, <2>4
<1>10. (u * (v * w)) * (l * a + r * c) <= (u * (v * w)) * ((l + r) * (b + e))
  <2>1. (u * (v * w)) * (l * a + r * c) = (l * (v * w)) * (u * a) + (r * (u * v)) * (w * c)
    <3>1. (u * (v * w)) * (l * a + r * c) = (u * (v * w)) * (l * a) + (u * (v * w)) * (r * c)
      <4>1. u * (v * w) \in Int /\ l * a \in Int /\ r * c \in Int
        BY <1>1, <1>2
      <4> QED  BY <4>1
    <3>2. (u * (v * w)) * (l * a) = (l * (v * w)) * (u * a)
      BY <1>1, <1>2
    <3>3. (u * (v * w)) * (r * c) = (r * (u * v)) * (w * c)
      BY <1>1, <1>2
    <3> QED  BY <3>1, <3>2, <3>3
  <2>2. (u * (v * w)) * ((l + r) * (b + e)) = ((l + r) * (u * w)) * (v * (b + e))
    <3> DEFINE m == l + r
               n == b + e
    <3>1. m \in Nat /\ n \in Nat
      BY <1>1, <1>2
    <3> HIDE DEF m, n
    <3>2. (u * (v * w)) * (m * n) = (m * (u * w)) * (v * n)
      BY <1>1, <3>1
    <3> QED  BY <3>2 DEF m, n
  <2>3. /\ (l * (v * w)) * (u * a) \in Int /\ (r * (u * v)) * (w * c) \in Int
        /\ (l * (v * w)) * (N * x) \in Int /\ (r * (u * v)) * (N * z) \in Int
        /\ ((l + r) * (u * w)) * (N * y) \in Int /\ ((l + r) * (u * w)) * (v * (b + e)) \in Int
    BY <1>1, <1>2
  <2> QED  BY <1>5, <1>6, <1>7, <1>8, <1>9, <2>1, <2>2, <2>3
<1>11. l * a + r * c <= (l + r) * (b + e)
  <2>1. u * (v * w) \in Nat \ {0}
    <3>1. v * w \in Nat \ {0}
      BY <1>1
    <3> QED  BY <1>1, <3>1
  <2>2. l * a + r * c \in Int /\ (l + r) * (b + e) \in Int
    BY <1>1, <1>2
  <2> QED  BY <1>10, <2>1, <2>2, TimesCancels
<1> QED  BY <1>1, <1>11 DEF l, r

\* The chord from x to z of h runs no more than e above y.
Chord(h, e, x, y, z) == (z - y) * h[x] + (y - x) * h[z] <= (z - x) * (h[y] + e)

\* A profit on the inputs up to H that is zero without a trade, and concave
\* but for a noise of e.
AlmostConcave(h, H, e) ==
    /\ h \in [0 .. H -> Int]
    /\ h[0] = 0
    /\ \A x, y, z \in 0 .. H : x < y /\ y < z => Chord(h, e, x, y, z)

\* ChordBounds with the far point to the right of the near one.
LEMMA BelowRightChord ==
    ASSUME NEW H \in Nat, NEW e \in Nat, NEW h, AlmostConcave(h, H, e),
           NEW x \in 0 .. H, NEW y \in 0 .. H, NEW z \in 0 .. H, x < y, y < z,
           NEW K \in Nat, NEW j \in Nat,
           y - x <= K * (z - y), h[y] + e - h[z] <= j
    PROVE  h[x] <= h[y] + e + K * j
<1> DEFINE d == z - y
           g == y - x
           b == h[y] + e
<1>1. d \in Nat \ {0} /\ g \in Nat /\ z - x = d + g
  OBVIOUS
<1>2. h[x] \in Int /\ h[y] \in Int /\ b \in Int /\ h[z] \in Int
  BY DEF AlmostConcave
<1>3. d * h[x] + g * h[z] <= (z - x) * b
  <2>1. Chord(h, e, x, y, z)
    BY DEF AlmostConcave
  <2> QED  BY <2>1 DEF Chord
<1>4. b - h[z] <= j
  BY <1>2
<1>7. g <= K * d
  OBVIOUS
<1> HIDE DEF d, g, b
<1>5. d * h[x] + g * h[z] <= (d + g) * b
  BY <1>1, <1>3
<1>6. h[x] <= b + K * j
  BY <1>1, <1>2, <1>4, <1>5, <1>7, ChordBounds
<1> QED  BY <1>6 DEF b

\* ChordBounds with the far point to the left of the near one.
LEMMA BelowLeftChord ==
    ASSUME NEW H \in Nat, NEW e \in Nat, NEW h, AlmostConcave(h, H, e),
           NEW x \in 0 .. H, NEW y \in 0 .. H, NEW z \in 0 .. H, x < y, y < z,
           NEW K \in Nat, NEW j \in Nat,
           z - y <= K * (y - x), h[y] + e - h[x] <= j
    PROVE  h[z] <= h[y] + e + K * j
<1> DEFINE d == y - x
           g == z - y
           b == h[y] + e
<1>1. d \in Nat \ {0} /\ g \in Nat /\ z - x = d + g
  OBVIOUS
<1>2. h[z] \in Int /\ h[y] \in Int /\ b \in Int /\ h[x] \in Int
  BY DEF AlmostConcave
<1>3. g * h[x] + d * h[z] <= (z - x) * b
  <2>1. Chord(h, e, x, y, z)
    BY DEF AlmostConcave
  <2> QED  BY <2>1 DEF Chord
<1>4. b - h[x] <= j
  BY <1>2
<1>7. g <= K * d
  OBVIOUS
<1> HIDE DEF d, g, b
<1>5. d * h[z] + g * h[x] <= (d + g) * b
  <2>1. d * h[z] \in Int /\ g * h[x] \in Int
    BY <1>1, <1>2
  <2> QED  BY <1>1, <1>3, <2>1
<1>6. h[z] <= b + K * j
  BY <1>1, <1>2, <1>4, <1>5, <1>7, ChordBounds
<1> QED  BY <1>6 DEF b

\* An interval with its two probes, a third of it from either end.
Probes(low, hi, t, m1, m2) ==
    /\ t \in Nat \ {0} /\ low \in Nat /\ hi \in Nat
    /\ 3 * t <= hi - low /\ hi - low <= 3 * t + 2
    /\ m1 = low + t /\ m2 = hi - t

\* The left third is discarded when the right probe earns something, and no
\* less than the left one.
LEMMA LeftThirdIsWorse ==
    ASSUME NEW H \in Nat, NEW e \in Nat \ {0}, NEW h, AlmostConcave(h, H, e),
           NEW low, NEW hi \in 0 .. H, NEW t, NEW m1, NEW m2, Probes(low, hi, t, m1, m2),
           h[m2] >= h[m1], NEW x \in 0 .. H, low <= x, x < m1
    PROVE  h[x] <= h[m2] + 2 * e
<1>1. /\ m1 \in 0 .. H /\ m2 \in 0 .. H /\ m1 < m2 /\ m1 - x <= 1 * (m2 - m1)
  BY DEF Probes
<1>2. h[m1] \in Int /\ h[m2] \in Int /\ h[x] \in Int
  BY <1>1 DEF AlmostConcave
<1>3. h[m1] + e - h[m2] <= e
  BY <1>2
<1>4. h[x] <= h[m1] + e + 1 * e
  BY <1>1, <1>3, BelowRightChord
<1> QED  BY <1>2, <1>4

\* The right third is discarded when the left probe earns more.
LEMMA RightThirdIsWorse ==
    ASSUME NEW H \in Nat, NEW e \in Nat \ {0}, NEW h, AlmostConcave(h, H, e),
           NEW low, NEW hi \in 0 .. H, NEW t, NEW m1, NEW m2, Probes(low, hi, t, m1, m2),
           h[m1] > h[m2], NEW x \in 0 .. H, m2 < x, x <= hi
    PROVE  h[x] <= h[m1] + 2 * e
<1>1. /\ m1 \in 0 .. H /\ m2 \in 0 .. H /\ m1 < m2 /\ x - m2 <= 1 * (m2 - m1)
  BY DEF Probes
<1>2. h[m1] \in Int /\ h[m2] \in Int /\ h[x] \in Int
  BY <1>1 DEF AlmostConcave
<1>3. h[m2] + e - h[m1] <= e
  BY <1>2
<1>4. h[x] <= h[m2] + e + 1 * e
  BY <1>1, <1>3, BelowLeftChord
<1> QED  BY <1>2, <1>4

\* The middle of an interval, as far as its units allow.
Central(low, hi, y) ==
    /\ y \in low .. hi
    /\ hi - low - 2 <= 2 * (y - low) /\ 2 * (y - low) <= hi - low + 2

\* Two probes that earn nothing around a middle that does: nothing in the
\* interval earns more than the noise.
LEMMA ProbesAroundPeak ==
    ASSUME NEW H \in Nat, NEW e \in Nat \ {0}, NEW h, AlmostConcave(h, H, e),
           NEW low, NEW hi \in 0 .. H, NEW t, NEW m1, NEW m2, Probes(low, hi, t, m1, m2),
           h[m1] <= 0, h[m2] <= 0, NEW y, Central(low, hi, y), h[y] >= 1,
           NEW x \in low .. hi
    PROVE  h[x] <= 5 * e - 2
<1>1. /\ m1 \in 0 .. H /\ m2 \in 0 .. H /\ m1 < m2 /\ y \in 0 .. H /\ x \in 0 .. H
      /\ 0 \in 0 .. H /\ low \in Nat /\ t \in Nat \ {0} /\ m1 = low + t /\ m2 = hi - t
  BY DEF Probes, Central
<1>2. h[m1] \in Int /\ h[m2] \in Int /\ h[x] \in Int /\ h[y] \in Int /\ h[0] = 0
  BY <1>1 DEF AlmostConcave
<1>8. y # m1 /\ y # m2
  BY <1>2
<1>3. /\ m1 < y /\ y < m2
      /\ m1 - low <= 4 * (y - m1) /\ hi - m2 <= 4 * (m2 - y)
      /\ m2 - m1 <= 2 * t + 1
  BY <1>1, <1>8 DEF Probes, Central
<1>4. CASE x < m1
  <2>1. m1 - x <= 4 * (y - m1)
    BY <1>1, <1>3
  <2>2. h[m1] + e - h[y] <= e - 1 /\ e - 1 \in Nat
    BY <1>2
  <2>3. h[x] <= h[m1] + e + 4 * (e - 1)
    BY <1>1, <1>3, <1>4, <2>1, <2>2, BelowRightChord
  <2> QED  BY <1>2, <2>3
<1>5. CASE x > m2
  <2>1. x - m2 <= 4 * (m2 - y)
    BY <1>1, <1>3
  <2>2. h[m2] + e - h[y] <= e - 1 /\ e - 1 \in Nat
    BY <1>2
  <2>3. h[x] <= h[m2] + e + 4 * (e - 1)
    BY <1>1, <1>3, <1>5, <2>1, <2>2, BelowLeftChord
  <2> QED  BY <1>2, <2>3
<1>6. CASE x = m1 \/ x = m2
  BY <1>2, <1>6
<1>7. CASE m1 < x /\ x < m2
  <2>1. x - m1 <= 2 * (m1 - 0) /\ 0 < m1
    BY <1>1, <1>3, <1>7
  <2>2. h[m1] + e - h[0] <= e
    BY <1>2
  <2>3. h[x] <= h[m1] + e + 2 * e
    BY <1>1, <1>7, <2>1, <2>2, BelowLeftChord
  <2> QED  BY <1>2, <2>3
<1> QED  BY <1>1, <1>4, <1>5, <1>6, <1>7

\* What was discarded while nothing earned: a point that earns nothing, and
\* far enough from the first that does, is between.
LEMMA BeforeFirstProfit ==
    ASSUME NEW H \in Nat, NEW e \in Nat \ {0}, NEW h, AlmostConcave(h, H, e),
           NEW x \in 0 .. H, NEW y \in 0 .. H, NEW z \in 0 .. H, x < y, y < z,
           h[y] <= 0, h[z] >= 1, y - x <= 2 * (z - y)
    PROVE  h[x] <= 3 * e - 2
<1>1. h[x] \in Int /\ h[y] \in Int /\ h[z] \in Int
  BY DEF AlmostConcave
<1>2. h[y] + e - h[z] <= e - 1 /\ e - 1 \in Nat
  BY <1>1
<1>3. h[x] <= h[y] + e + 2 * (e - 1)
  BY <1>2, BelowRightChord
<1> QED  BY <1>1, <1>3

\* The states of a search up to H.
BestType(H) == [in : 0 .. H, out : Nat, profit : Nat]
SearchType(H) == { s \in [low : 0 .. H, hi : 0 .. H, best : BestType(H)] :
                      s.low <= s.hi /\ (H # 0 => s.low < s.hi) }

\* What a probe leaves of the best trade.
LEMMA BetterIs ==
    ASSUME NEW H \in Nat, NEW p \in [0 .. H -> Nat], NEW b \in BestType(H), NEW x \in 0 .. H
    PROVE  LET c == Better(b, p, x)
           IN  /\ c \in BestType(H) /\ c.profit >= b.profit /\ c.profit >= p[x]
               /\ \/ c = b
                  \/ c.in = x /\ c.profit = p[x] /\ c.out = p[x] + x /\ c.profit >= 1
<1>1. b.profit \in Nat /\ p[x] \in Nat
  BY DEF BestType
<1>2. CASE p[x] > b.profit
  <2>1. Better(b, p, x) = [in |-> x, out |-> p[x] + x, profit |-> p[x]]
    BY <1>2 DEF Better
  <2>2. p[x] + x \in Nat
    BY <1>1
  <2> QED  BY <1>1, <1>2, <2>1, <2>2 DEF BestType
<1>3. CASE ~ (p[x] > b.profit)
  BY <1>1, <1>3 DEF Better
<1> QED  BY <1>2, <1>3

\* One iteration that compares two probes and drops a third.
DropsThird(p, s, t) ==
    \E third, m1, m2 \in Nat :
       /\ Probes(s.low, s.hi, third, m1, m2)
       /\ \/ /\ p[m1] > p[m2]
             /\ t.low = s.low /\ t.hi = m2 /\ t.best = Better(s.best, p, m1)
          \/ /\ p[m1] <= p[m2]
             /\ t.low = m1 /\ t.hi = s.hi /\ t.best = Better(s.best, p, m2)

\* An iteration keeps the type of a search; it stops or drops a third.
LEMMA NarrowIs ==
    ASSUME NEW H \in Nat, NEW p \in [0 .. H -> Nat], NEW s \in SearchType(H)
    PROVE  /\ Narrow(p, s) \in SearchType(H)
           /\ Narrow(p, s) = s \/ DropsThird(p, s, Narrow(p, s))
<1> DEFINE third == (s.hi - s.low) \div 3
           m1    == s.low + third
           m2    == s.hi - third
<1>1. /\ s.low \in 0 .. H /\ s.hi \in 0 .. H /\ s.low <= s.hi /\ s.best \in BestType(H)
      /\ s \in [low : 0 .. H, hi : 0 .. H, best : BestType(H)]
  BY DEF SearchType
<1>2. CASE s.hi - s.low <= 2
  <2>1. Narrow(p, s) = s
    BY <1>2 DEF Narrow
  <2> QED  BY <2>1
<1>3. CASE ~ (s.hi - s.low <= 2)
  <2>1. /\ Probes(s.low, s.hi, third, m1, m2)
        /\ third \in Nat /\ m1 \in 0 .. H /\ m2 \in 0 .. H /\ m1 \in Nat /\ m2 \in Nat
        /\ s.low < m2 /\ m1 < s.hi
    <3> DEFINE L == s.hi - s.low
    <3>1. L \in Nat /\ L > 2 /\ s.low \in Nat /\ s.hi \in Nat
      BY <1>1, <1>3
    <3>2. third \in Nat \ {0} /\ 3 * third <= L /\ L <= 3 * third + 2
      <4> HIDE DEF L
      <4>1. L \div 3 \in Nat \ {0} /\ 3 * (L \div 3) <= L /\ L <= 3 * (L \div 3) + 2
        BY <3>1
      <4> QED  BY <4>1 DEF L
    <3> HIDE DEF third
    <3>3. m1 \in Nat /\ m2 \in Nat /\ m1 < s.hi /\ s.low < m2 /\ m2 <= s.hi
      BY <3>1, <3>2
    <3> QED  BY <1>1, <3>1, <3>2, <3>3 DEF Probes
  <2>2. Narrow(p, s) = IF KeepsLowThirds(p[m1], p[m2])
                       THEN [s EXCEPT !.hi = m2, !.best = Better(s.best, p, m1)]
                       ELSE [s EXCEPT !.low = m1, !.best = Better(s.best, p, m2)]
    BY <1>3 DEF Narrow
  <2> HIDE DEF third, m1, m2
  <2>3. p[m1] \in Nat /\ p[m2] \in Nat
    BY <2>1
  <2>4. Better(s.best, p, m1) \in BestType(H) /\ Better(s.best, p, m2) \in BestType(H)
    BY <1>1, <2>1, BetterIs
  <2>5. CASE p[m1] > p[m2]
    <3> DEFINE t == [s EXCEPT !.hi = m2, !.best = Better(s.best, p, m1)]
    <3>1. Narrow(p, s) = t
      BY <2>2, <2>5 DEF KeepsLowThirds
    <3>2. t.low = s.low /\ t.hi = m2 /\ t.best = Better(s.best, p, m1)
      BY <1>1
    <3>3. t \in SearchType(H)
      <4>1. t \in [low : 0 .. H, hi : 0 .. H, best : BestType(H)]
        BY <1>1, <2>1, <2>4
      <4>2. t.low < t.hi
        BY <1>1, <2>1, <3>2
      <4>3. t.low \in 0 .. H /\ t.hi \in 0 .. H
        BY <4>1
      <4> HIDE DEF t
      <4> QED  BY <4>1, <4>2, <4>3 DEF SearchType
    <3> HIDE DEF t
    <3>4. DropsThird(p, s, t)
      BY <2>1, <2>5, <3>2 DEF DropsThird
    <3> QED  BY <3>1, <3>3, <3>4
  <2>6. CASE ~ (p[m1] > p[m2])
    <3> DEFINE t == [s EXCEPT !.low = m1, !.best = Better(s.best, p, m2)]
    <3>1. Narrow(p, s) = t
      BY <2>2, <2>6 DEF KeepsLowThirds
    <3>2. t.low = m1 /\ t.hi = s.hi /\ t.best = Better(s.best, p, m2)
      BY <1>1
    <3>3. t \in SearchType(H)
      <4>1. t \in [low : 0 .. H, hi : 0 .. H, best : BestType(H)]
        BY <1>1, <2>1, <2>4
      <4>2. t.low < t.hi
        BY <1>1, <2>1, <3>2
      <4>3. t.low \in 0 .. H /\ t.hi \in 0 .. H
        BY <4>1
      <4> HIDE DEF t
      <4> QED  BY <4>1, <4>2, <4>3 DEF SearchType
    <3>4. p[m1] <= p[m2]
      BY <2>3, <2>6
    <3> HIDE DEF t
    <3>5. DropsThird(p, s, t)
      BY <2>1, <3>2, <3>4 DEF DropsThird
    <3> QED  BY <3>1, <3>3, <3>5
  <2> QED  BY <2>5, <2>6
<1> QED  BY <1>2, <1>3

\* The profits the search sees are those of h, clamped at zero.
Clamped(h, H) == [x \in 0 .. H |-> IF h[x] > 0 THEN h[x] ELSE 0]

\* The best trade is what it says, and no worse than the left end.
Honest(p, s) ==
    /\ s.best.profit = p[s.best.in] /\ s.best.out = p[s.best.in] + s.best.in
    /\ p[s.low] <= s.best.profit
    /\ s.best.in # 0 => s.best.profit >= 1

\* No input earns more than the best one, but for the noise.
NoneBetter(h, H, e, s) == \A x \in 0 .. H : h[x] <= s.best.profit + 5 * e - 3

\* None outside the interval does, and something is earned in its middle.
PeakInside(h, H, e, s) ==
    /\ s.best.profit >= 1
    /\ \A x \in 0 .. H : x < s.low \/ x > s.hi => h[x] <= s.best.profit + 5 * e - 3
    /\ \E y \in 0 .. H : Central(s.low, s.hi, y) /\ h[y] >= 1

\* Nothing was earned yet: only left thirds were dropped, each of which ends
\* at an input that earns nothing.
NothingYet(h, H, s) ==
    /\ s.best.profit = 0
    /\ s.hi = H
    /\ \A x \in 0 .. H : x < s.low =>
          \E y \in 0 .. H : x < y /\ y <= s.low /\ h[y] <= 0 /\ 2 * (y - x) <= H - y

\* The invariant of a ternary search over clamped profits.
Searching(h, H, e, s) ==
    /\ s \in SearchType(H)
    /\ Honest(Clamped(h, H), s)
    /\ NoneBetter(h, H, e, s) \/ PeakInside(h, H, e, s) \/ NothingYet(h, H, s)

\* Clamped profits are naturals, and true where they are not zero.
LEMMA ClampedIs ==
    ASSUME NEW H \in Nat, NEW e \in Nat, NEW h, AlmostConcave(h, H, e)
    PROVE  /\ Clamped(h, H) \in [0 .. H -> Nat]
           /\ \A x \in 0 .. H : /\ h[x] \in Int /\ Clamped(h, H)[x] \in Nat
                                /\ h[x] <= Clamped(h, H)[x]
                                /\ Clamped(h, H)[x] # 0 => Clamped(h, H)[x] = h[x]
<1>1. \A x \in 0 .. H : h[x] \in Int
  BY DEF AlmostConcave
<1> QED  BY <1>1 DEF Clamped

\* The middle an iteration that found a profit leaves is its better probe.
LEMMA ProbesAreCentral ==
    ASSUME NEW low, NEW hi, NEW t, NEW m1, NEW m2, Probes(low, hi, t, m1, m2)
    PROVE  Central(low, m2, m1) /\ Central(m1, hi, m2)
BY DEF Probes, Central

\* A third dropped while nothing was earned is near its end, as seen from the
\* probes of any later iteration.
LEMMA DroppedIsNear ==
    ASSUME NEW low, NEW hi, NEW t, NEW m1, NEW m2, Probes(low, hi, t, m1, m2),
           NEW x \in Nat, NEW y \in Nat, x < y, y <= low, 2 * (y - x) <= hi - y
    PROVE  y < m1 /\ m1 < m2 /\ y - x <= 2 * (m1 - y) /\ y - x <= 2 * (m2 - y)
BY DEF Probes

\* An iteration keeps the invariant.
LEMMA NarrowKeeps ==
    ASSUME NEW H \in Nat, NEW e \in Nat \ {0}, NEW h, AlmostConcave(h, H, e),
           NEW s, Searching(h, H, e, s)
    PROVE  Searching(h, H, e, Narrow(Clamped(h, H), s))
<1> DEFINE p == Clamped(h, H)
           t == Narrow(p, s)
<1>1. /\ p \in [0 .. H -> Nat]
      /\ \A x \in 0 .. H : /\ h[x] \in Int /\ p[x] \in Nat /\ h[x] <= p[x]
                           /\ p[x] # 0 => p[x] = h[x]
  <2>1. e \in Nat
    OBVIOUS
  <2> QED  BY <2>1, ClampedIs
<1>2. s \in SearchType(H) /\ Honest(p, s)
  BY DEF Searching
<1>3. /\ s.low \in 0 .. H /\ s.hi \in 0 .. H /\ s.low <= s.hi /\ s.best \in BestType(H)
      /\ s.low \in Nat /\ s.hi \in Nat
  BY <1>2 DEF SearchType
<1> HIDE DEF p
<1>4. t \in SearchType(H) /\ (t = s \/ DropsThird(p, s, t))
  <2> HIDE DEF t
  <2> QED  BY <1>1, <1>2, NarrowIs DEF t
<1> HIDE DEF t
<1>5. CASE t = s
  BY <1>5 DEF t, p
<1>6. CASE DropsThird(p, s, t)
  <2>1. PICK third \in Nat, m1 \in Nat, m2 \in Nat :
           /\ Probes(s.low, s.hi, third, m1, m2)
           /\ \/ /\ p[m1] > p[m2]
                 /\ t.low = s.low /\ t.hi = m2 /\ t.best = Better(s.best, p, m1)
              \/ /\ p[m1] <= p[m2]
                 /\ t.low = m1 /\ t.hi = s.hi /\ t.best = Better(s.best, p, m2)
    BY <1>6 DEF DropsThird
  <2>2. /\ m1 \in 0 .. H /\ m2 \in 0 .. H /\ m1 < m2 /\ s.low < m1 /\ m2 < s.hi
        /\ p[m1] \in Nat /\ p[m2] \in Nat /\ h[m1] \in Int /\ h[m2] \in Int
        /\ p[m1] # 0 => p[m1] = h[m1]
        /\ p[m2] # 0 => p[m2] = h[m2]
        /\ h[m1] <= p[m1] /\ h[m2] <= p[m2]
    <3>1. m1 \in 0 .. H /\ m2 \in 0 .. H /\ m1 < m2 /\ s.low < m1 /\ m2 < s.hi
      BY <1>3, <2>1 DEF Probes
    <3> QED  BY <1>1, <3>1
  <2> DEFINE P == s.best.profit
             Q == t.best.profit
  <2>3. P \in Nat /\ Q \in Nat
    BY <1>3, <1>4 DEF SearchType, BestType
  <2>10. ASSUME NEW m \in {m1, m2}, t.best = Better(s.best, p, m)
         PROVE  /\ Q >= P /\ Q >= p[m]
                /\ \/ t.best = s.best
                   \/ t.best.in = m /\ Q = p[m] /\ t.best.out = p[m] + m /\ Q >= 1
    <3> DEFINE c == Better(s.best, p, m)
    <3>1. m \in 0 .. H
      BY <2>2
    <3>2. /\ c.profit >= s.best.profit /\ c.profit >= p[m]
          /\ \/ c = s.best
             \/ c.in = m /\ c.profit = p[m] /\ c.out = p[m] + m /\ c.profit >= 1
      BY <1>1, <1>3, <3>1, BetterIs
    <3> HIDE DEF c
    <3>3. t.best = c
      BY <2>10 DEF c
    <3> QED  BY <3>2, <3>3
  <2>4. \E m \in {m1, m2} :
           /\ p[t.low] <= p[m] \/ t.low = s.low
           /\ Q >= P /\ Q >= p[m]
           /\ \/ t.best = s.best
              \/ t.best.in = m /\ Q = p[m] /\ t.best.out = p[m] + m /\ Q >= 1
    <3>1. CASE p[m1] > p[m2]
      <4>1. t.low = s.low /\ t.best = Better(s.best, p, m1)
        BY <2>1, <2>2, <3>1
      <4>2. /\ Q >= P /\ Q >= p[m1]
            /\ \/ t.best = s.best
               \/ t.best.in = m1 /\ Q = p[m1] /\ t.best.out = p[m1] + m1 /\ Q >= 1
        BY <2>10, <4>1
      <4> QED  BY <4>1, <4>2
    <3>2. CASE p[m1] <= p[m2]
      <4>1. t.low = m1 /\ t.best = Better(s.best, p, m2)
        BY <2>1, <2>2, <3>2
      <4>2. /\ Q >= P /\ Q >= p[m2]
            /\ \/ t.best = s.best
               \/ t.best.in = m2 /\ Q = p[m2] /\ t.best.out = p[m2] + m2 /\ Q >= 1
        BY <2>10, <4>1
      <4> QED  BY <3>2, <4>1, <4>2
    <3> QED  BY <2>2, <3>1, <3>2
  <2>5. Q >= P
    BY <2>4
  <2>6. Honest(p, t)
    <3>1. p[t.low] <= Q
      <4>1. p[s.low] <= P /\ p[s.low] \in Nat /\ p[t.low] \in Nat
        BY <1>1, <1>2, <1>3, <1>4 DEF Honest, SearchType
      <4> QED  BY <2>2, <2>3, <2>4, <4>1
    <3> QED  BY <1>2, <2>4, <3>1 DEF Honest
  <2>7. CASE NoneBetter(h, H, e, s)
    <3>1. NoneBetter(h, H, e, t)
      <4> SUFFICES ASSUME NEW x \in 0 .. H PROVE h[x] <= Q + 5 * e - 3
        BY DEF NoneBetter
      <4>1. h[x] <= P + 5 * e - 3 /\ h[x] \in Int
        BY <1>1, <2>7 DEF NoneBetter
      <4> QED  BY <2>3, <2>5, <4>1
    <3> QED  BY <1>4, <2>6, <3>1 DEF Searching, t, p
  \* The better probe earns something: it is the middle of what is left.
  <2>8. ASSUME NEW z \in {m1, m2}, h[z] >= 1, Q >= h[z], Central(t.low, t.hi, z),
               \A x \in 0 .. H : /\ s.low <= x /\ x < t.low => h[x] <= h[z] + 2 * e
                                 /\ t.hi < x /\ x <= s.hi => h[x] <= h[z] + 2 * e,
               PeakInside(h, H, e, s) \/ NothingYet(h, H, s)
        PROVE  PeakInside(h, H, e, t)
    <3>1. Q >= 1 /\ z \in 0 .. H /\ h[z] \in Int
      BY <2>2, <2>3, <2>8
    <3>2. ASSUME NEW x \in 0 .. H, x < t.low \/ x > t.hi
          PROVE  h[x] <= Q + 5 * e - 3
      <4>1. h[x] \in Int
        BY <1>1
      <4>2. CASE s.low <= x /\ x <= s.hi
        <5>1. h[x] <= h[z] + 2 * e
          BY <2>8, <3>2, <4>2
        <5> QED  BY <2>3, <2>8, <3>1, <4>1, <5>1
      <4>3. CASE (x < s.low \/ x > s.hi) /\ PeakInside(h, H, e, s)
        <5>1. h[x] <= P + 5 * e - 3
          BY <4>3 DEF PeakInside
        <5> QED  BY <2>3, <2>5, <4>1, <5>1
      <4>4. CASE (x < s.low \/ x > s.hi) /\ NothingYet(h, H, s)
        <5>1. x < s.low /\ s.hi = H
          BY <4>4 DEF NothingYet
        <5>2. PICK y \in 0 .. H : x < y /\ y <= s.low /\ h[y] <= 0 /\ 2 * (y - x) <= s.hi - y
          BY <4>4, <5>1 DEF NothingYet
        <5>3. y < m1 /\ m1 < m2 /\ y - x <= 2 * (m1 - y) /\ y - x <= 2 * (m2 - y)
          <6>1. x \in Nat /\ y \in Nat
            OBVIOUS
          <6> QED  BY <2>1, <5>2, <6>1, DroppedIsNear
        <5>4. y < z /\ y - x <= 2 * (z - y)
          BY <2>2, <5>3
        <5>5. h[x] <= 3 * e - 2
          BY <2>8, <3>1, <5>2, <5>4, BeforeFirstProfit
        <5> QED  BY <2>3, <3>1, <4>1, <5>5
      <4> QED  BY <1>3, <2>8, <4>2, <4>3, <4>4
    <3> QED  BY <2>8, <3>1, <3>2 DEF PeakInside
  <2>9. CASE PeakInside(h, H, e, s) \/ NothingYet(h, H, s)
    <3>1. CASE p[m1] > p[m2]
      <4>1. /\ t.low = s.low /\ t.hi = m2 /\ t.best = Better(s.best, p, m1)
            /\ h[m1] = p[m1] /\ h[m1] >= 1 /\ h[m1] > h[m2]
        BY <2>1, <2>2, <3>1
      <4>2. Q >= h[m1]
        BY <2>10, <4>1
      <4>3. Central(t.low, t.hi, m1)
        BY <2>1, <4>1, ProbesAreCentral
      <4>4. ASSUME NEW x \in 0 .. H, t.hi < x, x <= s.hi
            PROVE  h[x] <= h[m1] + 2 * e
        BY <1>3, <2>1, <4>1, <4>4, RightThirdIsWorse
      <4>5. PeakInside(h, H, e, t)
        <5>1. \A x \in 0 .. H : /\ s.low <= x /\ x < t.low => h[x] <= h[m1] + 2 * e
                                /\ t.hi < x /\ x <= s.hi => h[x] <= h[m1] + 2 * e
          BY <1>3, <4>1, <4>4
        <5> QED  BY <2>8, <2>9, <4>1, <4>2, <4>3, <5>1
      <4> QED  BY <1>4, <2>6, <4>5 DEF Searching, t, p
    <3>2. CASE p[m1] <= p[m2] /\ p[m2] # 0
      <4>1. /\ t.low = m1 /\ t.hi = s.hi /\ t.best = Better(s.best, p, m2)
            /\ h[m2] = p[m2] /\ h[m2] >= 1 /\ h[m2] >= h[m1]
        BY <2>1, <2>2, <3>2
      <4>2. Q >= h[m2]
        BY <2>10, <4>1
      <4>3. Central(t.low, t.hi, m2)
        BY <2>1, <4>1, ProbesAreCentral
      <4>4. ASSUME NEW x \in 0 .. H, s.low <= x, x < t.low
            PROVE  h[x] <= h[m2] + 2 * e
        BY <1>3, <2>1, <4>1, <4>4, LeftThirdIsWorse
      <4>5. PeakInside(h, H, e, t)
        <5>1. \A x \in 0 .. H : /\ s.low <= x /\ x < t.low => h[x] <= h[m2] + 2 * e
                                /\ t.hi < x /\ x <= s.hi => h[x] <= h[m2] + 2 * e
          BY <1>3, <4>1, <4>4
        <5> QED  BY <2>8, <2>9, <4>1, <4>2, <4>3, <5>1
      <4> QED  BY <1>4, <2>6, <4>5 DEF Searching, t, p
    \* Neither probe earns anything.
    <3>3. CASE p[m1] = 0 /\ p[m2] = 0
      <4>1. /\ t.low = m1 /\ t.hi = s.hi
            /\ h[m1] <= 0 /\ h[m2] <= 0
        BY <2>1, <2>2, <3>3
      <4>2. Q = P
        BY <2>3, <2>4, <3>3
      <4>3. CASE PeakInside(h, H, e, s)
        <5>1. PICK y \in 0 .. H : Central(s.low, s.hi, y) /\ h[y] >= 1
          BY <4>3 DEF PeakInside
        <5>2. ASSUME NEW x \in 0 .. H PROVE h[x] <= Q + 5 * e - 3
          <6>1. h[x] \in Int /\ P >= 1
            BY <1>1, <4>3 DEF PeakInside
          <6>2. CASE x < s.low \/ x > s.hi
            BY <4>2, <4>3, <6>2 DEF PeakInside
          <6>3. CASE x \in s.low .. s.hi
            <7>1. h[x] <= 5 * e - 2
              BY <1>3, <2>1, <4>1, <5>1, <6>3, ProbesAroundPeak
            <7> QED  BY <2>3, <4>2, <6>1, <7>1
          <6> QED  BY <1>3, <6>2, <6>3
        <5>3. NoneBetter(h, H, e, t)
          BY <5>2 DEF NoneBetter
        <5> QED  BY <1>4, <2>6, <5>3 DEF Searching, t, p
      <4>4. CASE NothingYet(h, H, s)
        <5>1. ASSUME NEW x \in 0 .. H, x < m1
              PROVE  \E y \in 0 .. H : /\ x < y /\ y <= m1 /\ h[y] <= 0
                                       /\ 2 * (y - x) <= H - y
          <6>1. CASE x < s.low
            <7>1. PICK y \in 0 .. H : /\ x < y /\ y <= s.low /\ h[y] <= 0
                                      /\ 2 * (y - x) <= H - y
              BY <4>4, <6>1 DEF NothingYet
            <7>2. y <= m1
              BY <1>3, <2>2, <7>1
            <7> QED  BY <7>1, <7>2
          <6>2. CASE ~ (x < s.low)
            <7>1. s.hi = H
              BY <4>4 DEF NothingYet
            <7>2. 2 * (m1 - x) <= H - m1
              BY <1>3, <2>1, <6>2, <7>1 DEF Probes
            <7> QED  BY <2>2, <4>1, <5>1, <7>2
          <6> QED  BY <6>1, <6>2
        <5>2. NothingYet(h, H, t)
          BY <4>1, <4>2, <4>4, <5>1 DEF NothingYet
        <5> QED  BY <1>4, <2>6, <5>2 DEF Searching, t, p
      <4> QED  BY <2>9, <4>3, <4>4
    <3> QED  BY <2>2, <3>1, <3>2, <3>3
  <2> QED  BY <2>7, <2>9 DEF Searching
<1> QED  BY <1>4, <1>5, <1>6

\* The first state of a search.
SearchStart(H) ==
    [low |-> 0, hi |-> H, best |-> [in |-> 0, out |-> 0, profit |-> 0]]

\* The recursion of Narrowed has the solution one expects.
LEMMA NarrowedSteps ==
    ASSUME NEW H \in Nat, NEW p \in [0 .. H -> Nat]
    PROVE  \E after : /\ after[0] = SearchStart(H)
                      /\ \A n \in Nat : after[n + 1] = Narrow(p, after[n])
                      /\ \A rounds \in Nat : Narrowed(p, H, rounds) = after[rounds]
<1> DEFINE V     == SearchType(H)
           v0    == SearchStart(H)
           step  == [n \in Nat |-> [s \in V |-> Narrow(p, s)]]
           Is(f) == f = [n \in Nat |-> IF n = 0 THEN v0 ELSE Narrow(p, f[n - 1])]
           after == CHOOSE f : Is(f)
<1>1. v0 \in V
  BY DEF SearchType, SearchStart, BestType
<1>2. step \in [Nat -> [V -> V]]
  <2>1. \A s \in V : Narrow(p, s) \in V
    BY NarrowIs
  <2> HIDE DEF V
  <2> QED  BY <2>1
<1>3. PICK f : Recurs(f, V, v0, step)
  <2> HIDE DEF V, v0, step
  <2> QED  BY <1>1, <1>2, RecursionSolved
<1>4. Is(f)
  <2>1. f \in [Nat -> V] /\ f[0] = v0 /\ \A n \in Nat \ {0} : f[n] = step[n][f[n - 1]]
    <3> HIDE DEF V, v0, step
    <3> QED  BY <1>3 DEF Recurs
  <2> HIDE DEF V, v0
  <2>2. ASSUME NEW n \in Nat, n # 0 PROVE step[n][f[n - 1]] = Narrow(p, f[n - 1])
    <3>1. n - 1 \in Nat
      BY <2>2
    <3>2. f[n - 1] \in V
      BY <2>1, <3>1
    <3> QED  BY <3>2
  <2> HIDE DEF step
  <2> QED  BY <2>1, <2>2
<1>5. Is(after)
  <2> HIDE DEF Is
  <2> QED  BY <1>4
<1>6. \A rounds \in Nat : Narrowed(p, H, rounds) = after[rounds]
  BY DEF Narrowed, SearchStart
<1> HIDE DEF after, v0
<1>7. after[0] = v0
  BY <1>5
<1>8. ASSUME NEW n \in Nat PROVE after[n + 1] = Narrow(p, after[n])
  <2>1. n + 1 \in Nat /\ n + 1 # 0 /\ (n + 1) - 1 = n
    OBVIOUS
  <2>2. after[n + 1] = Narrow(p, after[(n + 1) - 1])
    BY <1>5, <2>1
  <2> QED  BY <2>1, <2>2
<1> QED  BY <1>6, <1>7, <1>8 DEF v0

\* Every search keeps its invariant to the end.
LEMMA SearchedKeeps ==
    ASSUME NEW H \in Nat, NEW e \in Nat \ {0}, NEW h, AlmostConcave(h, H, e),
           NEW rounds \in Nat
    PROVE  Searching(h, H, e, Narrowed(Clamped(h, H), H, rounds))
<1> DEFINE p == Clamped(h, H)
<1>1. p \in [0 .. H -> Nat] /\ p[0] = 0
  <2>1. e \in Nat
    OBVIOUS
  <2>2. p \in [0 .. H -> Nat]
    BY <2>1, ClampedIs
  <2>3. h[0] = 0 /\ 0 \in 0 .. H
    BY DEF AlmostConcave
  <2> QED  BY <2>2, <2>3 DEF Clamped
<1>2. PICK after : /\ after[0] = SearchStart(H)
                   /\ \A n \in Nat : after[n + 1] = Narrow(p, after[n])
                   /\ \A n \in Nat : Narrowed(p, H, n) = after[n]
  <2> HIDE DEF p
  <2> QED  BY <1>1, NarrowedSteps
<1> DEFINE T == { n \in Nat : Searching(h, H, e, after[n]) }
<1>3. 0 \in T
  <2> DEFINE s == SearchStart(H)
  <2>1. s.low = 0 /\ s.hi = H /\ s.best.in = 0 /\ s.best.out = 0 /\ s.best.profit = 0
    BY DEF SearchStart
  <2>2. s \in SearchType(H)
    BY DEF SearchType, SearchStart, BestType
  <2> HIDE DEF s, p
  <2>3. Honest(p, s)
    BY <1>1, <2>1 DEF Honest
  <2>4. NothingYet(h, H, s)
    <3>1. \A x \in 0 .. H : ~ (x < s.low)
      BY <2>1
    <3> QED  BY <2>1, <3>1 DEF NothingYet
  <2>5. Searching(h, H, e, s)
    BY <2>2, <2>3, <2>4 DEF Searching, p
  <2> QED  BY <1>2, <2>5 DEF s
<1>4. ASSUME NEW n \in T PROVE n + 1 \in T
  <2>1. n \in Nat /\ Searching(h, H, e, after[n])
    BY <1>4
  <2>2. Searching(h, H, e, Narrow(Clamped(h, H), after[n]))
    BY <2>1, NarrowKeeps
  <2> QED  BY <1>2, <2>1, <2>2
<1>5. T = Nat
  <2> HIDE DEF T
  <2>1. T \in SUBSET Nat
    BY DEF T
  <2> QED  BY <1>3, <1>4, <2>1, NaturalsBySteps
<1>6. rounds \in T
  BY <1>5
<1> QED  BY <1>2, <1>6

\* A profit that rises by no more than c a unit.
Rise(h, c, x, y)  == h[y] <= h[x] + (y - x) * c
Rises(h, H, c) == \A x, y \in 0 .. H : x <= y => Rise(h, c, x, y)

\* What a search that answers a trade answers.
LEMMA SearchAnswersWell ==
    ASSUME NEW H \in Nat, NEW e \in Nat \ {0}, NEW c \in Nat \ {0}, NEW h,
           AlmostConcave(h, H, e), Rises(h, H, c), NEW rounds \in Nat
    PROVE  LET p == Clamped(h, H)
               s == Narrowed(p, H, rounds)
           IN  /\ s.best.in \in 0 .. H /\ s.best.out = p[s.best.in] + s.best.in
               /\ s.best.in = 0 => s.best.out = 0
               /\ s.best.in # 0 =>
                    \A x \in 0 .. H :
                       p[x] <= p[s.best.in] + ((s.hi - s.low) * c + 5 * (e - 1) + 1)
<1> DEFINE p == Clamped(h, H)
           s == Narrowed(p, H, rounds)
           w == s.hi - s.low
<1>1. Searching(h, H, e, s)
  BY SearchedKeeps
<1>2. /\ p \in [0 .. H -> Nat] /\ p[0] = 0
      /\ \A x \in 0 .. H : /\ h[x] \in Int /\ p[x] \in Nat /\ h[x] <= p[x]
                           /\ p[x] # 0 => p[x] = h[x]
  <2>1. e \in Nat
    OBVIOUS
  <2>2. h[0] = 0 /\ 0 \in 0 .. H
    BY DEF AlmostConcave
  <2>3. p[0] = 0
    BY <2>2 DEF Clamped
  <2> HIDE DEF p
  <2> QED  BY <2>1, <2>3, ClampedIs DEF p
<1> HIDE DEF s, p
<1>3. s \in SearchType(H) /\ Honest(p, s)
  BY <1>1 DEF Searching, p
<1>4. /\ s.low \in 0 .. H /\ s.hi \in 0 .. H /\ s.low <= s.hi /\ (H # 0 => s.low < s.hi)
      /\ s.best.in \in 0 .. H /\ s.best.out \in Nat /\ s.best.profit \in Nat
  BY <1>3 DEF SearchType, BestType
<1>5. /\ s.best.profit = p[s.best.in] /\ s.best.out = p[s.best.in] + s.best.in
      /\ p[s.low] <= s.best.profit /\ p[s.low] \in Nat
      /\ s.best.in # 0 => s.best.profit >= 1
  BY <1>2, <1>3, <1>4 DEF Honest
<1>6. s.best.in = 0 => s.best.out = 0
  BY <1>2, <1>5
<1>7. ASSUME s.best.in # 0, NEW x \in 0 .. H
      PROVE  p[x] <= p[s.best.in] + (w * c + 5 * (e - 1) + 1)
  <2>1. H # 0 /\ w \in Nat \ {0} /\ s.best.profit \in Nat \ {0}
    BY <1>4, <1>5, <1>7
  <2> HIDE DEF w
  <2> DEFINE m == w * c
  <2>2. m \in Nat \ {0}
    BY <2>1
  <2> HIDE DEF m
  <2>3. h[x] \in Int /\ p[x] \in Nat /\ (p[x] # 0 => p[x] = h[x])
    BY <1>2
  <2>7. ASSUME h[x] <= s.best.profit + m + 5 * (e - 1) + 1
        PROVE  p[x] <= p[s.best.in] + (w * c + 5 * (e - 1) + 1)
    <3>1. p[x] <= p[s.best.in] + (m + 5 * (e - 1) + 1)
      BY <1>5, <2>1, <2>2, <2>3, <2>7
    <3> QED  BY <3>1 DEF m
  <2>4. CASE h[x] <= s.best.profit + 5 * e - 3
    <3>1. h[x] <= s.best.profit + m + 5 * (e - 1) + 1
      BY <2>1, <2>2, <2>3, <2>4
    <3> QED  BY <2>7, <3>1
  <2>5. CASE PeakInside(h, H, e, s) /\ x \in s.low .. s.hi
    <3>1. h[x] <= h[s.low] + (x - s.low) * c
      <4>1. Rise(h, c, s.low, x)
        BY <1>4, <2>5 DEF Rises
      <4> QED  BY <4>1 DEF Rise
    <3>2. (x - s.low) * c <= w * c /\ (x - s.low) * c \in Int
      <4>1. x - s.low \in Int /\ x - s.low <= w
        BY <1>4, <2>5 DEF w
      <4> QED  BY <2>1, <4>1, FactorsGrow
    <3>3. h[s.low] \in Int /\ h[s.low] <= p[s.low]
      BY <1>2, <1>4
    <3>4. h[x] <= s.best.profit + m
      <4> DEFINE d == (x - s.low) * c
      <4>1. d \in Int /\ d <= m /\ h[x] <= h[s.low] + d
        BY <3>1, <3>2 DEF m
      <4> HIDE DEF d
      <4> QED  BY <1>5, <2>1, <2>2, <2>3, <3>3, <4>1
    <3>5. h[x] <= s.best.profit + m + 5 * (e - 1) + 1
      BY <2>1, <2>2, <2>3, <3>4
    <3> QED  BY <2>7, <3>5
  <2>6. \/ h[x] <= s.best.profit + 5 * e - 3
        \/ PeakInside(h, H, e, s) /\ x \in s.low .. s.hi
    <3>1. ~ NothingYet(h, H, s)
      BY <2>1 DEF NothingYet
    <3>2. CASE NoneBetter(h, H, e, s)
      BY <3>2 DEF NoneBetter
    <3>3. CASE PeakInside(h, H, e, s)
      <4>1. x < s.low \/ x > s.hi => h[x] <= s.best.profit + 5 * e - 3
        BY <3>3 DEF PeakInside
      <4> QED  BY <1>4, <3>3, <4>1
    <3> QED  BY <1>1, <3>1, <3>2, <3>3 DEF Searching
  <2> QED  BY <2>4, <2>5, <2>6
<1>8. /\ s.best.in \in 0 .. H /\ s.best.out = p[s.best.in] + s.best.in
      /\ s.best.in = 0 => s.best.out = 0
      /\ s.best.in # 0 =>
           \A x \in 0 .. H : p[x] <= p[s.best.in] + (w * c + 5 * (e - 1) + 1)
  BY <1>4, <1>5, <1>6, <1>7
<1> QED  BY <1>8 DEF p, s

-----------------------------------------------------------------------------
(* The legs the searches evaluate.                                         *)

\* d more units of input buy at most d times s more, for s no less than the
\* price f * S over T of the first unit.
LEMMA FloorsRise ==
    ASSUME NEW T \in Nat \ {0}, NEW f \in Nat, NEW S \in Nat, NEW s \in Nat, f * S <= T * s,
           NEW x \in Nat, NEW z \in Nat, NEW d \in Nat, z <= x + d,
           NEW y \in Nat, NEW c \in Nat,
           (x * f) * S < (T + x * f) * (y + 1),
           (T + z * f) * c <= (z * f) * S
    PROVE  c <= y + d * s
<1> DEFINE u  == T + x * f
           v  == T + z * f
           g  == f * S
           ds == d * s
<1>1. /\ u \in Nat \ {0} /\ v \in Nat \ {0} /\ g \in Nat /\ ds \in Nat /\ T <= u /\ T <= v
      /\ u * z - v * x = T * (z - x)
  OBVIOUS
<1>2. (x * f) * S = x * g /\ (z * f) * S = z * g
  OBVIOUS
<1>3. x * g < u * (y + 1) /\ v * c <= z * g
  BY <1>2
<1>4. (u * z - v * x) * g <= (u * v) * ds
  <2>1. T * (z - x) <= T * d
    <3>1. z - x \in Int /\ z - x <= d
      OBVIOUS
    <3> QED  BY <3>1, FactorsGrow
  <2>2. (u * z - v * x) * g <= (T * d) * g
    <3>1. u * z - v * x \in Int /\ T * d \in Int /\ u * z - v * x <= T * d
      BY <1>1, <2>1
    <3> HIDE DEF u, v, g
    <3> QED  BY <1>1, <3>1, FactorsGrow
  <2>3. (T * d) * g <= (T * d) * (T * s)
    <3>1. T * d \in Nat /\ T * s \in Int /\ g <= T * s
      OBVIOUS
    <3> HIDE DEF g
    <3> QED  BY <1>1, <3>1, FactorsGrow
  <2>4. (T * d) * (T * s) = (T * T) * ds
    OBVIOUS
  <2>5. (T * T) * ds <= (u * v) * ds
    <3> HIDE DEF u, v, ds
    <3>1. T * T <= T * v /\ T * v <= u * v
      BY <1>1, FactorsGrow
    <3>2. T * T \in Int /\ T * v \in Int /\ u * v \in Int
      BY <1>1
    <3>3. T * T <= u * v
      BY <3>1, <3>2
    <3> QED  BY <1>1, <3>2, <3>3, FactorsGrow
  <2>6. /\ (u * z - v * x) * g \in Int /\ (T * d) * g \in Int /\ (T * d) * (T * s) \in Int
        /\ (T * T) * ds \in Int /\ (u * v) * ds \in Int
    <3> HIDE DEF u, v, ds, g
    <3> QED  BY <1>1
  <2> HIDE DEF u, v, ds, g
  <2> QED  BY <2>2, <2>3, <2>4, <2>5, <2>6
<1> HIDE DEF u, v, g, ds
<1>5. SUFFICES ASSUME y + ds + 1 <= c PROVE FALSE
  BY <1>1 DEF ds
<1>6. u * (v * c) <= u * (z * g)
  <2>1. v * c \in Int /\ z * g \in Int
    BY <1>1
  <2> QED  BY <1>1, <1>3, <2>1, FactorsGrow
<1>7. v * (x * g + 1) <= v * (u * (y + 1))
  <2>1. x * g + 1 \in Int /\ u * (y + 1) \in Int
    BY <1>1
  <2>2. x * g + 1 <= u * (y + 1)
    BY <1>1, <1>3, <2>1
  <2> QED  BY <1>1, <2>1, <2>2, FactorsGrow
<1>8. (u * v) * (y + ds + 1) <= (u * v) * c
  <2>1. y + ds + 1 \in Int /\ u * v \in Nat
    BY <1>1
  <2> QED  BY <1>5, <2>1, FactorsGrow
<1>9. /\ u * (v * c) = (u * v) * c
      /\ u * (z * g) = (u * z) * g
      /\ v * (x * g + 1) = (v * x) * g + v
      /\ v * (u * (y + 1)) = (u * v) * (y + 1)
      /\ (u * v) * (y + ds + 1) = (u * v) * (y + 1) + (u * v) * ds
      /\ (u * z - v * x) * g = (u * z) * g - (v * x) * g
  <2>1. u * (v * c) = (u * v) * c
    BY <1>1
  <2>2. u * (z * g) = (u * z) * g
    BY <1>1
  <2>3. v * (x * g + 1) = (v * x) * g + v
    BY <1>1
  <2>4. v * (u * (y + 1)) = (u * v) * (y + 1)
    BY <1>1
  <2>5. (u * v) * (y + ds + 1) = (u * v) * (y + 1) + (u * v) * ds
    BY <1>1
  <2>6. (u * z - v * x) * g = (u * z) * g - (v * x) * g
    BY <1>1
  <2> QED  BY <2>1, <2>2, <2>3, <2>4, <2>5, <2>6
<1>10. /\ (u * v) * c \in Int /\ (u * z) * g \in Int /\ (v * x) * g \in Int
       /\ (u * v) * (y + 1) \in Int /\ (u * v) * ds \in Int
  BY <1>1
<1> QED  BY <1>1, <1>4, <1>6, <1>7, <1>8, <1>9, <1>10

\* A spot price is no less than the price of a leg's first unit.
LEMMA SpotBounds ==
    ASSUME NEW pool, TypedPool(pool), NEW z, In(pool, z) # 0
    PROVE  /\ Spot(pool, z) \in Nat \ {0}
           /\ Out(pool, z) <= In(pool, z) * Spot(pool, z)
<1> DEFINE R == In(pool, z)
           S == Out(pool, z)
<1>1. R \in Nat \ {0} /\ S \in Nat
  BY SidesTyped, WordsPartial
<1> HIDE DEF R, S
<1>2. S \div R \in Nat /\ S <= R * (1 + S \div R)
  BY <1>1
<1> QED  BY <1>2 DEF Spot, R, S

\* The parts of a leg out of a pool that holds something.
LEMMA LegParts ==
    ASSUME NEW pool, TypedPool(pool), NEW z, In(pool, z) # 0
    PROVE  /\ OneK \in Nat \ {0} /\ FeeComplement(pool) \in 0 .. OneK
           /\ FeeComplement(pool) \in Nat
           /\ In(pool, z) \in Nat \ {0} /\ Out(pool, z) \in Nat
           /\ In(pool, z) * OneK \in Nat \ {0}
<1>1. /\ OneK \in Nat \ {0} /\ FeeComplement(pool) \in 0 .. OneK
      /\ FeeComplement(pool) \in Nat
      /\ In(pool, z) \in Nat \ {0} /\ Out(pool, z) \in Nat
  BY ComplementTyped, ScalesAre, SidesTyped, WordsPartial
<1> DEFINE R == In(pool, z)
<1>2. R * OneK \in Nat \ {0}
  <2> HIDE DEF R
  <2> QED  BY <1>1 DEF R
<1> QED  BY <1>1, <1>2

\* The output of a leg rises by no more than the spot price a unit.
LEMMA LegRises ==
    ASSUME NEW pool, TypedPool(pool), NEW z, In(pool, z) # 0,
           NEW i \in Nat, NEW j \in Nat, NEW d \in Nat, j <= i + d,
           LegOut(pool, i, z) # Overflow, LegOut(pool, j, z) # Overflow
    PROVE  LegOut(pool, j, z) <= LegOut(pool, i, z) + d * Spot(pool, z)
<1> DEFINE T == In(pool, z) * OneK
           f == FeeComplement(pool)
           S == Out(pool, z)
           s == Spot(pool, z)
           y == LegOut(pool, i, z)
           c == LegOut(pool, j, z)
<1>1. /\ OneK \in Nat \ {0} /\ f \in 0 .. OneK /\ f \in Nat
      /\ In(pool, z) \in Nat \ {0} /\ S \in Nat /\ T \in Nat \ {0}
  BY LegParts
<1>2. s \in Nat /\ S <= In(pool, z) * s
  BY SpotBounds
<1>3. i \in Partial(Nat) /\ j \in Partial(Nat)
  BY WordsPartial
<1>4. y \in Nat /\ (i * f) * S < (T + i * f) * (y + 1)
  <2>1. /\ i * f \in Nat /\ T + i * f \in Nat \ {0}
        /\ y = ((i * f) * S) \div (T + i * f)
    BY <1>3, LegIs
  <2> HIDE DEF y, f, T, S
  <2> DEFINE q == (i * f) * S
             w == T + i * f
  <2>2. q \in Nat /\ w \in Nat \ {0} /\ y = q \div w
    BY <1>1, <2>1
  <2> HIDE DEF q, w
  <2>3. y \in Nat /\ q < w * (y + 1)
    BY <2>2
  <2> QED  BY <2>3 DEF q, w
<1>5. c \in Nat /\ (T + j * f) * c <= (j * f) * S
  BY <1>3, LegBounds
<1>6. f * S <= T * s
  <2> DEFINE R == In(pool, z)
  <2> HIDE DEF R, S, f, s
  <2>1. R \in Nat \ {0} /\ S <= R * s /\ R * s \in Nat
    BY <1>1, <1>2 DEF R
  <2>2. f * S <= f * (R * s) /\ f * (R * s) <= OneK * (R * s)
    <3>1. f <= OneK
      BY <1>1
    <3> QED  BY <1>1, <2>1, <3>1, FactorsGrow
  <2>3. OneK * (R * s) = (R * OneK) * s
    BY <1>1, <1>2, <2>1
  <2>4. f * S \in Int /\ f * (R * s) \in Int /\ OneK * (R * s) \in Int
    BY <1>1, <1>2, <2>1
  <2>5. f * S <= (R * OneK) * s
    BY <2>2, <2>3, <2>4
  <2> QED  BY <2>5 DEF R
<1> HIDE DEF T, f, S, s, y, c
<1>7. c <= y + d * s
  BY <1>1, <1>2, <1>4, <1>5, <1>6, FloorsRise
<1> QED  BY <1>7 DEF c, y, s

\* The first leg is within one unit of its curve.
LEMMA FirstLegNear ==
    ASSUME NEW pool, TypedPool(pool), NEW z, In(pool, z) # 0, NEW x \in Nat,
           LegOut(pool, x, z) # Overflow
    PROVE  Near(In(pool, z) * OneK, FeeComplement(pool),
                FeeComplement(pool) * Out(pool, z), 1, x, LegOut(pool, x, z))
<1> DEFINE T == In(pool, z) * OneK
           f == FeeComplement(pool)
           S == Out(pool, z)
           y == LegOut(pool, x, z)
<1>1. f \in Nat /\ S \in Nat /\ T \in Nat \ {0}
  BY LegParts
<1>2. y \in Nat /\ (T + x * f) * y <= (x * f) * S /\ (x * f) * S <= (T + x * f) * (y + 1)
  <2>1. x \in Partial(Nat)
    BY WordsPartial
  <2> QED  BY <2>1, LegBounds
<1> HIDE DEF T, f, S, y
<1>3. x * f = f * x /\ (x * f) * S = (f * S) * x
  BY <1>1
<1>4. Near(T, f, f * S, 1, x, y)
  BY <1>2, <1>3 DEF Near
<1> QED  BY <1>4 DEF T, f, S, y

\* A leg that sells what the legs before it bought.
LEMMA NextLegNear ==
    ASSUME NEW pool, TypedPool(pool), NEW z, In(pool, z) # 0,
           NEW D \in Nat \ {0}, NEW E \in Nat, NEW N \in Nat, NEW e \in Nat,
           NEW x \in Nat, NEW y \in Nat, Near(D, E, N, e, x, y),
           LegOut(pool, y, z) # Overflow
    PROVE  LET T == In(pool, z) * OneK
               f == FeeComplement(pool)
               S == Out(pool, z)
           IN  Near(T * D, T * E + f * N, (f * S) * N, 1 + e * Spot(pool, z), x,
                    LegOut(pool, y, z))
<1> DEFINE R == In(pool, z)
           T == R * OneK
           f == FeeComplement(pool)
           S == Out(pool, z)
           s == Spot(pool, z)
           o == LegOut(pool, y, z)
           w == D + E * x
           q == N * x
<1>1. /\ OneK \in Nat \ {0} /\ f \in 0 .. OneK /\ f \in Nat
      /\ R \in Nat \ {0} /\ S \in Nat /\ T \in Nat \ {0}
  BY LegParts
<1>2. s \in Nat /\ S <= R * s
  BY SpotBounds
<1>3. o \in Nat /\ (T + y * f) * o <= (y * f) * S /\ (y * f) * S <= (T + y * f) * (o + 1)
  <2>1. y \in Partial(Nat)
    BY WordsPartial
  <2> QED  BY <2>1, LegBounds
<1>4. w \in Nat \ {0} /\ q \in Nat /\ w * y <= q /\ q <= w * (y + e)
  BY DEF Near
<1> HIDE DEF R, f, S, s, o, w, q
<1>5. o * (T * w + f * q) <= (f * S) * q
  <2> HIDE DEF T
  <2> QED  BY <1>1, <1>3, <1>4, TwoLegsBelow
<1>6. (f * S) * q <= ((R * OneK) * w + f * q) * (o + 1 + e * s)
  BY <1>1, <1>2, <1>3, <1>4, NoisyLeg DEF T
<1>7. T * w + f * q = T * D + (T * E + f * N) * x /\ (f * S) * q = ((f * S) * N) * x
  <2> HIDE DEF T
  <2>1. T * w = T * D + (T * E) * x /\ f * q = (f * N) * x
    BY <1>1 DEF w, q
  <2>2. (T * E + f * N) * x = (T * E) * x + (f * N) * x
    <3>1. T * E \in Int /\ f * N \in Int
      BY <1>1
    <3> QED  BY <3>1
  <2>3. (f * S) * q = ((f * S) * N) * x
    <3>1. f * S \in Int
      BY <1>1
    <3> QED  BY <3>1 DEF q
  <2>4. T * D \in Int /\ (T * E) * x \in Int /\ (f * N) * x \in Int
    BY <1>1
  <2> QED  BY <2>1, <2>2, <2>3, <2>4
<1>8. o + 1 + e * s = o + (1 + e * s)
  <2>1. e * s \in Int
    BY <1>2
  <2> QED  BY <1>3, <2>1
<1>9. Near(T * D, T * E + f * N, (f * S) * N, 1 + e * s, x, o)
  <2> DEFINE u == T * w + f * q
             a == (f * S) * q
  <2>1. u * o <= a
    <3>1. u \in Int
      BY <1>1, <1>4
    <3> HIDE DEF u
    <3>2. u * o = o * u
      BY <1>3, <3>1
    <3> QED  BY <1>5, <3>2 DEF u
  <2>2. a <= u * (o + (1 + e * s))
    BY <1>6, <1>8 DEF T
  <2> HIDE DEF u, a
  <2>3. u = T * D + (T * E + f * N) * x /\ a = ((f * S) * N) * x
    BY <1>7 DEF u, a
  <2> QED  BY <1>3, <2>1, <2>2, <2>3 DEF Near
<1> QED  BY <1>9 DEF T, R, f, S, s, o

\* The outputs a search compares: near the exact curve of its legs, and rising
\* by no more than c a unit.
Outputs(out, H, D, E, N, e, c) ==
    /\ out \in [0 .. H -> Nat]
    /\ \A x \in 0 .. H : Near(D, E, N, e, x, out[x])
    /\ Rises(out, H, c)

\* What an input gains or loses, and what it gains.
Balances(out, H) == [x \in 0 .. H |-> out[x] - x]
Gains(out, H) == [x \in 0 .. H |-> Gain(out[x], x)]

\* Profits of such outputs are what SearchAnswersWell asks for.
LEMMA ProfitsAlmostConcave ==
    ASSUME NEW H \in Nat, NEW D \in Nat \ {0}, NEW E \in Nat, NEW N \in Nat,
           NEW e \in Nat \ {0}, NEW c \in Nat \ {0}, NEW out, Outputs(out, H, D, E, N, e, c)
    PROVE  /\ AlmostConcave(Balances(out, H), H, e) /\ Rises(Balances(out, H), H, c)
           /\ Clamped(Balances(out, H), H) = Gains(out, H)
<1> DEFINE h == Balances(out, H)
<1>1. /\ \A x \in 0 .. H : out[x] \in Nat /\ h[x] = out[x] - x /\ h[x] \in Int
      /\ h \in [0 .. H -> Int]
  BY DEF Outputs, Balances
<1> HIDE DEF h
<1>2. Clamped(h, H) = Gains(out, H)
  <2>1. \A x \in 0 .. H : (IF h[x] > 0 THEN h[x] ELSE 0) = Gain(out[x], x)
    BY <1>1 DEF Gain
  <2> QED  BY <2>1 DEF Clamped, Gains
<1>3. h[0] = 0
  <2>1. 0 \in 0 .. H
    OBVIOUS
  <2>2. out[0] \in Nat /\ (D + E * 0) * out[0] <= N * 0
    BY <2>1 DEF Outputs, Near
  <2>3. D * out[0] <= D * 0
    BY <2>2
  <2>4. out[0] <= 0
    <3>1. 0 \in Int /\ out[0] \in Int
      BY <2>2
    <3> QED  BY <2>3, <3>1, TimesCancels
  <2> QED  BY <1>1, <2>1, <2>2, <2>4
<1>4. ASSUME NEW x \in 0 .. H, NEW y \in 0 .. H, NEW z \in 0 .. H, x < y, y < z
      PROVE  Chord(h, e, x, y, z)
  <2>1. (z - y) * out[x] + (y - x) * out[z] <= (z - x) * (out[y] + e)
    <3>1. Near(D, E, N, e, x, out[x]) /\ Near(D, E, N, e, y, out[y]) /\ Near(D, E, N, e, z, out[z])
      BY DEF Outputs
    <3>2. x \in Nat /\ y \in Nat /\ z \in Nat /\ e \in Nat
      OBVIOUS
    <3> QED  BY <1>4, <3>1, <3>2, NearConcave
  <2> DEFINE a == out[x]
             b == out[y] + e
             d == out[z]
  <2>2. a \in Int /\ b \in Int /\ d \in Int
    BY <1>1
  <2>3. h[x] = a - x /\ h[y] + e = b - y /\ h[z] = d - z
    <3>1. h[x] = out[x] - x /\ h[y] = out[y] - y /\ h[z] = out[z] - z
      BY <1>1
    <3>2. out[y] \in Int /\ y \in Int /\ e \in Int
      BY <1>1
    <3>3. (out[y] - y) + e = (out[y] + e) - y
      BY <3>2
    <3> QED  BY <3>1, <3>3
  <2>4. (z - y) * a + (y - x) * d <= (z - x) * b
    BY <2>1
  <2> HIDE DEF a, b, d
  <2>5. (z - y) * (a - x) + (y - x) * (d - z) <= (z - x) * (b - y)
    <3>1. (z - y) * (a - x) = (z - y) * a - (z - y) * x
      BY <2>2
    <3>2. (y - x) * (d - z) = (y - x) * d - (y - x) * z
      BY <2>2
    <3>3. (z - x) * (b - y) = (z - x) * b - (z - x) * y
      BY <2>2
    <3>4. (z - y) * x + (y - x) * z = (z - x) * y
      OBVIOUS
    <3>5. /\ (z - y) * a \in Int /\ (y - x) * d \in Int /\ (z - x) * b \in Int
          /\ (z - y) * x \in Int /\ (y - x) * z \in Int /\ (z - x) * y \in Int
      BY <2>2
    <3> QED  BY <2>4, <3>1, <3>2, <3>3, <3>4, <3>5
  <2> QED  BY <2>3, <2>5 DEF Chord
<1>5. AlmostConcave(h, H, e)
  BY <1>1, <1>3, <1>4 DEF AlmostConcave
<1>6. Rises(h, H, c)
  <2> SUFFICES ASSUME NEW x \in 0 .. H, NEW y \in 0 .. H, x <= y PROVE Rise(h, c, x, y)
    BY DEF Rises
  <2> DEFINE d == (y - x) * c
  <2>1. out[y] <= out[x] + d /\ d \in Int
    <3>1. Rise(out, c, x, y)
      BY DEF Outputs, Rises
    <3> QED  BY <3>1 DEF Rise
  <2>2. h[y] = out[y] - y /\ h[x] = out[x] - x /\ out[x] \in Nat /\ out[y] \in Nat
    BY <1>1
  <2> HIDE DEF d
  <2>3. h[y] <= h[x] + d
    BY <2>1, <2>2
  <2> QED  BY <2>3 DEF Rise, d
<1> QED  BY <1>2, <1>5, <1>6 DEF h

\* What SearchNearBest says of one search.
NearBest(s) ==
    s.answer # NoTrade =>
       /\ s.answer.out - s.answer.in = s.profit[s.answer.in]
       /\ \A x \in DOMAIN s.profit : s.profit[x] <= s.profit[s.answer.in] + s.slack

\* A search over such outputs answers near its best.
LEMMA SearchOfOutputs ==
    ASSUME NEW H \in Nat, NEW D \in Nat \ {0}, NEW E \in Nat, NEW N \in Nat,
           NEW e \in Nat \ {0}, NEW c \in Nat \ {0}, NEW out, Outputs(out, H, D, E, N, e, c),
           NEW rounds \in Nat, NEW s,
           s.profit = Gains(out, H),
           s.answer = TernarySearch(s.profit, H, rounds),
           NEW w \in Nat, w = 1 + 5 * (e - 1),
           s.slack = w + Span(s.profit, H, rounds) * c
    PROVE  NearBest(s)
<1> DEFINE h == Balances(out, H)
           p == s.profit
           f == Narrowed(p, H, rounds)
<1>1. AlmostConcave(h, H, e) /\ Rises(h, H, c) /\ Clamped(h, H) = p
  BY ProfitsAlmostConcave
<1> HIDE DEF h, p
<1>2. /\ f.best.in \in 0 .. H /\ f.best.out = p[f.best.in] + f.best.in
      /\ f.best.in = 0 => f.best.out = 0
      /\ f.best.in # 0 =>
           \A x \in 0 .. H :
              p[x] <= p[f.best.in] + ((f.hi - f.low) * c + 5 * (e - 1) + 1)
      /\ f.hi \in 0 .. H /\ f.low \in 0 .. H
  <2> DEFINE q == Clamped(h, H)
             g == Narrowed(q, H, rounds)
  <2>1. /\ g.best.in \in 0 .. H /\ g.best.out = q[g.best.in] + g.best.in
        /\ g.best.in = 0 => g.best.out = 0
        /\ g.best.in # 0 =>
             \A x \in 0 .. H :
                q[x] <= q[g.best.in] + ((g.hi - g.low) * c + 5 * (e - 1) + 1)
    BY <1>1, SearchAnswersWell
  <2>2. q = p /\ g = f
    BY <1>1
  <2>3. g.hi \in 0 .. H /\ g.low \in 0 .. H
    <3>1. Searching(h, H, e, g)
      BY <1>1, SearchedKeeps
    <3> HIDE DEF g
    <3> QED  BY <3>1 DEF Searching, SearchType
  <2> HIDE DEF q, g, f
  <2> QED  BY <2>1, <2>2, <2>3
<1>3. s.answer = [in |-> f.best.in, out |-> f.best.out] /\ s.profit = p
  BY DEF TernarySearch, p
<1>4. s.slack = w + (f.hi - f.low) * c
  BY DEF Span, p
<1> HIDE DEF f
<1>5. SUFFICES ASSUME s.answer # NoTrade PROVE NearBest(s)
  BY DEF NearBest
<1>6. f.best.in # 0
  BY <1>2, <1>3, <1>5 DEF NoTrade
<1>7. DOMAIN p = 0 .. H /\ \A x \in 0 .. H : p[x] \in Nat
  <2>1. \A x \in 0 .. H : Gain(out[x], x) \in Nat
    <3>1. \A x \in 0 .. H : out[x] \in Nat
      BY DEF Outputs
    <3> QED  BY <3>1 DEF Gain
  <2>2. p = [x \in 0 .. H |-> Gain(out[x], x)]
    BY DEF p, Gains
  <2> QED  BY <2>1, <2>2
<1>8. s.answer.out - s.answer.in = s.profit[s.answer.in]
  <2>1. p[f.best.in] \in Nat /\ f.best.in \in Nat
    BY <1>2, <1>7
  <2>2. s.answer.in = f.best.in /\ s.answer.out = f.best.out /\ s.profit[s.answer.in] = p[f.best.in]
    BY <1>3
  <2> QED  BY <1>2, <2>1, <2>2
<1>9. \A x \in DOMAIN s.profit : s.profit[x] <= s.profit[s.answer.in] + s.slack
  <2> DEFINE m == (f.hi - f.low) * c
  <2>1. m \in Int
    BY <1>2
  <2>2. \A x \in 0 .. H : p[x] <= p[f.best.in] + (m + 5 * (e - 1) + 1)
    BY <1>2, <1>6
  <2>3. s.slack = w + m
    BY <1>4
  <2> HIDE DEF m
  <2>4. m + 5 * (e - 1) + 1 = s.slack
    BY <2>1, <2>3
  <2> QED  BY <1>3, <1>7, <2>2, <2>4
<1> QED  BY <1>8, <1>9 DEF NearBest

-----------------------------------------------------------------------------
(* The two searches of optimizer.rs.                                       *)

\* A leg that buys nothing sells nothing.
LEMMA LegOfNothing ==
    ASSUME NEW pool, TypedPool(pool), NEW z, LegOut(pool, 0, z) # Overflow
    PROVE  LegOut(pool, 0, z) = 0
<1> DEFINE paid  == 0 * FeeComplement(pool)
           whole == In(pool, z) * OneK + paid
<1>1. 0 \in Partial(Nat)
  BY WordsPartial
<1>2. whole \in Nat \ {0} /\ LegOut(pool, 0, z) = (paid * Out(pool, z)) \div whole
  BY <1>1, LegIs
<1>3. FeeComplement(pool) \in Nat /\ Out(pool, z) \in Nat
  <2>1. FeeComplement(pool) \in 0 .. OneK
    BY ComplementTyped
  <2>2. Out(pool, z) \in Words
    BY SidesTyped
  <2>3. FeeComplement(pool) \in Nat
    BY <2>1, OptimizerTyped
  <2>4. Out(pool, z) \in Nat
    BY <2>2, WordsPartial
  <2> QED  BY <2>3, <2>4
<1>4. paid * Out(pool, z) = 0
  BY <1>3
<1> HIDE DEF paid, whole
<1> QED  BY <1>2, <1>4

\* A leg that answers was given a number and answers one.
LEMMA LegAnswers ==
    ASSUME NEW pool, TypedPool(pool), NEW z \in BOOLEAN, NEW x \in Partial(Nat),
           LegOut(pool, x, z) # Overflow
    PROVE  x \in Nat /\ x # Overflow /\ LegOut(pool, x, z) \in Nat
<1>1. x \in Nat
  BY LegIs
<1>2. LegOut(pool, x, z) \in Nat
  BY LegOutTyped, WordsPartial DEF Partial
<1> QED  BY <1>1, <1>2, WordsAreNot

\* A pair search answers near its best.
LEMMA PairNearBest ==
    ASSUME NEW pool, TypedPool(pool), NEW dir \in BOOLEAN,
           0 \notin {pool.reserve0, pool.reserve1}, Fits(PairSearch(pool, dir))
    PROVE  NearBest(PairSearch(pool, dir))
<1> DEFINE H   == In(pool, dir) \div 2
           out == [x \in 0 .. H |-> LegOut(pool, x, dir)]
           D   == In(pool, dir) * OneK
           E   == FeeComplement(pool)
           N   == FeeComplement(pool) * Out(pool, dir)
           c   == Spot(pool, dir)
           s   == PairSearch(pool, dir)
<1>1. In(pool, dir) # 0
  BY DEF In
<1>2. D \in Nat \ {0} /\ E \in Nat /\ N \in Nat /\ c \in Nat \ {0} /\ H \in Nat
  <2>1. /\ E \in Nat /\ Out(pool, dir) \in Nat /\ In(pool, dir) \in Nat
        /\ D \in Nat \ {0}
    BY <1>1, LegParts
  <2>2. c \in Nat \ {0}
    BY <1>1, SpotBounds
  <2> HIDE DEF D, c
  <2> QED  BY <2>1, <2>2
<1>3. /\ s.out = out /\ s.profit = Gains(out, H)
      /\ s.answer = TernarySearch(s.profit, H, PairRounds)
      /\ s.slack = 1 + Span(s.profit, H, PairRounds) * c
  <2>1. s.profit = PairProfit(pool, dir) /\ s.out = out
    BY DEF PairSearch
  <2>2. PairProfit(pool, dir) = Gains(out, H)
    BY DEF PairProfit, Gains
  <2>3. s.answer = TernarySearch(s.profit, H, PairRounds)
    BY <2>1 DEF PairSearch, OptimalV2V3
  <2>4. s.slack = 1 + Span(s.profit, H, PairRounds) * c
    BY <2>1 DEF PairSearch
  <2> HIDE DEF s, out, H, c
  <2> QED  BY <2>1, <2>2, <2>3, <2>4
<1>4. \A x \in 0 .. H : out[x] = LegOut(pool, x, dir) /\ out[x] # Overflow /\ x \in Nat
  <2>1. \A x \in DOMAIN out : out[x] # Overflow
    <3> HIDE DEF s
    <3> QED  BY <1>3 DEF Fits, s
  <2>2. DOMAIN out = 0 .. H
    OBVIOUS
  <2> HIDE DEF H
  <2> QED  BY <1>2, <2>1, <2>2
<1> HIDE DEF H, out, s
<1>5. \A x \in 0 .. H : out[x] \in Nat
  <2> SUFFICES ASSUME NEW x \in 0 .. H PROVE out[x] \in Nat
    OBVIOUS
  <2>1. x \in Nat /\ LegOut(pool, x, dir) # Overflow /\ out[x] = LegOut(pool, x, dir)
    BY <1>4
  <2> QED  BY <2>1, LegAnswers, WordsPartial
<1>6. \A x \in 0 .. H : Near(D, E, N, 1, x, out[x])
  <2> HIDE DEF D, E, N
  <2> QED  BY <1>1, <1>4, FirstLegNear DEF D, E, N
<1>7. Rises(out, H, c)
  <2> SUFFICES ASSUME NEW x \in 0 .. H, NEW y \in 0 .. H, x <= y PROVE Rise(out, c, x, y)
    BY DEF Rises
  <2>1. y - x \in Nat /\ y <= x + (y - x) /\ x \in Nat /\ y \in Nat
    BY <1>2
  <2>2. LegOut(pool, y, dir) <= LegOut(pool, x, dir) + (y - x) * c
    BY <1>1, <1>4, <2>1, LegRises
  <2> QED  BY <1>4, <2>2 DEF Rise
<1>8. Outputs(out, H, D, E, N, 1, c)
  <2>1. out \in [0 .. H -> Nat]
    BY <1>5 DEF out
  <2> QED  BY <1>6, <1>7, <2>1 DEF Outputs
<1>9. 1 = 1 + 5 * (1 - 1) /\ 1 \in Nat \ {0} /\ PairRounds \in Nat
  BY OptimizerTyped
<1> HIDE DEF D, E, N, c
<1> QED  BY <1>2, <1>3, <1>8, <1>9, SearchOfOutputs DEF s

\* Three pools in a row: what the first, the first two and all of them buy.
Legs1(pools, dirs, x) == LegOut(pools[1], x, dirs[1])
Legs2(pools, dirs, x) == LegOut(pools[2], Legs1(pools, dirs, x), dirs[2])
Legs3(pools, dirs, x) == LegOut(pools[3], Legs2(pools, dirs, x), dirs[3])

Route(pools, dirs) ==
    \A i \in 1 .. 3 : /\ TypedPool(pools[i]) /\ dirs[i] \in BOOLEAN
                      /\ In(pools[i], dirs[i]) # 0

\* A row that answers has no leg that fails.
LEMMA LegsAnswer ==
    ASSUME NEW pools, NEW dirs, Route(pools, dirs), NEW x \in Nat,
           Legs3(pools, dirs, x) # Overflow
    PROVE  /\ Legs1(pools, dirs, x) \in Nat /\ Legs1(pools, dirs, x) # Overflow
           /\ Legs2(pools, dirs, x) \in Nat /\ Legs2(pools, dirs, x) # Overflow
           /\ Legs3(pools, dirs, x) \in Nat
<1> DEFINE o1 == Legs1(pools, dirs, x)
           o2 == Legs2(pools, dirs, x)
           o3 == Legs3(pools, dirs, x)
<1>1. /\ TypedPool(pools[1]) /\ TypedPool(pools[2]) /\ TypedPool(pools[3])
      /\ dirs[1] \in BOOLEAN /\ dirs[2] \in BOOLEAN /\ dirs[3] \in BOOLEAN
  BY DEF Route
<1>2. o1 = LegOut(pools[1], x, dirs[1]) /\ o2 = LegOut(pools[2], o1, dirs[2])
      /\ o3 = LegOut(pools[3], o2, dirs[3])
  BY DEF Legs1, Legs2, Legs3
<1> HIDE DEF o1, o2, o3
<1>3. o1 \in Partial(Nat) /\ o2 \in Partial(Nat)
  <2>1. x \in Partial(Nat)
    BY WordsPartial
  <2>2. o1 \in Partial(Words)
    BY <1>1, <1>2, <2>1, LegOutTyped
  <2>3. o1 \in Partial(Nat)
    BY <2>2, WordsPartial
  <2>4. o2 \in Partial(Words)
    BY <1>1, <1>2, <2>3, LegOutTyped
  <2> QED  BY <2>3, <2>4, WordsPartial
<1>4. o3 # Overflow
  BY DEF o3
<1>5. o2 \in Nat /\ o2 # Overflow /\ o3 \in Nat
  BY <1>1, <1>2, <1>3, <1>4, LegAnswers
<1>6. o1 \in Nat /\ o1 # Overflow
  BY <1>1, <1>2, <1>3, <1>5, LegAnswers
<1> QED  BY <1>5, <1>6 DEF o1, o2, o3

\* A row rises by no more than its spot prices multiplied.
LEMMA LegsRise ==
    ASSUME NEW pools, NEW dirs, Route(pools, dirs), NEW x \in Nat, NEW y \in Nat, x <= y,
           Legs3(pools, dirs, x) # Overflow, Legs3(pools, dirs, y) # Overflow
    PROVE  Legs3(pools, dirs, y) <= Legs3(pools, dirs, x)
              + (y - x) * (Spot(pools[1], dirs[1]) * Spot(pools[2], dirs[2])
                                                   * Spot(pools[3], dirs[3]))
<1> DEFINE i1 == Legs1(pools, dirs, x)
           i2 == Legs2(pools, dirs, x)
           i3 == Legs3(pools, dirs, x)
           j1 == Legs1(pools, dirs, y)
           j2 == Legs2(pools, dirs, y)
           j3 == Legs3(pools, dirs, y)
           s1 == Spot(pools[1], dirs[1])
           s2 == Spot(pools[2], dirs[2])
           s3 == Spot(pools[3], dirs[3])
           d  == y - x
<1>1. /\ TypedPool(pools[1]) /\ TypedPool(pools[2]) /\ TypedPool(pools[3])
      /\ In(pools[1], dirs[1]) # 0 /\ In(pools[2], dirs[2]) # 0 /\ In(pools[3], dirs[3]) # 0
  BY DEF Route
<1>2. /\ i1 \in Nat /\ i1 # Overflow /\ i2 \in Nat /\ i2 # Overflow /\ i3 # Overflow
      /\ j1 \in Nat /\ j1 # Overflow /\ j2 \in Nat /\ j2 # Overflow /\ j3 # Overflow
  BY LegsAnswer
<1>3. /\ i1 = LegOut(pools[1], x, dirs[1]) /\ i2 = LegOut(pools[2], i1, dirs[2])
      /\ i3 = LegOut(pools[3], i2, dirs[3])
      /\ j1 = LegOut(pools[1], y, dirs[1]) /\ j2 = LegOut(pools[2], j1, dirs[2])
      /\ j3 = LegOut(pools[3], j2, dirs[3])
  BY DEF Legs1, Legs2, Legs3
<1>4. s1 \in Nat /\ s2 \in Nat /\ s3 \in Nat
  BY <1>1, SpotBounds
<1>5. d \in Nat /\ y <= x + d
  OBVIOUS
<1> HIDE DEF i1, i2, i3, j1, j2, j3, d
<1>6. j1 <= i1 + d * s1
  BY <1>1, <1>2, <1>3, <1>5, LegRises
<1> DEFINE d1 == d * s1
           d2 == d1 * s2
<1>7. d1 \in Nat /\ d2 \in Nat
  <2>1. d1 \in Nat
    BY <1>4, <1>5
  <2> HIDE DEF d1, s2
  <2> QED  BY <1>4, <2>1
<1>8. d2 * s3 = d * (s1 * s2 * s3)
  <2> HIDE DEF s1, s2, s3
  <2> QED  BY <1>4, <1>5
<1> HIDE DEF d1
<1>9. j2 <= i2 + d1 * s2
  BY <1>1, <1>2, <1>3, <1>6, <1>7, LegRises DEF d1
<1> HIDE DEF d2
<1>10. j3 <= i3 + d2 * s3
  BY <1>1, <1>2, <1>3, <1>7, <1>9, LegRises DEF d2
<1> QED  BY <1>8, <1>10 DEF i3, j3, d

\* What each leg of a row rounds away, at the price of the legs after it.
Loss(pools, dirs) == 1 + (1 + 1 * Spot(pools[2], dirs[2])) * Spot(pools[3], dirs[3])

\* A row is near one exact curve for all its inputs.
LEMMA LegsNear ==
    ASSUME NEW pools, NEW dirs, Route(pools, dirs)
    PROVE  \E D \in Nat \ {0}, E \in Nat, N \in Nat :
              \A x \in Nat : Legs3(pools, dirs, x) # Overflow =>
                 Near(D, E, N, Loss(pools, dirs), x, Legs3(pools, dirs, x))
<1> DEFINE T(i) == In(pools[i], dirs[i]) * OneK
           f(i) == FeeComplement(pools[i])
           S(i) == Out(pools[i], dirs[i])
           s(i) == Spot(pools[i], dirs[i])
           D1   == T(1)
           E1   == f(1)
           N1   == f(1) * S(1)
           D2   == T(2) * D1
           E2   == T(2) * E1 + f(2) * N1
           N2   == (f(2) * S(2)) * N1
           D3   == T(3) * D2
           E3   == T(3) * E2 + f(3) * N2
           N3   == (f(3) * S(3)) * N2
           e2   == 1 + 1 * s(2)
<1>1. \A i \in 1 .. 3 : /\ TypedPool(pools[i]) /\ dirs[i] \in BOOLEAN
                        /\ In(pools[i], dirs[i]) # 0
  BY DEF Route
<1>2. ASSUME NEW i \in 1 .. 3
      PROVE  T(i) \in Nat \ {0} /\ f(i) \in Nat /\ S(i) \in Nat /\ s(i) \in Nat
  BY <1>1, LegParts, SpotBounds
<1>3. 1 \in 1 .. 3 /\ 2 \in 1 .. 3 /\ 3 \in 1 .. 3
  OBVIOUS
<1>4. D1 \in Nat \ {0} /\ E1 \in Nat /\ N1 \in Nat
  <2>1. D1 \in Nat \ {0} /\ E1 \in Nat /\ f(1) \in Nat /\ S(1) \in Nat
    BY <1>2, <1>3
  <2> HIDE DEF f, S
  <2>2. N1 \in Nat
    BY <2>1
  <2> QED  BY <2>1, <2>2
<1> HIDE DEF D1, E1, N1
<1>5. D2 \in Nat \ {0} /\ E2 \in Nat /\ N2 \in Nat /\ e2 \in Nat
  <2>1. T(2) \in Nat \ {0} /\ f(2) \in Nat /\ S(2) \in Nat /\ s(2) \in Nat
    BY <1>2, <1>3
  <2> HIDE DEF T, f, S, s
  <2>2. D2 \in Nat \ {0}
    BY <1>4, <2>1
  <2>3. T(2) * E1 \in Nat /\ f(2) * N1 \in Nat /\ f(2) * S(2) \in Nat
    BY <1>4, <2>1
  <2>4. E2 \in Nat
    BY <2>3
  <2> DEFINE g == f(2) * S(2)
  <2>5. g * N1 \in Nat
    <3>1. g \in Nat
      BY <2>3
    <3> HIDE DEF g
    <3> QED  BY <1>4, <3>1
  <2> QED  BY <2>1, <2>2, <2>4, <2>5
<1> HIDE DEF D2, E2, N2
<1>6. D3 \in Nat \ {0} /\ E3 \in Nat /\ N3 \in Nat
  <2>1. T(3) \in Nat \ {0} /\ f(3) \in Nat /\ S(3) \in Nat
    BY <1>2, <1>3
  <2> HIDE DEF T, f, S
  <2>2. D3 \in Nat \ {0}
    BY <1>5, <2>1
  <2>3. T(3) * E2 \in Nat /\ f(3) * N2 \in Nat /\ f(3) * S(3) \in Nat
    BY <1>5, <2>1
  <2>4. E3 \in Nat
    BY <2>3
  <2> DEFINE g == f(3) * S(3)
  <2>5. g * N2 \in Nat
    <3>1. g \in Nat
      BY <2>3
    <3> HIDE DEF g
    <3> QED  BY <1>5, <3>1
  <2> QED  BY <2>2, <2>4, <2>5
<1>7. ASSUME NEW x \in Nat, Legs3(pools, dirs, x) # Overflow
      PROVE  Near(D3, E3, N3, Loss(pools, dirs), x, Legs3(pools, dirs, x))
  <2> DEFINE o1 == Legs1(pools, dirs, x)
             o2 == Legs2(pools, dirs, x)
             o3 == Legs3(pools, dirs, x)
  <2>1. o1 \in Nat /\ o1 # Overflow /\ o2 \in Nat /\ o2 # Overflow /\ o3 # Overflow
    BY <1>7, LegsAnswer
  <2>2. /\ o1 = LegOut(pools[1], x, dirs[1]) /\ o2 = LegOut(pools[2], o1, dirs[2])
        /\ o3 = LegOut(pools[3], o2, dirs[3])
    BY DEF Legs1, Legs2, Legs3
  <2> HIDE DEF o1, o2, o3
  <2>3. Near(D1, E1, N1, 1, x, o1)
    BY <1>1, <1>3, <2>1, <2>2, FirstLegNear DEF D1, E1, N1
  <2>4. Near(D2, E2, N2, e2, x, o2)
    <3> DEFINE pool == pools[2]
               z    == dirs[2]
    <3>1. TypedPool(pool) /\ In(pool, z) # 0 /\ LegOut(pool, o1, z) # Overflow /\ 1 \in Nat
      BY <1>1, <1>3, <2>1, <2>2
    <3> HIDE DEF pool, z
    <3>2. LET U == In(pool, z) * OneK
              g == FeeComplement(pool)
              R == Out(pool, z)
          IN  Near(U * D1, U * E1 + g * N1, (g * R) * N1, 1 + 1 * Spot(pool, z), x,
                   LegOut(pool, o1, z))
      BY <1>4, <2>1, <2>3, <3>1, NextLegNear
    <3> QED  BY <2>2, <3>2 DEF pool, z, D2, E2, N2
  <2>5. Near(D3, E3, N3, 1 + e2 * s(3), x, o3)
    <3> DEFINE pool == pools[3]
               z    == dirs[3]
    <3>1. TypedPool(pool) /\ In(pool, z) # 0 /\ LegOut(pool, o2, z) # Overflow
      BY <1>1, <1>3, <2>1, <2>2
    <3> HIDE DEF pool, z, e2
    <3>2. LET U == In(pool, z) * OneK
              g == FeeComplement(pool)
              R == Out(pool, z)
          IN  Near(U * D2, U * E2 + g * N2, (g * R) * N2, 1 + e2 * Spot(pool, z), x,
                   LegOut(pool, o2, z))
      BY <1>5, <2>1, <2>4, <3>1, NextLegNear
    <3> QED  BY <2>2, <3>2 DEF pool, z
  <2> QED  BY <2>5 DEF Loss, o3
<1> HIDE DEF D3, E3, N3
<1> QED  BY <1>6, <1>7

Row(pools, dirs, H) == [x \in 0 .. H |-> Legs3(pools, dirs, x)]

\* What a cycle evaluates is what a row earns.
LEMMA CycleGains ==
    ASSUME NEW pools, NEW dirs, Route(pools, dirs), NEW H \in Nat,
           H = In(pools[1], dirs[1]) \div 3,
           \A x \in 0 .. H : Legs3(pools, dirs, x) # Overflow
    PROVE  CycleProfit(pools[1], pools[2], pools[3], dirs) = Gains(Row(pools, dirs, H), H)
<1> DEFINE out == Row(pools, dirs, H)
<1> DEFINE earned(x) == LET out1 == LegOut(pools[1], x, dirs[1])
                            out2 == LegOut(pools[2], out1, dirs[2])
                        IN  IF 0 \in {x, out1} \/ out2 = 0 THEN 0
                            ELSE Gain(LegOut(pools[3], out2, dirs[3]), x)
<1>1. ASSUME NEW x \in 0 .. H PROVE earned(x) = Gain(out[x], x)
  <2> DEFINE o1 == Legs1(pools, dirs, x)
             o2 == Legs2(pools, dirs, x)
             o3 == Legs3(pools, dirs, x)
  <2>1. /\ o1 = LegOut(pools[1], x, dirs[1]) /\ o2 = LegOut(pools[2], o1, dirs[2])
        /\ o3 = LegOut(pools[3], o2, dirs[3])
    BY DEF Legs1, Legs2, Legs3
  <2>2. out[x] = o3 /\ x \in Nat /\ o3 # Overflow
    BY DEF Row
  <2>3. o1 # Overflow /\ o2 # Overflow /\ o3 \in Nat
    BY <2>2, LegsAnswer
  <2>4. TypedPool(pools[1]) /\ TypedPool(pools[2]) /\ TypedPool(pools[3])
    BY DEF Route
  <2> HIDE DEF o1, o2, o3
  <2>5. earned(x) = IF 0 \in {x, o1} \/ o2 = 0 THEN 0 ELSE Gain(o3, x)
    BY <2>1
  <2>6. x = 0 => o1 = 0
    BY <2>1, <2>3, <2>4, LegOfNothing
  <2>7. o1 = 0 => o2 = 0
    BY <2>1, <2>3, <2>4, LegOfNothing
  <2>8. o2 = 0 => o3 = 0
    BY <2>1, <2>2, <2>4, LegOfNothing
  <2> HIDE DEF earned
  <2>9. CASE o2 = 0
    <3>1. Gain(o3, x) = 0
      BY <2>2, <2>8, <2>9 DEF Gain
    <3> QED  BY <2>2, <2>5, <2>9, <3>1
  <2>10. CASE o2 # 0
    BY <2>2, <2>5, <2>6, <2>7, <2>10
  <2> QED  BY <2>9, <2>10
<1>2. CycleProfit(pools[1], pools[2], pools[3], dirs) = [x \in 0 .. H |-> earned(x)]
  BY DEF CycleProfit
<1> HIDE DEF earned, out
<1>3. CycleProfit(pools[1], pools[2], pools[3], dirs) = Gains(out, H)
  BY <1>1, <1>2 DEF Gains
<1> QED  BY <1>3 DEF out

\* A cycle search answers near its best.
LEMMA CycleNearBest ==
    ASSUME NEW pools, NEW dirs, Route(pools, dirs), Fits(CycleSearch(pools, dirs))
    PROVE  NearBest(CycleSearch(pools, dirs))
<1> DEFINE H   == In(pools[1], dirs[1]) \div 3
           out == Row(pools, dirs, H)
           s1  == Spot(pools[1], dirs[1])
           s2  == Spot(pools[2], dirs[2])
           s3  == Spot(pools[3], dirs[3])
           c   == s1 * s2 * s3
           e   == Loss(pools, dirs)
           w   == 1 + 5 * ((1 + s2) * s3)
           s   == CycleSearch(pools, dirs)
<1>1. H \in Nat
  <2>1. TypedPool(pools[1])
    BY DEF Route
  <2>2. In(pools[1], dirs[1]) \in Words
    BY <2>1, SidesTyped
  <2>3. In(pools[1], dirs[1]) \in Nat
    BY <2>2, WordsPartial
  <2> QED  BY <2>3
<1>2. s1 \in Nat \ {0} /\ s2 \in Nat \ {0} /\ s3 \in Nat \ {0}
  BY SpotBounds DEF Route
<1>3. c \in Nat \ {0} /\ e \in Nat \ {0} /\ w \in Nat /\ w = 1 + 5 * (e - 1)
  <2>1. e = 1 + (1 + 1 * s2) * s3
    BY DEF Loss
  <2> HIDE DEF s1, s2, s3, e
  <2>2. c \in Nat \ {0}
    <3>1. s1 * s2 \in Nat \ {0}
      BY <1>2
    <3> DEFINE q == s1 * s2
    <3> HIDE DEF q
    <3>2. q * s3 \in Nat \ {0}
      BY <1>2, <3>1 DEF q
    <3> QED  BY <3>2 DEF q
  <2>3. 1 * s2 = s2
    BY <1>2
  <2>4. (1 + s2) * s3 \in Nat
    BY <1>2
  <2> QED  BY <2>1, <2>2, <2>3, <2>4
<1>4. /\ s.out = out /\ s.profit = CycleProfit(pools[1], pools[2], pools[3], dirs)
      /\ s.answer = TernarySearch(s.profit, H, CycleRounds)
      /\ s.slack = w + Span(s.profit, H, CycleRounds) * c
  <2>1. s.out = out
    BY DEF CycleSearch, Row, Legs1, Legs2, Legs3
  <2>2. s.profit = CycleProfit(pools[1], pools[2], pools[3], dirs)
    BY DEF CycleSearch
  <2>3. s.answer = TernarySearch(s.profit, H, CycleRounds)
    BY <2>2 DEF CycleSearch, OptimalTriangular
  <2>4. s.slack = w + Span(s.profit, H, CycleRounds) * c
    BY <2>2 DEF CycleSearch
  <2> HIDE DEF s, out, H, c, w
  <2> QED  BY <2>1, <2>2, <2>3, <2>4
<1>5. \A x \in 0 .. H : /\ out[x] = Legs3(pools, dirs, x) /\ x \in Nat
                        /\ Legs3(pools, dirs, x) # Overflow
  <2>1. \A x \in DOMAIN out : out[x] # Overflow
    <3> HIDE DEF s
    <3> QED  BY <1>4 DEF Fits, s
  <2>2. DOMAIN out = 0 .. H /\ \A x \in 0 .. H : out[x] = Legs3(pools, dirs, x)
    BY DEF Row
  <2> HIDE DEF H, out
  <2> QED  BY <1>1, <2>1, <2>2
<1>6. s.profit = Gains(out, H)
  <2>1. CycleProfit(pools[1], pools[2], pools[3], dirs) = Gains(out, H)
    <3>1. H = In(pools[1], dirs[1]) \div 3
      OBVIOUS
    <3> HIDE DEF H
    <3> QED  BY <1>1, <1>5, <3>1, CycleGains
  <2> QED  BY <1>4, <2>1
<1> HIDE DEF H, s
<1>7. PICK D \in Nat \ {0}, E \in Nat, N \in Nat :
         \A x \in Nat : Legs3(pools, dirs, x) # Overflow =>
            Near(D, E, N, e, x, Legs3(pools, dirs, x))
  BY LegsNear
<1>8. Outputs(out, H, D, E, N, e, c)
  <2>1. \A x \in 0 .. H : Legs3(pools, dirs, x) \in Nat
    BY <1>5, LegsAnswer
  <2>2. out \in [0 .. H -> Nat]
    BY <2>1 DEF Row
  <2> HIDE DEF out, e, c
  <2>3. \A x \in 0 .. H : Near(D, E, N, e, x, out[x])
    BY <1>5, <1>7
  <2>4. Rises(out, H, c)
    <3> SUFFICES ASSUME NEW x \in 0 .. H, NEW y \in 0 .. H, x <= y PROVE Rise(out, c, x, y)
      BY DEF Rises
    <3>1. Legs3(pools, dirs, y) <= Legs3(pools, dirs, x) + (y - x) * c
      BY <1>5, LegsRise DEF c
    <3> QED  BY <1>5, <3>1 DEF Rise
  <2> QED  BY <2>2, <2>3, <2>4 DEF Outputs
<1>9. CycleRounds \in Nat
  BY OptimizerTyped
<1> HIDE DEF out, e, c, w
<1> QED  BY <1>1, <1>3, <1>4, <1>6, <1>8, <1>9, SearchOfOutputs DEF s

\* A search that answers a trade answers a good one, for every registry, fees,
\* reserves, routes and numbers of rounds: what it misses is what its last
\* interval spans and what the legs round away.
THEOREM SearchNearBestHolds == Spec => []SearchNearBest
<1>1. ReservesTyped => SearchNearBest
  <2> SUFFICES ASSUME ReservesTyped, NEW s \in Searches PROVE NearBest(s)
    BY DEF SearchNearBest, NearBest
  <2>1. \A p \in Pools : TypedPool(PoolNow(p))
    BY PoolsTyped DEF ReservesTyped, PoolNow
  <2>2. CASE \E p \in Pools, dir \in BOOLEAN :
                /\ Stocked(p) /\ s = PairSearch(PoolNow(p), dir) /\ Fits(s)
    <3>1. PICK p \in Pools, dir \in BOOLEAN :
             Stocked(p) /\ s = PairSearch(PoolNow(p), dir) /\ Fits(s)
      BY <2>2
    <3> DEFINE pool == PoolNow(p)
    <3>2. TypedPool(pool) /\ 0 \notin {pool.reserve0, pool.reserve1}
      BY <2>1, <3>1 DEF Stocked, PoolNow, PoolWith
    <3> HIDE DEF pool
    <3>3. s = PairSearch(pool, dir) /\ Fits(PairSearch(pool, dir))
      BY <3>1 DEF pool
    <3> QED  BY <3>2, <3>3, PairNearBest
  <2>3. CASE \E c \in Cycles :
                /\ \A i \in 1 .. 3 : Stocked(c.pools[i])
                /\ s = CycleSearch([i \in 1 .. 3 |-> PoolNow(c.pools[i])], c.dirs) /\ Fits(s)
    <3>1. PICK c \in Cycles :
             /\ \A i \in 1 .. 3 : Stocked(c.pools[i])
             /\ s = CycleSearch([i \in 1 .. 3 |-> PoolNow(c.pools[i])], c.dirs) /\ Fits(s)
      BY <2>3
    <3> DEFINE pools == [i \in 1 .. 3 |-> PoolNow(c.pools[i])]
    <3>2. c.pools \in [1 .. 3 -> Pools] /\ c.dirs \in [1 .. 3 -> BOOLEAN]
      BY PricingTyped
    <3>3. Route(pools, c.dirs)
      <4> SUFFICES ASSUME NEW i \in 1 .. 3
                   PROVE  /\ TypedPool(pools[i]) /\ c.dirs[i] \in BOOLEAN
                          /\ In(pools[i], c.dirs[i]) # 0
        BY DEF Route
      <4>1. c.pools[i] \in Pools /\ c.dirs[i] \in BOOLEAN /\ pools[i] = PoolNow(c.pools[i])
        BY <3>2
      <4>2. 0 \notin {pools[i].reserve0, pools[i].reserve1}
        BY <3>1, <4>1 DEF Stocked, PoolNow, PoolWith
      <4> HIDE DEF pools
      <4>3. TypedPool(pools[i])
        BY <2>1, <4>1
      <4> QED  BY <4>1, <4>2, <4>3 DEF In
    <3> HIDE DEF pools
    <3>4. s = CycleSearch(pools, c.dirs) /\ Fits(CycleSearch(pools, c.dirs))
      BY <3>1 DEF pools
    <3> QED  BY <3>3, <3>4, CycleNearBest
  <2> QED  BY <2>2, <2>3 DEF Searches
<1> QED  BY <1>1, TypesInit, TypesStep, PTL DEF Spec

-----------------------------------------------------------------------------
(* What the roundings of a V3 simulation are worth.                         *)

\* What the floor of a quotient says without the quotient.
LEMMA FloorIs ==
    ASSUME NEW a \in Nat, NEW b \in Nat \ {0}
    PROVE  /\ a \div b \in Nat /\ b * (a \div b) <= a /\ a < b * (a \div b + 1)
           /\ b * (a \div b) \in Nat /\ b * (a \div b + 1) \in Nat
<1> DEFINE q == a \div b
<1>1. q \in Nat /\ b * q <= a /\ a < b * (q + 1)
  OBVIOUS
<1> HIDE DEF q
<1> QED  BY <1>1 DEF q

\* The new price of a V3 pool that token0 is sold to, and of one that token1
\* is sold to: what the floors say, without the quotients.
Falls(P, L, a, d, P1) ==
    /\ d \in Nat /\ P1 \in Nat
    /\ Q96 * d <= a * P
    /\ (L + d) * P1 <= L * P
    /\ L * P < (L + d) * (P1 + 1)
Climbs(P, L, a, d, P1) ==
    /\ d \in Nat /\ P1 = P + d
    /\ L * d <= a * Q96

\* What the pool pays for it.
PaysToken1(P, L, P1, o) == o \in Nat /\ P1 <= P /\ Q96 * o <= L * (P - P1)
PaysToken0(P, L, d, P1, o) ==
    /\ o \in Nat
    /\ \E k \in Nat : P * k <= L * Q96 /\ P1 * o <= k * d

\* A V3 simulation that sells token0.
LEMMA FallIs ==
    ASSUME NEW pool, TypedPool(pool), NEW a \in Nat, SimulateV3(pool, a, TRUE) # NoSwap
    PROVE  LET P == pool.reserve0
               L == pool.reserve1
               s == SimulateV3(pool, a, TRUE)
           IN  /\ P \in Nat \ {0} /\ L \in Nat \ {0} /\ s.reserve1 = L
               /\ \E d \in Nat : Falls(P, L, a, d, s.reserve0)
               /\ PaysToken1(P, L, s.reserve0, s.out)
<1> DEFINE P    == pool.reserve0
           L    == pool.reserve1
           paid == Mul(a, P)
           d    == Div(paid, Q96)
           num  == Mul(L, P)
           den  == Add(L, d)
           P1   == Div(num, den)
           drop == Sub(P, P1)
           owed == Mul(L, drop)
           o    == Div(owed, Q96)
           s    == SimulateV3(pool, a, TRUE)
<1>1. /\ P # 0 /\ L # 0 /\ o # Overflow
      /\ s = [out |-> o, reserve0 |-> P1, reserve1 |-> L]
  BY DEF SimulateV3, V3Price
<1>2. /\ P \in Nat /\ L \in Nat /\ Q96 \in Nat \ {0}
      /\ P \in Partial(Nat) /\ L \in Partial(Nat) /\ a \in Partial(Nat) /\ Q96 \in Partial(Nat)
  BY WordsPartial, ScalesTyped DEF TypedPool
<1> HIDE DEF P, L, s
<1>3. paid \in Partial(Nat) /\ (paid # Overflow => paid = a * P)
  BY <1>2, MulTyped, WordsPartial
<1>4. num \in Partial(Nat) /\ (num # Overflow => num = L * P)
  BY <1>2, MulTyped, WordsPartial
<1> HIDE DEF paid, num
<1>5. d \in Partial(Nat) /\ (d # Overflow => paid \in Nat /\ d = paid \div Q96)
  BY <1>2, <1>3, DivTyped
<1> HIDE DEF d
<1>6. den \in Partial(Nat) /\ (den # Overflow => d \in Nat /\ den = L + d)
  BY <1>2, <1>5, AddTyped, WordsPartial
<1> HIDE DEF den
<1>7. /\ P1 \in Partial(Nat)
      /\ P1 # Overflow => num \in Nat /\ den \in Nat \ {0} /\ P1 = num \div den
  BY <1>4, <1>6, DivTyped
<1> HIDE DEF P1
<1>8. /\ drop \in Partial(Nat)
      /\ drop # Overflow => P1 \in Nat /\ P1 <= P /\ drop = P - P1
  BY <1>2, <1>7, SubTyped
<1> HIDE DEF drop
<1>9. /\ owed \in Partial(Nat)
      /\ owed # Overflow => drop \in Nat /\ owed = L * drop
  BY <1>2, <1>8, MulTyped, WordsPartial
<1> HIDE DEF owed
<1>10. o \in Nat /\ owed \in Nat /\ o = owed \div Q96
  <2>1. o \in Partial(Nat) /\ owed \in Nat /\ o = owed \div Q96
    BY <1>1, <1>2, <1>9, DivTyped
  <2> QED  BY <1>1, <2>1 DEF Partial
<1> HIDE DEF o
<1>11. owed # Overflow /\ drop \in Nat /\ drop # Overflow /\ owed = L * drop
  BY <1>9, <1>10, WordsAreNot
<1>12. P1 \in Nat /\ P1 # Overflow /\ P1 <= P /\ drop = P - P1
  BY <1>8, <1>11, WordsAreNot
<1>13. /\ num \in Nat /\ num # Overflow /\ den \in Nat \ {0} /\ den # Overflow
       /\ P1 = num \div den /\ num = L * P
  BY <1>4, <1>7, <1>12, WordsAreNot
<1>14. d \in Nat /\ d # Overflow /\ den = L + d
  BY <1>6, <1>13, WordsAreNot
<1>15. paid \in Nat /\ paid # Overflow /\ paid = a * P /\ d = paid \div Q96
  BY <1>3, <1>5, <1>14, WordsAreNot
<1>16. Q96 * d <= a * P
  BY <1>2, <1>15, FloorIs
<1>17. den * P1 <= num /\ num < den * (P1 + 1)
  BY <1>13, FloorIs
<1>18. Falls(P, L, a, d, P1)
  BY <1>12, <1>13, <1>14, <1>16, <1>17 DEF Falls
<1>19. Q96 * o <= L * (P - P1)
  BY <1>2, <1>10, <1>11, <1>12, FloorIs
<1>20. PaysToken1(P, L, P1, o)
  BY <1>10, <1>12, <1>19 DEF PaysToken1
<1>21. /\ P \in Nat \ {0} /\ L \in Nat \ {0}
       /\ s.reserve0 = P1 /\ s.reserve1 = L /\ s.out = o
  BY <1>1, <1>2
<1> QED  BY <1>14, <1>18, <1>20, <1>21 DEF P, L, s

\* A V3 simulation that sells token1.
LEMMA RiseIs ==
    ASSUME NEW pool, TypedPool(pool), NEW a \in Nat, SimulateV3(pool, a, FALSE) # NoSwap
    PROVE  LET P == pool.reserve0
               L == pool.reserve1
               s == SimulateV3(pool, a, FALSE)
           IN  /\ P \in Nat \ {0} /\ L \in Nat \ {0} /\ s.reserve1 = L
               /\ \E d \in Nat : /\ Climbs(P, L, a, d, s.reserve0)
                                 /\ PaysToken0(P, L, d, s.reserve0, s.out)
<1> DEFINE P    == pool.reserve0
           L    == pool.reserve1
           paid == Mul(a, Q96)
           d    == Div(paid, L)
           P1   == Add(P, d)
           lq   == Mul(L, Q96)
           k    == Div(lq, P)
           step == Sub(P1, P)
           owed == Mul(k, step)
           o    == Div(owed, P1)
           s    == SimulateV3(pool, a, FALSE)
<1>1. /\ P # 0 /\ L # 0 /\ o # Overflow
      /\ s = [out |-> o, reserve0 |-> P1, reserve1 |-> L]
  BY DEF SimulateV3, V3Price
<1>2. /\ P \in Nat /\ L \in Nat /\ Q96 \in Nat \ {0}
      /\ P \in Partial(Nat) /\ L \in Partial(Nat) /\ a \in Partial(Nat) /\ Q96 \in Partial(Nat)
  BY WordsPartial, ScalesTyped DEF TypedPool
<1> HIDE DEF P, L, s
<1>3. paid \in Partial(Nat) /\ (paid # Overflow => paid = a * Q96)
  BY <1>2, MulTyped, WordsPartial
<1>4. lq \in Partial(Nat) /\ (lq # Overflow => lq = L * Q96)
  BY <1>2, MulTyped, WordsPartial
<1> HIDE DEF paid, lq
<1>5. d \in Partial(Nat) /\ (d # Overflow => paid \in Nat /\ d = paid \div L)
  BY <1>2, <1>3, DivTyped
<1>6. k \in Partial(Nat) /\ (k # Overflow => lq \in Nat /\ k = lq \div P)
  BY <1>2, <1>4, DivTyped
<1> HIDE DEF d, k
<1>7. P1 \in Partial(Nat) /\ (P1 # Overflow => d \in Nat /\ P1 = P + d)
  BY <1>2, <1>5, AddTyped, WordsPartial
<1> HIDE DEF P1
<1>8. /\ step \in Partial(Nat)
      /\ step # Overflow => P1 \in Nat /\ step = P1 - P
  BY <1>2, <1>7, SubTyped
<1> HIDE DEF step
<1>9. /\ owed \in Partial(Nat)
      /\ owed # Overflow => k \in Nat /\ step \in Nat /\ owed = k * step
  BY <1>6, <1>8, MulTyped, WordsPartial
<1> HIDE DEF owed
<1>10. o \in Nat /\ owed \in Nat /\ P1 \in Nat \ {0} /\ o = owed \div P1
  <2>1. o \in Partial(Nat) /\ owed \in Nat /\ P1 \in Nat \ {0} /\ o = owed \div P1
    BY <1>1, <1>7, <1>9, DivTyped
  <2> QED  BY <1>1, <2>1 DEF Partial
<1> HIDE DEF o
<1>11. owed # Overflow /\ k \in Nat /\ k # Overflow /\ step \in Nat /\ owed = k * step
  BY <1>9, <1>10, WordsAreNot
<1>12. P1 # Overflow /\ step # Overflow /\ step = P1 - P /\ d \in Nat /\ d # Overflow /\ P1 = P + d
  BY <1>7, <1>8, <1>10, <1>11, WordsAreNot
<1>13. paid \in Nat /\ paid # Overflow /\ paid = a * Q96 /\ d = paid \div L
  BY <1>3, <1>5, <1>12, WordsAreNot
<1>14. lq \in Nat /\ lq # Overflow /\ lq = L * Q96 /\ k = lq \div P
  BY <1>4, <1>6, <1>11, WordsAreNot
<1>15. L * d <= a * Q96
  BY <1>1, <1>2, <1>13, FloorIs
<1>16. P * k <= L * Q96
  BY <1>1, <1>2, <1>14, FloorIs
<1>17. step = d
  BY <1>2, <1>12
<1>18. P1 * o <= k * d
  BY <1>10, <1>11, <1>17, FloorIs
<1>19. Climbs(P, L, a, d, P1)
  BY <1>12, <1>15 DEF Climbs
<1>20. PaysToken0(P, L, d, P1, o)
  BY <1>10, <1>11, <1>16, <1>18 DEF PaysToken0
<1>21. /\ P \in Nat \ {0} /\ L \in Nat \ {0}
       /\ s.reserve0 = P1 /\ s.reserve1 = L /\ s.out = o
  BY <1>1, <1>2
<1> QED  BY <1>12, <1>19, <1>20, <1>21 DEF P, L, s

\* Token1 sold, and what it bought sold back: the price returns no lower than
\* it was, and no more token1 comes back than went in.
LEMMA ClimbAndFall ==
    ASSUME NEW P \in Nat \ {0}, NEW L \in Nat \ {0}, NEW a \in Nat,
           NEW d \in Nat, NEW P1 \in Nat, NEW o, NEW e \in Nat, NEW P2 \in Nat, NEW back,
           Climbs(P, L, a, d, P1), PaysToken0(P, L, d, P1, o),
           Falls(P1, L, o, e, P2), PaysToken1(P1, L, P2, back)
    PROVE  back <= a
<1>1. /\ Q96 \in Nat \ {0} /\ P1 = P + d /\ P1 \in Nat \ {0}
      /\ L * d <= a * Q96 /\ o \in Nat /\ back \in Nat
  BY ScalesTyped DEF Climbs, PaysToken0, PaysToken1
<1>2. Q96 * e <= o * P1 /\ L * P1 < (L + e) * (P2 + 1)
  BY DEF Falls
<1>3. P2 <= P1 /\ Q96 * back <= L * (P1 - P2)
  BY DEF PaysToken1
<1>4. PICK k \in Nat : P * k <= L * Q96 /\ P1 * o <= k * d
  BY DEF PaysToken0
<1> DEFINE Q == Q96
<1> HIDE DEF Q
<1>5. e * P <= L * d
  <2>1. Q * e <= k * d
    <3>1. o * P1 = P1 * o /\ P1 * o \in Nat /\ Q * e \in Nat /\ k * d \in Nat
      BY <1>1 DEF Q
    <3> QED  BY <1>2, <1>4, <3>1 DEF Q
  <2>2. (Q * e) * P <= (k * d) * P
    <3>1. Q * e \in Nat /\ k * d \in Nat
      BY <1>1 DEF Q
    <3> QED  BY <2>1, <3>1, TimesMonotone
  <2>3. (P * k) * d <= (L * Q) * d
    <3>1. P * k \in Nat /\ L * Q \in Nat
      BY <1>1 DEF Q
    <3> QED  BY <1>4, <3>1, TimesMonotone DEF Q
  <2>4. (k * d) * P = (P * k) * d /\ (Q * e) * P = Q * (e * P) /\ (L * Q) * d = Q * (L * d)
    BY <1>1 DEF Q
  <2>5. e * P \in Int /\ L * d \in Int
    OBVIOUS
  <2>6. Q * (e * P) \in Int /\ Q * (L * d) \in Int /\ (P * k) * d \in Int
    BY <1>1, <2>5 DEF Q
  <2>7. Q * (e * P) <= Q * (L * d)
    BY <2>2, <2>3, <2>4, <2>6
  <2>8. Q \in Nat \ {0}
    BY <1>1 DEF Q
  <2> QED  BY <2>5, <2>7, <2>8, TimesCancels
<1>6. P <= P2
  <2>1. (L + e) * P <= L * P1
    <3>1. (L + e) * P = L * P + e * P /\ L * P1 = L * P + L * d
      BY <1>1
    <3>2. L * P \in Int /\ e * P \in Int /\ L * d \in Int
      OBVIOUS
    <3> QED  BY <1>5, <3>1, <3>2
  <2> SUFFICES ASSUME P2 + 1 <= P PROVE FALSE
    OBVIOUS
  <2>2. (P2 + 1) * (L + e) <= P * (L + e)
    BY <2>1, TimesMonotone
  <2>3. (P2 + 1) * (L + e) = (L + e) * (P2 + 1) /\ P * (L + e) = (L + e) * P
    OBVIOUS
  <2>4. (L + e) * (P2 + 1) \in Int /\ (L + e) * P \in Int /\ L * P1 \in Int
    BY <1>1
  <2> QED  BY <1>2, <2>1, <2>2, <2>3, <2>4
<1>7. Q * back <= Q * a
  <2>1. (P1 - P2) * L <= d * L
    <3>1. P1 - P2 \in Nat /\ P1 - P2 <= d
      BY <1>1, <1>3, <1>6
    <3> QED  BY <3>1, TimesMonotone
  <2>2. /\ (P1 - P2) * L = L * (P1 - P2) /\ d * L = L * d /\ a * Q = Q * a
        /\ L * (P1 - P2) \in Int /\ L * d \in Int /\ Q * a \in Int /\ Q * back \in Int
    BY <1>1 DEF Q
  <2> QED  BY <1>1, <1>3, <2>1, <2>2 DEF Q
<1> QED  BY <1>1, <1>7, TimesCancels DEF Q

\* Token0 sold, and what it bought sold back: the price returns no higher than
\* it was, and no more comes back than went in and one unit of price is worth.
LEMMA FallAndClimb ==
    ASSUME NEW P \in Nat \ {0}, NEW L \in Nat \ {0}, NEW a \in Nat,
           NEW d \in Nat, NEW P1 \in Nat \ {0}, NEW o, NEW e \in Nat, NEW P2 \in Nat, NEW back,
           Falls(P, L, a, d, P1), PaysToken1(P, L, P1, o),
           Climbs(P1, L, o, e, P2), PaysToken0(P1, L, e, P2, back)
    PROVE  back <= a + (Q96 * L + a * P) \div (P * P1)
<1> DEFINE Q == Q96
<1>1. /\ Q \in Nat \ {0} /\ P2 = P1 + e /\ P1 <= P
      /\ L * e <= o * Q /\ o \in Nat /\ back \in Nat /\ Q * o <= L * (P - P1)
      /\ Q * d <= a * P /\ L * P < (L + d) * (P1 + 1)
  BY ScalesTyped DEF Climbs, PaysToken0, PaysToken1, Falls
<1>2. PICK k \in Nat : P1 * k <= L * Q /\ P2 * back <= k * e
  BY DEF PaysToken0
<1> HIDE DEF Q
<1>3. e <= P - P1 /\ P2 <= P /\ P2 \in Nat \ {0}
  <2>1. /\ o * Q = Q * o /\ Q * o \in Int /\ L * e \in Int /\ L * (P - P1) \in Int
        /\ P - P1 \in Int
    BY <1>1
  <2>2. L * e <= L * (P - P1)
    BY <1>1, <2>1
  <2>3. e <= P - P1
    BY <2>1, <2>2, TimesCancels
  <2> QED  BY <1>1, <2>3
<1>4. (P2 * P1) * back <= (L * Q) * e
  <2>1. (P2 * back) * P1 <= (k * e) * P1
    <3>1. P2 * back \in Nat /\ k * e \in Nat
      BY <1>1
    <3> QED  BY <1>2, <3>1, TimesMonotone
  <2>2. (P1 * k) * e <= (L * Q) * e
    <3>1. P1 * k \in Nat /\ L * Q \in Nat
      BY <1>1
    <3> QED  BY <1>2, <3>1, TimesMonotone
  <2>3. (P2 * back) * P1 = (P2 * P1) * back /\ (k * e) * P1 = (P1 * k) * e
    BY <1>1
  <2>4. (P2 * P1) * back \in Int /\ (P1 * k) * e \in Int /\ (L * Q) * e \in Int
    BY <1>1
  <2> QED  BY <2>1, <2>2, <2>3, <2>4
<1> DEFINE M == L * Q
           w == back * P1
<1>5. M \in Nat /\ w \in Nat
  BY <1>1
<1>6. w * P <= M * (P - P1)
  <2>1. P2 * w <= M * e
    <3>1. P2 * w = (P2 * P1) * back
      BY <1>1
    <3> QED  BY <1>4, <3>1
  <2> HIDE DEF M, w
  <2>2. (P2 * w) * P <= (M * e) * P
    <3>1. P2 * w \in Nat /\ M * e \in Nat
      BY <1>1, <1>5
    <3> QED  BY <2>1, <3>1, TimesMonotone
  <2>3. e * P <= P2 * (P - P1)
    <3>1. P1 * P2 <= P1 * P
      <4>1. P2 * P1 <= P * P1
        BY <1>3, TimesMonotone
      <4> QED  BY <4>1, <1>1
    <3>2. e * P = P2 * P - P1 * P
      BY <1>1
    <3>3. P2 * (P - P1) = P2 * P - P1 * P2
      BY <1>1
    <3>4. P1 * P2 \in Int /\ P1 * P \in Int /\ P2 * P \in Int
      OBVIOUS
    <3> QED  BY <3>1, <3>2, <3>3, <3>4
  <2>4. (e * P) * M <= (P2 * (P - P1)) * M
    <3>1. e * P \in Nat
      OBVIOUS
    <3>2. P2 * (P - P1) \in Nat
      <4>1. P - P1 \in Nat
        BY <1>1
      <4> QED  BY <4>1
    <3> QED  BY <1>5, <2>3, <3>1, <3>2, TimesMonotone
  <2>5. (M * e) * P = (e * P) * M /\ (P2 * w) * P = P2 * (w * P)
    BY <1>5
  <2>6. (P2 * (P - P1)) * M = P2 * (M * (P - P1))
    <3> DEFINE g == P - P1
    <3>1. g \in Int
      BY <1>1
    <3> HIDE DEF g
    <3>2. (P2 * g) * M = P2 * (M * g)
      BY <1>5, <3>1
    <3> QED  BY <3>2 DEF g
  <2>7. w * P \in Int /\ M * (P - P1) \in Int
    BY <1>1, <1>5
  <2>8. P2 * (w * P) \in Int /\ P2 * (M * (P - P1)) \in Int /\ (e * P) * M \in Int
    BY <1>5, <2>7
  <2>9. P2 * (w * P) <= P2 * (M * (P - P1))
    BY <2>2, <2>4, <2>5, <2>6, <2>8
  <2> QED  BY <1>3, <2>7, <2>9, TimesCancels
<1>7. M * (P - P1) <= a * (P * P1) + (Q * L + a * P)
  <2>1. L * (P - P1) <= P1 * d + L + d
    <3>1. L * (P - P1) = L * P - L * P1
      OBVIOUS
    <3>2. (L + d) * (P1 + 1) = L * P1 + L + P1 * d + d
      OBVIOUS
    <3>3. L * P \in Int /\ L * P1 \in Int /\ P1 * d \in Int
      OBVIOUS
    <3> QED  BY <1>1, <3>1, <3>2, <3>3
  <2> DEFINE g == L * (P - P1)
             r == P1 * d + L + d
  <2>2. g \in Nat /\ r \in Nat /\ g <= r
    <3>1. P - P1 \in Nat
      BY <1>1
    <3>2. L * (P - P1) \in Nat /\ P1 * d \in Nat
      BY <3>1
    <3> QED  BY <2>1, <3>2
  <2>3. M * (P - P1) = g * Q
    <3> DEFINE t == P - P1
    <3>1. t \in Int
      OBVIOUS
    <3> HIDE DEF t
    <3>2. (L * Q) * t = (L * t) * Q
      BY <1>1, <3>1
    <3> QED  BY <3>2 DEF t
  <2>4. r * Q = P1 * (Q * d) + Q * L + Q * d
    BY <1>1
  <2> HIDE DEF g, r, M
  <2>5. g * Q <= r * Q
    BY <1>1, <2>2, TimesMonotone
  <2> DEFINE b == Q * d
             c == a * P
  <2>6. b \in Nat /\ c \in Nat /\ b <= c
    BY <1>1
  <2> HIDE DEF b, c
  <2>7. P1 * b <= P1 * c
    <3>1. b * P1 <= c * P1
      BY <2>6, TimesMonotone
    <3> QED  BY <2>6, <3>1
  <2>8. P1 * c = a * (P * P1)
    BY DEF c
  <2>9. /\ P1 * b \in Int /\ P1 * c \in Int /\ Q * L \in Int /\ r * Q \in Int /\ g * Q \in Int
    BY <1>1, <2>2, <2>6
  <2>10. r * Q = P1 * b + Q * L + b
    BY <2>4 DEF b
  <2>11. g * Q <= P1 * c + (Q * L + c)
    BY <2>5, <2>6, <2>7, <2>9, <2>10
  <2> QED  BY <2>3, <2>8, <2>11 DEF c
<1>8. (P * P1) * back <= a * (P * P1) + (Q * L + a * P)
  <2>1. (P * P1) * back = w * P
    BY <1>1
  <2>2. /\ a * (P * P1) \in Int /\ Q * L \in Int /\ a * P \in Int
        /\ M * (P - P1) \in Int /\ w * P \in Int
    BY <1>1, <1>5
  <2> HIDE DEF w, M
  <2> QED  BY <1>6, <1>7, <2>1, <2>2
<1> DEFINE B == P * P1
           N == Q * L + a * P
<1>9. B \in Nat \ {0} /\ N \in Nat
  <2>1. Q * L \in Nat /\ a * P \in Nat
    BY <1>1
  <2> QED  BY <2>1
<1>10. B * back <= a * B + N
  BY <1>8
<1> HIDE DEF B, N
<1>11. back - a <= N \div B
  <2>1. N \div B \in Nat
    BY <1>9, QuotientBound
  <2>2. CASE back <= a
    BY <1>1, <2>1, <2>2
  <2>3. CASE ~ (back <= a)
    <3>1. back - a \in Nat
      BY <1>1, <2>3
    <3>2. B * (back - a) = B * back - a * B
      BY <1>1, <1>9
    <3>3. B * back \in Int /\ a * B \in Int
      BY <1>1, <1>9
    <3>4. B * (back - a) <= N
      BY <1>9, <1>10, <3>2, <3>3
    <3> QED  BY <1>9, <3>1, <3>4, QuotientLeast
  <2> QED  BY <2>2, <2>3
<1>12. N \div B \in Nat
  BY <1>9, QuotientBound
<1>13. back <= a + N \div B
  BY <1>1, <1>11, <1>12
<1> QED  BY <1>13 DEF N, B, Q

\* A price that falls to zero.
LEMMA FallsToZero ==
    ASSUME NEW P \in Nat \ {0}, NEW L \in Nat \ {0}, NEW a \in Nat, NEW d \in Nat,
           Falls(P, L, a, d, 0)
    PROVE  a * P > Q96 * (L * (P - 1))
<1> DEFINE Q == Q96
<1>1. Q \in Nat \ {0} /\ Q * d <= a * P /\ L * P < (L + d) * 1
  BY ScalesTyped DEF Falls
<1> HIDE DEF Q
<1>2. L * (P - 1) = L * P - L /\ L * P \in Int
  OBVIOUS
<1> DEFINE g == L * (P - 1)
<1>3. g \in Nat /\ g + 1 <= d
  <2>1. g \in Nat
    <3>1. P - 1 \in Nat
      OBVIOUS
    <3> QED  BY <3>1
  <2> QED  BY <1>1, <1>2, <2>1
<1> HIDE DEF g
<1>4. (g + 1) * Q <= d * Q
  BY <1>1, <1>3, TimesMonotone
<1>5. /\ (g + 1) * Q = Q * g + Q /\ d * Q = Q * d
      /\ Q * g \in Int /\ Q * d \in Int /\ a * P \in Int
  BY <1>1, <1>3
<1>6. a * P > Q * g
  BY <1>1, <1>4, <1>5
<1> QED  BY <1>6 DEF g, Q

\* The pool a V3 swap leaves behind.
LEMMA AfterSwap ==
    ASSUME ReservesTyped, NEW p \in Pools, NEW a \in Nat, NEW z \in BOOLEAN,
           SimulateV3(PoolNow(p), a, z) # NoSwap
    PROVE  LET there == SimulateV3(PoolNow(p), a, z)
               after == [PoolNow(p) EXCEPT !.reserve0 = there.reserve0]
           IN  /\ TypedPool(PoolNow(p)) /\ TypedPool(after)
               /\ after.reserve0 = there.reserve0 /\ after.reserve1 = PoolNow(p).reserve1
<1> DEFINE there == SimulateV3(PoolNow(p), a, z)
           after == [PoolNow(p) EXCEPT !.reserve0 = there.reserve0]
<1>1. TypedPool(PoolNow(p))
  BY PoolsTyped DEF ReservesTyped, PoolNow
<1>2. there.reserve0 \in Words
  BY <1>1, SimulateV3Typed
<1> HIDE DEF there
<1>3. /\ after.reserve0 = there.reserve0 /\ after.reserve1 = PoolNow(p).reserve1
      /\ after.feeTier = PoolNow(p).feeTier
  BY DEF PoolNow, PoolWith
<1> HIDE DEF after
<1>4. TypedPool(after)
  BY <1>1, <1>2, <1>3 DEF TypedPool
<1> QED  BY <1>1, <1>3, <1>4 DEF after, there

\* However swaps follow each other, a V3 swap and the swap back earn no more
\* than one unit of price is worth, and the price vanishes only for an input
\* that outweighs the pool, for every registry, amounts, scale and width.
THEOREM PriceKeepsValueHolds == Spec => []PriceKeepsValue
<1>1. ReservesTyped => PriceKeepsValue
  <2> SUFFICES ASSUME ReservesTyped, NEW p \in Pools, NEW a \in Amounts, NEW z \in BOOLEAN,
                      SimulateV3(PoolNow(p), a, z) # NoSwap
               PROVE  RoundTripEarns(PoolNow(p), a, z) /\ PriceVanishes(PoolNow(p), a, z)
    BY DEF PriceKeepsValue
  <2> DEFINE pool  == PoolNow(p)
             there == SimulateV3(pool, a, z)
             after == [pool EXCEPT !.reserve0 = there.reserve0]
             back  == SimulateV3(after, there.out, ~z)
             P     == pool.reserve0
             L     == pool.reserve1
             unit  == (Q96 * L + a * P) \div (P * after.reserve0)
  <2>1. a \in Nat
    BY PricingTyped
  <2>2. /\ TypedPool(pool) /\ TypedPool(after)
        /\ after.reserve0 = there.reserve0 /\ after.reserve1 = L
    BY <2>1, AfterSwap
  <2>3. RoundTripEarns(pool, a, z) <=>
           (back # NoSwap => back.out <= a + IF z THEN unit ELSE 0)
    BY DEF RoundTripEarns
  <2>4. PriceVanishes(pool, a, z) <=>
           (there.reserve0 = 0 => z /\ a * P > Q96 * (L * (P - 1)))
    BY DEF PriceVanishes
  <2> HIDE DEF pool, after
  <2>5. CASE z
    <3>1. z = TRUE
      BY <2>5
    <3>2. /\ P \in Nat \ {0} /\ L \in Nat \ {0}
          /\ \E d \in Nat : Falls(P, L, a, d, there.reserve0)
          /\ PaysToken1(P, L, there.reserve0, there.out)
      BY <2>1, <2>2, <3>1, FallIs DEF pool
    <3>3. PICK d \in Nat : Falls(P, L, a, d, there.reserve0)
      BY <3>2
    <3>4. there.reserve0 \in Nat /\ there.out \in Nat
      BY <3>2, <3>3 DEF Falls, PaysToken1
    <3> HIDE DEF P, L, there
    <3>5. there.reserve0 = 0 => a * P > Q96 * (L * (P - 1))
      BY <2>1, <3>2, <3>3, FallsToZero
    <3>6. ASSUME back # NoSwap PROVE back.out <= a + unit
      <4>1. back = SimulateV3(after, there.out, FALSE)
        BY <3>1
      <4> HIDE DEF back
      <4>2. /\ after.reserve0 \in Nat \ {0}
            /\ \E e \in Nat : /\ Climbs(after.reserve0, after.reserve1, there.out, e, back.reserve0)
                              /\ PaysToken0(after.reserve0, after.reserve1, e, back.reserve0, back.out)
        BY <2>2, <3>4, <3>6, <4>1, RiseIs
      <4>3. PICK e \in Nat : /\ Climbs(after.reserve0, L, there.out, e, back.reserve0)
                             /\ PaysToken0(after.reserve0, L, e, back.reserve0, back.out)
        BY <2>2, <4>2
      <4>4. back.reserve0 \in Nat
        BY <4>2, <4>3 DEF Climbs
      <4>5. Falls(P, L, a, d, after.reserve0) /\ PaysToken1(P, L, after.reserve0, there.out)
        BY <2>2, <3>2, <3>3
      <4> QED  BY <2>1, <3>2, <4>2, <4>3, <4>4, <4>5, FallAndClimb
    <3> QED  BY <2>3, <2>4, <2>5, <3>5, <3>6 DEF pool
  <2>6. CASE ~ z
    <3>1. z = FALSE
      BY <2>6
    <3>2. /\ P \in Nat \ {0} /\ L \in Nat \ {0}
          /\ \E d \in Nat : /\ Climbs(P, L, a, d, there.reserve0)
                            /\ PaysToken0(P, L, d, there.reserve0, there.out)
      BY <2>1, <2>2, <3>1, RiseIs DEF pool
    <3>3. PICK d \in Nat : /\ Climbs(P, L, a, d, there.reserve0)
                           /\ PaysToken0(P, L, d, there.reserve0, there.out)
      BY <3>2
    <3>4. there.reserve0 \in Nat \ {0} /\ there.out \in Nat
      BY <3>2, <3>3 DEF Climbs, PaysToken0
    <3> HIDE DEF P, L, there
    <3>5. there.reserve0 # 0
      BY <3>4
    <3>6. ASSUME back # NoSwap PROVE back.out <= a + 0
      <4>1. back = SimulateV3(after, there.out, TRUE)
        BY <3>1
      <4> HIDE DEF back
      <4>2. /\ \E e \in Nat : Falls(after.reserve0, after.reserve1, there.out, e, back.reserve0)
            /\ PaysToken1(after.reserve0, after.reserve1, back.reserve0, back.out)
        BY <2>2, <3>4, <3>6, <4>1, FallIs
      <4>3. PICK e \in Nat : Falls(there.reserve0, L, there.out, e, back.reserve0)
        BY <2>2, <4>2
      <4>4. back.reserve0 \in Nat
        BY <4>3 DEF Falls
      <4>5. PaysToken1(there.reserve0, L, back.reserve0, back.out)
        BY <2>2, <4>2
      <4>6. back.out \in Nat /\ a + 0 = a
        BY <2>1, <4>5 DEF PaysToken1
      <4> QED  BY <2>1, <3>2, <3>3, <3>4, <4>3, <4>4, <4>5, <4>6, ClimbAndFall
    <3> QED  BY <2>3, <2>4, <2>6, <3>5, <3>6 DEF pool
  <2> QED  BY <2>5, <2>6
<1> QED  BY <1>1, TypesInit, TypesStep, PTL DEF Spec
=============================================================================
