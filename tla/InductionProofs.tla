---------------------------- MODULE InductionProofs ----------------------------
(***************************************************************************)
(* Induction over the naturals and recursive functions, stated about sets: *)
(* no lemma here has an operator for a parameter.                          *)
(***************************************************************************)
EXTENDS Integers, WellFoundedInduction, TLAPS

\* A set of naturals has a least element.
LEMMA LeastNatural ==
    ASSUME NEW T \in SUBSET Nat, T # {}
    PROVE  \E x \in T : \A y \in T : x <= y
<1> DEFINE R == { ss \in Nat \X Nat : ss[1] < ss[2] }
<1>1. IsWellFoundedOn(R, Nat)
  BY NatLessThanWellFounded DEF OpToRel
<1>2. ASSUME NEW x \in Nat, NEW y \in Nat, ~ (<<y, x>> \in R)
      PROVE  x <= y
  BY <1>2
<1> HIDE DEF R
<1>3. PICK x \in T : \A y \in T : ~ (<<y, x>> \in R)
  BY <1>1, WFMin
<1>4. \A y \in T : x <= y
  BY <1>2, <1>3
<1> QED  BY <1>4

\* Induction, about a set of naturals: no fact about every natural that follows
\* needs an operator as a parameter.
LEMMA NaturalsBySteps ==
    ASSUME NEW T \in SUBSET Nat, 0 \in T, \A n \in T : n + 1 \in T
    PROVE  T = Nat
<1> SUFFICES ASSUME Nat \ T # {} PROVE FALSE
  OBVIOUS
<1>1. PICK n \in Nat \ T : \A m \in Nat \ T : n <= m
  BY LeastNatural
<1>2. n - 1 \in Nat /\ n - 1 \in T
  BY <1>1
<1> QED  BY <1>1, <1>2

\* f begins with v0 and goes on by step.
Recurs(f, V, v0, step) ==
    /\ f \in [Nat -> V]
    /\ f[0] = v0
    /\ \A n \in Nat \ {0} : f[n] = step[n][f[n - 1]]

\* A recursion over the naturals has a solution: the values of its longer and
\* longer beginnings agree.
LEMMA RecursionSolved ==
    ASSUME NEW V, NEW v0 \in V, NEW step \in [Nat -> [V -> V]]
    PROVE  \E f : Recurs(f, V, v0, step)
<1> DEFINE Solves(g, n) == /\ g \in [0 .. n -> V]
                           /\ g[0] = v0
                           /\ \A i \in 1 .. n : g[i] = step[i][g[i - 1]]
           Ns == { n \in Nat : \E g : Solves(g, n) }
<1>1. 0 \in Ns
  <2>1. Solves([i \in 0 .. 0 |-> v0], 0)
    OBVIOUS
  <2> QED  BY <2>1
<1>2. ASSUME NEW n \in Ns PROVE n + 1 \in Ns
  <2>1. PICK g : Solves(g, n)
    BY <1>2
  <2> DEFINE h == [i \in 0 .. n + 1 |-> IF i = n + 1 THEN step[n + 1][g[n]] ELSE g[i]]
  <2>2. n \in Nat /\ g[n] \in V /\ step[n + 1][g[n]] \in V
    BY <2>1
  <2>3. h \in [0 .. n + 1 -> V] /\ h[0] = v0
    BY <2>1, <2>2
  <2>4. ASSUME NEW i \in 1 .. n + 1 PROVE h[i] = step[i][h[i - 1]]
    <3>1. CASE i = n + 1
      BY <2>2, <3>1
    <3>2. CASE i # n + 1
      <4>1. i \in 1 .. n /\ i - 1 \in 0 .. n /\ i - 1 # n + 1 /\ i \in 0 .. n + 1
        BY <2>2, <3>2
      <4>2. h[i] = g[i] /\ h[i - 1] = g[i - 1]
        BY <2>2, <4>1
      <4> QED  BY <2>1, <4>1, <4>2
    <3> QED  BY <3>1, <3>2
  <2>5. Solves(h, n + 1)
    <3> HIDE DEF h
    <3> QED  BY <2>3, <2>4
  <2> HIDE DEF h, Solves
  <2> QED  BY <2>2, <2>5
<1>3. Ns = Nat
  <2> HIDE DEF Ns
  <2>1. Ns \in SUBSET Nat
    BY DEF Ns
  <2> QED  BY <1>1, <1>2, <2>1, NaturalsBySteps
<1>4. ASSUME NEW m \in Nat, NEW k \in Nat, k >= m,
             NEW g, NEW h, Solves(g, m), Solves(h, k)
      PROVE  g[m] = h[m]
  <2> DEFINE Same == { i \in Nat : i <= m => g[i] = h[i] }
  <2>1. 0 \in Same
    BY <1>4
  <2>2. ASSUME NEW i \in Same PROVE i + 1 \in Same
    <3>1. CASE i + 1 <= m
      <4>1. i + 1 \in 1 .. m /\ i + 1 \in 1 .. k /\ (i + 1) - 1 = i /\ i <= m
        BY <1>4, <3>1
      <4>2. g[i + 1] = step[i + 1][g[i]] /\ h[i + 1] = step[i + 1][h[i]]
        BY <1>4, <4>1
      <4> QED  BY <2>2, <4>1, <4>2
    <3> QED  BY <3>1
  <2>3. Same = Nat
    <3> HIDE DEF Same
    <3>1. Same \in SUBSET Nat
      BY DEF Same
    <3> QED  BY <2>1, <2>2, <3>1, NaturalsBySteps
  <2> QED  BY <2>3
<1> DEFINE G(n) == CHOOSE g : Solves(g, n)
           f    == [n \in Nat |-> G(n)[n]]
<1>5. \A n \in Nat : Solves(G(n), n)
  BY <1>3
<1> HIDE DEF G, Ns
<1>6. f \in [Nat -> V] /\ f[0] = v0
  BY <1>5
<1>7. ASSUME NEW n \in Nat, n # 0 PROVE f[n] = step[n][f[n - 1]]
  <2>1. n - 1 \in Nat /\ n >= n - 1 /\ Solves(G(n), n) /\ Solves(G(n - 1), n - 1)
    BY <1>5, <1>7
  <2>2. G(n - 1)[n - 1] = G(n)[n - 1]
    <3> HIDE DEF Solves
    <3> QED  BY <1>4, <2>1
  <2>3. G(n)[n] = step[n][G(n)[n - 1]]
    BY <2>1, <1>7
  <2> QED  BY <2>1, <2>2, <2>3
<1> HIDE DEF f
<1>8. Recurs(f, V, v0, step)
  BY <1>6, <1>7 DEF Recurs
<1> QED  BY <1>8

=============================================================================
